---------------------------- MODULE MCDispatcher ----------------------------
(***************************************************************************)
(* Dispatcher for TLC.  Requests are interchangeable.                      *)
(***************************************************************************)
EXTENDS Dispatcher, TLC

Symmetry == Permutations(Requests)
=============================================================================
