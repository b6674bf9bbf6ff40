------------------------------- MODULE MCHub -------------------------------
(***************************************************************************)
(* Instances of Hub for TLC.  Users, connections and transports are model  *)
(* values; interchangeable connections are permuted.                       *)
(***************************************************************************)
EXTENDS HubRefinement

Symmetry == Permutations(Askers) \union Permutations(Subs)
=============================================================================
