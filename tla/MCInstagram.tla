---------------------------- MODULE MCInstagram ----------------------------
(***************************************************************************)
(* Instagram for TLC.                                                      *)
(***************************************************************************)
EXTENDS Instagram
=============================================================================
