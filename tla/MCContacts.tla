----------------------------- MODULE MCContacts -----------------------------
(***************************************************************************)
(* Contacts for TLC: two people, called sam and samantha.                  *)
(***************************************************************************)
EXTENDS Contacts, TLC

CONSTANTS sam, samantha

\* Every alias is one line.
OneLine == [t \in Tokens |-> {t}]

SamBeginsSamantha == {<<sam, samantha>>}

Symmetry == Permutations(Writers)
=============================================================================
