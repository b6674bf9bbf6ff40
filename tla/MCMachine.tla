----------------------------- MODULE MCMachine ------------------------------
(***************************************************************************)
(* Machine for TLC.                                                        *)
(***************************************************************************)
EXTENDS Machine, TLC

CONSTANTS
  sam, samantha,  \* spellings; samantha begins with sam
  full, bare,     \* channel fields: every address, or a phone number only
  p1, p2          \* processes: one installs, the other does not

\* Every alias is one line.
OneLine == [t \in Tokens |-> {t}]

SamBeginsSamantha == {<<sam, samantha>>}

AddressKinds ==
  (full :> [t \in Routes |-> "handle"])
  @@ (bare :> [t \in Routes |-> IF t = "instagram" THEN "none" ELSE "phone"])

Do(verb, name, force) == [verb |-> verb, name |-> name, force |-> force]

InstallAndUninstall ==
  (p1 :> {Do("install", "team", FALSE), Do("install", "team", TRUE)})
  @@ (p2 :> {Do("uninstall", "agent", FALSE), Do("status", "agent", FALSE)})
=============================================================================
