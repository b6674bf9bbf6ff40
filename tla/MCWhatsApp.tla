----------------------------- MODULE MCWhatsApp -----------------------------
(***************************************************************************)
(* WhatsApp for TLC.  The messages are documents: one of a peer that has   *)
(* no name, and two of the same name, which the owner sends from another   *)
(* device and the daemon sends.                                            *)
(***************************************************************************)
EXTENDS WhatsApp, TLC

CONSTANTS
  paper, letter, report,  \* the messages
  scan                    \* a name given to documents

Authors == (paper :> "peer") @@ (letter :> "owner") @@ (report :> "daemon")
Carried == [m \in Msgs |-> "document"]
Titles  == (paper :> NoName) @@ (letter :> scan) @@ (report :> scan)
=============================================================================
