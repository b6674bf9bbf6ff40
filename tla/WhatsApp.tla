------------------------------ MODULE WhatsApp ------------------------------
(***************************************************************************)
(* The WhatsApp transport: its messages (WhatsAppMessages) and its link    *)
(* (WhatsAppLink).  They share nothing but the transport's inbound         *)
(* channel, so a behaviour is one of either.                               *)
(***************************************************************************)
EXTENDS WhatsAppMessages

CONSTANTS Starter, Callers, MaxFlows, MaxEvents  \* of WhatsAppLink

VARIABLES
  part,  \* the part that moves
  \* WhatsAppLink
  status, qr, client, db, pc, mine, reading, dropping, paired, linked, wanted,
  flow, events

Link == INSTANCE WhatsAppLink

linkVars ==
  <<status, qr, client, db, pc, mine, reading, dropping, paired, linked, wanted,
    flow, events>>
transportVars == <<part, vars, linkVars>>

ASSUME WhatsAppAssumption == MaxFlows \in Nat

-----------------------------------------------------------------------------
WInit ==
  /\ part \in {"link", "messages"}
  /\ Link!Init
  /\ part = "messages" => ~paired
  /\ Init

WNext ==
  \/ part = "link" /\ Link!Next /\ UNCHANGED <<part, vars>>
  \/ part = "messages" /\ Next /\ UNCHANGED <<part, linkVars>>

WSpec ==
  /\ WInit
  /\ [][WNext]_transportVars
  /\ Link!Fairness
  /\ Fairness

-----------------------------------------------------------------------------
(* The properties of the modules.                                          *)

\* Every variable of both has its type.
TypesOK == TypeOK /\ Link!TypeOK

\* transport.go:94: what WhatsAppLink states of a code that was shown.
QRGoesAway == Link!QRGoesAway
=============================================================================
