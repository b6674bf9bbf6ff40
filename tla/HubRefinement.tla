--------------------------- MODULE HubRefinement ---------------------------
(***************************************************************************)
(* The hub implements MessageRouter.  A message is undecided while a       *)
(* receive loop, the inbound channel or the consumer holds it; a reader    *)
(* stands at the last event its connection was given.                      *)
(***************************************************************************)
EXTENDS Hub

Undecided ==
  {holding[t].id : t \in {t \in Transports : holding[t].id # 0}}
    \union {inbound[i].id : i \in DOMAIN inbound}
    \union (IF consumer = "deliver" THEN {cur.id} ELSE {})

LastRead(s) ==
  IF received[s] = <<>>
  THEN joinedAt[s]
  ELSE CHOOSE i \in DOMAIN published : published[i] = Last(received[s])

Router == INSTANCE MessageRouter WITH
            Asks      <- Askers,
            Readers   <- Subs,
            next      <- nextId,
            undecided <- Undecided,
            log       <- published,
            cursor    <- [s \in Subs |-> LastRead(s)]

\* Each step of the hub is a step of the router or leaves its state alone: no
\* message is decided twice, no ask answered twice, no subscriber goes back.
ImplementsRouter == Router!Spec
=============================================================================
