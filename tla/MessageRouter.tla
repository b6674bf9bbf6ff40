--------------------------- MODULE MessageRouter ---------------------------
(***************************************************************************)
(* What the hub promises, without channels, queues or goroutines.  Every   *)
(* accepted message is decided once: it answers one ask, or it is appended *)
(* to one log, or it is lost.  An ask gets at most one message.  A reader  *)
(* of the log starts at its end and moves forward only, possibly skipping. *)
(***************************************************************************)
EXTENDS Naturals, Sequences

CONSTANTS Asks, Readers

VARIABLES
  next,       \* id of the next message
  undecided,  \* accepted messages whose fate is open
  answer,     \* the message each ask was answered with, 0 if none
  log,        \* ids of the broadcast messages
  cursor      \* how far into the log each reader has got

vars == <<next, undecided, answer, log, cursor>>

Init ==
  /\ next = 1
  /\ undecided = {}
  /\ answer = [a \in Asks |-> 0]
  /\ log = <<>>
  /\ cursor = [r \in Readers |-> 0]

Accept ==
  /\ undecided' = undecided \union {next}
  /\ next' = next + 1
  /\ UNCHANGED <<answer, log, cursor>>

Lose(n) ==
  /\ undecided' = undecided \ {n}
  /\ UNCHANGED <<next, answer, log, cursor>>

Answer(n, a) ==
  /\ answer[a] = 0
  /\ answer' = [answer EXCEPT ![a] = n]
  /\ undecided' = undecided \ {n}
  /\ UNCHANGED <<next, log, cursor>>

Publish(n) ==
  /\ log' = Append(log, n)
  /\ undecided' = undecided \ {n}
  /\ UNCHANGED <<next, answer, cursor>>

Join(r) ==
  /\ cursor' = [cursor EXCEPT ![r] = Len(log)]
  /\ UNCHANGED <<next, undecided, answer, log>>

Read(r) ==
  /\ \E i \in (cursor[r] + 1)..Len(log) : cursor' = [cursor EXCEPT ![r] = i]
  /\ UNCHANGED <<next, undecided, answer, log>>

Next ==
  \/ Accept
  \/ \E n \in undecided : Lose(n) \/ Publish(n) \/ \E a \in Asks : Answer(n, a)
  \/ \E r \in Readers : Join(r) \/ Read(r)

Spec == Init /\ [][Next]_vars
=============================================================================
