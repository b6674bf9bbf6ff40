----------------------------- MODULE Instagram -----------------------------
(***************************************************************************)
(* The Instagram transport (internal/comms/instagram) and the sidecar that *)
(* holds its account session (contrib/instagram-sidecar/app.py).           *)
(*                                                                         *)
(* Start restores or makes a login and then polls the recent messages.     *)
(* Each connector action (log in, submit a code, log out) runs in the      *)
(* goroutine of its IPC connection, so it overlaps Start, the poll and     *)
(* other actions; only single assignments of the status are locked.  The   *)
(* daemon and the sidecar restart independently: the daemon keeps its      *)
(* message store and the saved session, the sidecar keeps nothing.         *)
(*                                                                         *)
(* Messages are the numbers of their arrival, sessions the numbers of the  *)
(* logins that made them; session 0 is settings nobody is logged in with.  *)
(***************************************************************************)
EXTENDS Naturals, Sequences

CONSTANTS
  Starter,      \* the goroutine of Start
  Actions,      \* those of connector actions, one action at a time each
  Recent,       \* messages a poll is shown, 10 per thread in the code
  InboundCap,   \* capacity of the hub's inbound channel
  MaxSessions,  \* bound: logins that succeed
  MaxMsgs       \* bound: messages, of either direction

ASSUME InstagramAssumption ==
  /\ Starter \notin Actions
  /\ Recent \in Nat \ {0}
  /\ InboundCap \in Nat \ {0}
  /\ MaxSessions \in Nat
  /\ MaxMsgs \in Nat

Procs    == Actions \union {Starter}
Sessions == 0..MaxSessions
Msgs     == 1..MaxMsgs

VARIABLES
  \* the transport
  status,    \* Transport.status, the reason of action_required for its state
  blob,      \* session.enc: the session saved in it, if there is one
  row,       \* ig_messages, per message
  pc,        \* where each goroutine is
  held,      \* the session it read, to restore or to save it, else 0
  result,    \* the status its login calls for, "error" before it is known
  fetched,   \* messages of the running poll still to look at
  cur,       \* the one it is emitting, 0 if none
  sending,   \* messages sent and not yet stored by Send
  inbound,   \* the hub's channel
  \* the sidecar
  session,   \* the session of its client
  pending,   \* _pending: what it waits for to finish a login
  \* Instagram
  live,      \* sessions it accepts
  logins,    \* sessions it made
  arrived,   \* messages there are
  mine,      \* those the account sent
  \* history
  pushed     \* messages put on the inbound channel, in order

account  == <<status, blob>>
sidecar  == <<session, pending>>
platform == <<live, logins>>
work     == <<pc, held, result>>
poll     == <<fetched, cur, inbound, pushed>>
messages == <<row, sending, arrived, mine>>
vars == <<account, sidecar, platform, work, poll, messages>>

TwoSteps == {"needs_2fa", "needs_challenge"}
Statuses == TwoSteps \union {"disconnected", "connecting", "connected",
                             "session_expired", "error"}
Places   == {"start", "idle", "load", "restore", "login", "loggingIn", "verify",
             "verifying", "apply", "dump", "save", "logout", "clear", "down",
             "tick", "threads", "lapse", "scan", "emit", "failed"}

Init ==
  /\ status = "disconnected"
  /\ blob = {}
  /\ row = [m \in Msgs |-> "none"]
  /\ pc = [p \in Procs |-> IF p = Starter THEN "start" ELSE "idle"]
  /\ held = [p \in Procs |-> 0]
  /\ result = [p \in Procs |-> "error"]
  /\ fetched = {}
  /\ cur = 0
  /\ sending = {}
  /\ inbound = <<>>
  /\ session = 0
  /\ pending = "none"
  /\ live = {}
  /\ logins = 0
  /\ arrived = 0
  /\ mine = {}
  /\ pushed = <<>>

\* Where a goroutine goes when its login, code or logout is over.
Done(p) == IF p = Starter THEN "tick" ELSE "idle"

Move(p, from, to) == pc[p] = from /\ pc' = [pc EXCEPT ![p] = to]

\* A step that only touches the account on the transport's side ...
Local(p, from, to) ==
  Move(p, from, to) /\ UNCHANGED <<sidecar, platform, poll, messages>>

\* ... and a call of the sidecar, which touches nothing of the transport's.
Call(p, from, to) ==
  Move(p, from, to) /\ UNCHANGED <<account, poll, messages>>

-----------------------------------------------------------------------------
(* Start and Action.                                                       *)

\* Opening the store or reading the configuration can fail: Start returns.
Start ==
  /\ \/ Local(Starter, "start", "failed") /\ status' = "error"
     \/ Local(Starter, "start", "tick") /\ status' = "disconnected"
     \/ Local(Starter, "start", "load") /\ status' = "connecting"
  /\ UNCHANGED <<blob, held, result>>

Action(a) ==
  /\ \E to \in {"load", "verify", "logout"} : Local(a, "idle", to)
  /\ UNCHANGED <<account, held, result>>

\* tryRestore: no saved session, or one that cannot be read, leads to a login.
Load(p) ==
  /\ \/ Local(p, "load", "login") /\ UNCHANGED held
     \/ \E s \in blob : /\ Local(p, "load", "restore")
                        /\ held' = [held EXCEPT ![p] = s]
  /\ UNCHANGED <<account, result>>

\* The sidecar takes the settings over and tries them.  It takes a rate-limited
\* trial for a pass.
Restore(p) ==
  /\ \/ /\ Call(p, "restore", "apply")
        /\ held[p] # 0
        /\ session' = held[p]
        /\ result' = [result EXCEPT ![p] = "connected"]
     \/ /\ Call(p, "restore", "login")
        /\ session' \in {session, held[p]}
        /\ UNCHANGED result
  /\ held' = [held EXCEPT ![p] = 0]
  /\ UNCHANGED <<pending, platform>>

\* Wrong: leaves the status as it was.
UnconfiguredSilently(p) ==
  Local(p, "login", Done(p)) /\ UNCHANGED <<account, held, result>>

\* No credentials.
Unconfigured(p) ==
  /\ Local(p, "login", Done(p))
  /\ status' = "disconnected"
  /\ UNCHANGED <<blob, held, result>>

\* The call does not reach the sidecar.
Unreached(p) ==
  /\ Call(p, "login", "apply") \/ Call(p, "verify", "apply")
  /\ result' = [result EXCEPT ![p] = "error"]
  /\ UNCHANGED <<sidecar, platform, held>>

BeginLogin(p) ==
  /\ Call(p, "login", "loggingIn")
  /\ pending' = "none"
  /\ UNCHANGED <<session, platform, held, result>>

BeginVerify(p) ==
  /\ Call(p, "verify", "verifying")
  /\ pending # "none"
  /\ UNCHANGED <<sidecar, platform, held, result>>

\* The sidecar answers; the answer may get lost.
Answer(p, from, answer) ==
  /\ Call(p, from, "apply")
  /\ \E r \in {answer, "error"} : result' = [result EXCEPT ![p] = r]
  /\ UNCHANGED held

NewSession ==
  /\ logins < MaxSessions
  /\ logins' = logins + 1
  /\ session' = logins'
  /\ live' = live \union {logins'}

\* A login succeeds, needs a second step, or is refused.
EndLogin(p) ==
  \/ Answer(p, "loggingIn", "connected") /\ NewSession /\ UNCHANGED pending
  \/ /\ \E step \in TwoSteps : Answer(p, "loggingIn", step) /\ pending' = step
     /\ UNCHANGED <<session, platform>>
  \/ Answer(p, "loggingIn", "error") /\ UNCHANGED <<sidecar, platform>>

\* A code is accepted, leads to a challenge, or is refused; without a login in
\* progress it is refused at once.
EndVerify(p) ==
  \/ Answer(p, "verifying", "connected") /\ NewSession /\ pending' = "none"
  \/ /\ Answer(p, "verifying", "needs_challenge")
     /\ pending' = "needs_challenge"
     /\ UNCHANGED <<session, platform>>
  \/ Answer(p, "verifying", "error") /\ UNCHANGED <<sidecar, platform>>
  \/ /\ pending = "none"
     /\ Answer(p, "verify", "error")
     /\ UNCHANGED <<sidecar, platform>>

\* applyLoginResult.
Apply(p) ==
  /\ Local(p, "apply", IF result[p] = "connected" THEN "dump" ELSE Done(p))
  /\ status' = result[p]
  /\ result' = [result EXCEPT ![p] = "error"]
  /\ UNCHANGED <<blob, held>>

\* persistSession.
Dump(p) ==
  /\ \/ Call(p, "dump", "save") /\ held' = [held EXCEPT ![p] = session]
     \/ Call(p, "dump", Done(p)) /\ UNCHANGED held
  /\ UNCHANGED <<sidecar, platform, result>>

Save(p) ==
  /\ Local(p, "save", Done(p))
  /\ blob' \in {blob, {held[p]}}
  /\ held' = [held EXCEPT ![p] = 0]
  /\ UNCHANGED <<status, result>>

\* Log out: each of the first two parts is tried, not ensured.
Logout(p) ==
  /\ Call(p, "logout", "clear")
  /\ session' \in {session, 0}
  /\ live' \in {live, live \ {session}}
  /\ UNCHANGED <<pending, logins, held, result>>

Clear(p) ==
  /\ Local(p, "clear", "down")
  /\ blob' \in {blob, {}}
  /\ UNCHANGED <<status, held, result>>

Down(p) ==
  /\ Local(p, "down", Done(p))
  /\ status' = "disconnected"
  /\ UNCHANGED <<blob, held, result>>

-----------------------------------------------------------------------------
(* pollLoop and pollOnce.                                                  *)

PollStep(from, to) ==
  /\ Move(Starter, from, to)
  /\ UNCHANGED <<blob, held, result, sidecar, platform, sending, arrived, mine>>

Tick ==
  /\ PollStep("tick", "threads")
  /\ status = "connected"
  /\ UNCHANGED <<status, poll, row>>

\* The messages a poll is shown.
Shown == {m \in 1..arrived : m + Recent > arrived}

\* Instagram answers, with messages or with a 401.
FetchAnswered ==
  /\ session # 0
  /\ \/ /\ PollStep("threads", "scan")
        /\ session \in live
        /\ fetched' = Shown
     \/ /\ PollStep("threads", "lapse")
        /\ session \notin live
        /\ UNCHANGED fetched
  /\ UNCHANGED <<status, cur, inbound, pushed, row>>

\* Rate limit, or any other error.  What the library says when nobody is logged
\* in is not known here: 401 or something else.
FetchFailed ==
  /\ \/ PollStep("threads", "tick")
     \/ session = 0 /\ PollStep("threads", "lapse")
  /\ UNCHANGED <<status, poll, row>>

\* Wrong: says nothing of a lapsed session.
LapseSilently == PollStep("lapse", "tick") /\ UNCHANGED <<status, poll, row>>

\* 401: the session lapsed.
Lapse ==
  /\ PollStep("lapse", "tick")
  /\ status' = "session_expired"
  /\ UNCHANGED <<poll, row>>

\* Message m, stored or not, is done with ...
Skip(m) ==
  /\ PollStep("scan", "scan")
  /\ fetched' = fetched \ {m}
  /\ UNCHANGED <<status, cur, inbound, pushed>>

\* ... or has to be emitted.
EmitNext(m) ==
  /\ PollStep("scan", "emit")
  /\ fetched' = fetched \ {m}
  /\ cur' = m
  /\ UNCHANGED <<status, inbound, pushed>>

SetRow(m, flag) == row' = [row EXCEPT ![m] = flag]

\* Wrong: replaces the row a message has.
StoreReplacing(m) ==
  /\ m \in fetched
  /\ \/ m \in mine /\ Skip(m) /\ SetRow(m, "read")
     \/ m \notin mine /\ EmitNext(m) /\ SetRow(m, "unread")

\* Wrong: takes a row that is there for a new one.
StoreAgain(m) ==
  /\ m \in fetched
  /\ m \notin mine
  /\ EmitNext(m)
  /\ SetRow(m, IF row[m] = "none" THEN "unread" ELSE row[m])

\* A message without a row gets one; others' messages are then emitted.
Store(m) ==
  /\ m \in fetched
  /\ row[m] = "none"
  /\ \/ m \in mine /\ Skip(m) /\ SetRow(m, "read")
     \/ m \notin mine /\ EmitNext(m) /\ SetRow(m, "unread")

\* It has a row, or inserting it fails.
NotStored(m) == m \in fetched /\ Skip(m) /\ UNCHANGED row

Scanned ==
  /\ PollStep("scan", "tick")
  /\ fetched = {}
  /\ UNCHANGED <<status, poll, row>>

\* Wrong: waits for room without end.
EmitBlocking ==
  /\ PollStep("emit", "scan")
  /\ Len(inbound) < InboundCap
  /\ inbound' = Append(inbound, cur)
  /\ pushed' = Append(pushed, cur)
  /\ cur' = 0
  /\ UNCHANGED <<status, fetched, row>>

\* Wrong: pushes although the channel is full.
EmitUnbounded ==
  /\ PollStep("emit", "scan")
  /\ inbound' = Append(inbound, cur)
  /\ pushed' = Append(pushed, cur)
  /\ cur' = 0
  /\ UNCHANGED <<status, fetched, row>>

\* Push to the hub, or give up after five seconds without room.
Emit ==
  /\ PollStep("emit", "scan")
  /\ \/ /\ Len(inbound) < InboundCap
        /\ inbound' = Append(inbound, cur)
        /\ pushed' = Append(pushed, cur)
     \/ Len(inbound) = InboundCap /\ UNCHANGED <<inbound, pushed>>
  /\ cur' = 0
  /\ UNCHANGED <<status, fetched, row>>

-----------------------------------------------------------------------------
(* Messages: the store's other users, and the world.                       *)

elsewhere == <<account, sidecar, platform, work, fetched, cur, pushed>>

\* Send and SendFile: the message is sent, then stored; the answer may get lost
\* in between.
Send ==
  /\ status = "connected"
  /\ session \in live
  /\ arrived < MaxMsgs
  /\ arrived' = arrived + 1
  /\ mine' = mine \union {arrived'}
  /\ sending' \in {sending, sending \union {arrived'}}
  /\ UNCHANGED <<elsewhere, row, inbound>>

StoreSent(m) ==
  /\ m \in sending
  /\ sending' = sending \ {m}
  /\ SetRow(m, "read") \/ UNCHANGED row
  /\ UNCHANGED <<elsewhere, arrived, mine, inbound>>

MarkRead(m) ==
  /\ row[m] = "unread"
  /\ SetRow(m, "read")
  /\ UNCHANGED <<elsewhere, sending, arrived, mine, inbound>>

HubTakes ==
  /\ inbound # <<>>
  /\ inbound' = Tail(inbound)
  /\ UNCHANGED <<elsewhere, messages>>

Arrive ==
  /\ arrived < MaxMsgs
  /\ arrived' = arrived + 1
  /\ UNCHANGED <<elsewhere, row, sending, mine, inbound>>

Expire(s) ==
  /\ s \in live
  /\ live' = live \ {s}
  /\ UNCHANGED <<account, sidecar, logins, work, poll, messages>>

\* The client and _pending are gone.
SidecarRestarts ==
  /\ session' = 0
  /\ pending' = "none"
  /\ UNCHANGED <<account, platform, work, poll, messages>>

\* The store and session.enc stay.
DaemonRestarts ==
  /\ status' = "disconnected"
  /\ pc' = [p \in Procs |-> IF p = Starter THEN "start" ELSE "idle"]
  /\ held' = [p \in Procs |-> 0]
  /\ result' = [p \in Procs |-> "error"]
  /\ fetched' = {}
  /\ cur' = 0
  /\ sending' = {}
  /\ inbound' = <<>>
  /\ UNCHANGED <<blob, sidecar, platform, pushed, row, arrived, mine>>

-----------------------------------------------------------------------------
Account(p) == \/ Load(p)
              \/ Restore(p)
              \/ Unconfigured(p)
              \/ Unreached(p)
              \/ BeginLogin(p)
              \/ BeginVerify(p)
              \/ EndLogin(p)
              \/ EndVerify(p)
              \/ Apply(p)
              \/ Dump(p)
              \/ Save(p)
              \/ Logout(p)
              \/ Clear(p)
              \/ Down(p)

Poll == \/ Tick
        \/ FetchAnswered
        \/ FetchFailed
        \/ Lapse
        \/ \E m \in Msgs : Store(m) \/ NotStored(m)
        \/ Scanned
        \/ Emit

World == \/ Send
         \/ \E m \in Msgs : StoreSent(m) \/ MarkRead(m)
         \/ HubTakes
         \/ Arrive
         \/ \E s \in Sessions : Expire(s)
         \/ SidecarRestarts
         \/ DaemonRestarts

Next == \/ Start
        \/ \E a \in Actions : Action(a)
        \/ \E p \in Procs : Account(p)
        \/ Poll
        \/ World

Spec == Init /\ [][Next]_vars

\* Goroutines run and every call of the sidecar returns (its HTTP client has a
\* timeout).  Of the world only this: of polls tried again and again one is
\* answered, and of inserts tried again and again one succeeds.
Fairness ==
  /\ WF_vars(Start)
  /\ \A p \in Procs : WF_vars(Account(p))
  /\ WF_vars(Poll)
  /\ SF_vars(FetchAnswered)
  /\ SF_vars(\E m \in Msgs : Store(m))

FairSpec == Spec /\ Fairness

-----------------------------------------------------------------------------
\* Every variable has its type; the inbound channel stays within its capacity.
TypeOK ==
  /\ status \in Statuses
  /\ blob \subseteq Sessions
  /\ row \in [Msgs -> {"none", "unread", "read"}]
  /\ pc \in [Procs -> Places]
  /\ held \in [Procs -> Sessions]
  /\ result \in [Procs -> Statuses]
  /\ fetched \subseteq 1..arrived
  /\ cur \in 0..arrived
  /\ sending \subseteq mine
  /\ inbound \in Seq(Nat) /\ Len(inbound) <= InboundCap
  /\ session \in Sessions
  /\ pending \in TwoSteps \union {"none"}
  /\ live \subseteq 1..logins
  /\ logins \in Sessions
  /\ arrived \in 0..MaxMsgs
  /\ mine \subseteq 1..arrived
  /\ pushed \in Seq(Nat)

\* Polls overlap in what they are shown and the daemon restarts in the middle of
\* one: still a message reaches the hub at most once, the account's own never,
\* and only after it was stored.
SurfacedOnce ==
  \A i \in DOMAIN pushed :
    /\ pushed[i] \in Msgs \ mine
    /\ row[pushed[i]] # "none"
    /\ \A j \in DOMAIN pushed : pushed[j] = pushed[i] => j = i

\* store.go: a message "never re-surfaces as unread after it was read".
ReadStaysRead == [][\A m \in Msgs : row[m] = "read" => row'[m] = "read"]_vars

\* Start returned with an error; nothing polls until the daemon is restarted.
Failed == pc[Starter] = "failed"

\* transport.go: the status is "surfaced honestly".  A transport that shows
\* connected with a session Instagram no longer accepts, whatever race led there,
\* does not show it for ever (unless the sidecar is restarted, see FetchFailed).
DeadSessionNoticed ==
  status = "connected" /\ session \notin live \union {0}
    ~> status # "connected" \/ session \in live \union {0} \/ Failed

\* However Start and the owner's actions overlap, and whatever calls fail, the
\* console does not show connecting for ever.
ConnectingEnds == status = "connecting" ~> status # "connecting"

\* While it is connected, a message is stored unless newer ones push it out of
\* what a poll is shown; nobody need take messages off the inbound channel.
ConnectedReceives ==
  \A m \in Msgs :
    m <= arrived ~> \/ row[m] # "none"
                    \/ m \notin Shown
                    \/ status # "connected" \/ session \notin live
                    \/ Failed

=============================================================================
