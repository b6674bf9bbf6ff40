----------------------------- MODULE Dispatcher -----------------------------
(***************************************************************************)
(* Request/reply and updates over one TDLib event stream                   *)
(* (internal/comms/telegram/request.go, updates.go).  A dispatcher owns a  *)
(* receive loop: it hands a reply to the request waiting under its tag and *)
(* puts everything else on a bounded updates channel that drops its oldest *)
(* entry when full.                                                        *)
(*                                                                         *)
(* A process has one dispatcher at a time.  Close stops it; the next use   *)
(* makes a new one (the login re-open path).  Dispatchers are numbered in  *)
(* the order they are made; td_receive itself is one queue for the whole   *)
(* process, whoever calls it.                                              *)
(*                                                                         *)
(* A tag is the sequence number SendRequestAndWait appends: the logical    *)
(* part of a tag is taken to be the same for all requests, as it is for    *)
(* repeated calls of one function.                                         *)
(***************************************************************************)
EXTENDS Naturals, Sequences

CONSTANTS
  Requests,    \* calls of SendRequestAndWait
  UpdatesCap,  \* capacity of the updates channel, 1024 in the code
  MaxGen,      \* bound: dispatchers made in one process
  MaxUpdates   \* bound: updates TDLib emits

ASSUME DispatcherAssumption ==
  /\ UpdatesCap \in Nat \ {0}
  /\ MaxGen \in Nat
  /\ MaxUpdates \in Nat

Gens == 1..MaxGen

VARIABLES
  \* the dispatchers map and the dispatchers
  made,        \* dispatchers made so far
  current,     \* the one in the map, 0 if none
  stopped,     \* those whose stopCh is closed
  seq,         \* per dispatcher: last sequence number used
  pending,     \* per dispatcher: requests registered for a reply
  updates,     \* per dispatcher: its updates channel
  loop,        \* per dispatcher: where its receive loop is
  raw,         \* per dispatcher: the event its loop is routing
  target,      \* per dispatcher: the request its loop is about to hand it to
  receiveMu,   \* the dispatcher inside td_receive, 0 if none
  \* the calls
  pc,          \* where each request is
  gen,         \* the dispatcher it uses
  tag,         \* its tag
  resultCh,    \* its one-slot channel: the request the reply in it answers
  outcome,     \* what the call returned
  \* the reader of updates (ReceiveUpdates)
  listening,   \* the dispatcher it waits on, 0 between calls
  delivered,   \* updates and stray replies it was given, in order
  \* TDLib
  inFlight,    \* requests TDLib works on
  tdOut,       \* events ready for td_receive
  emitted,     \* number of updates emitted
  \* history
  evicted      \* updates dropped because the channel was full

mapVars  == <<made, current, stopped, seq>>
input    == <<raw, receiveMu, tdOut>>
table    == <<pending, target, resultCh>>
queue    == <<updates, evicted>>
callVars == <<pc, gen, tag, outcome>>
readVars == <<listening, delivered>>
tdVars   == <<inFlight, emitted>>
vars == <<mapVars, loop, input, table, queue, callVars, readVars, tdVars>>

\* A reply carries the tag of its request, an update has none.
Reply  == [tag : Nat \ {0}, of : Requests]
Update == [tag : {0}, id : Nat]
Event  == Reply \union Update

NoEvent == [tag |-> 0, id |-> 0]

\* No request: the content of an empty slot.
None == {}

LoopStates == {"none", "check", "lock", "receive", "route", "hand", "evict",
               "retry", "exit"}
CallStates == {"idle", "registered", "waiting", "deferred", "done"}
Outcomes   == {"none", "ok", "timeout", "closed"}

Init ==
  /\ made = 0
  /\ current = 0
  /\ stopped = {}
  /\ seq = [g \in Gens |-> 0]
  /\ pending = [g \in Gens |-> {}]
  /\ updates = [g \in Gens |-> <<>>]
  /\ loop = [g \in Gens |-> "none"]
  /\ raw = [g \in Gens |-> NoEvent]
  /\ target = [g \in Gens |-> None]
  /\ receiveMu = 0
  /\ pc = [r \in Requests |-> "idle"]
  /\ gen = [r \in Requests |-> 0]
  /\ tag = [r \in Requests |-> 0]
  /\ resultCh = [r \in Requests |-> None]
  /\ outcome = [r \in Requests |-> "none"]
  /\ listening = 0
  /\ delivered = <<>>
  /\ inFlight = {}
  /\ tdOut = <<>>
  /\ emitted = 0
  /\ evicted = {}

-----------------------------------------------------------------------------
(* The map of dispatchers.                                                 *)

\* dispatcherFor: d is the mapped dispatcher, or a new one whose loop starts.
DispatcherFor(d) ==
  \/ /\ current # 0
     /\ d = current
     /\ UNCHANGED <<made, current, loop>>
  \/ /\ current = 0
     /\ made < MaxGen
     /\ d = made + 1
     /\ made' = d
     /\ current' = d
     /\ loop' = [loop EXCEPT ![d] = "check"]

\* TDJSON.Close: unmap the dispatcher and close its stopCh.
Close ==
  /\ current # 0
  /\ stopped' = stopped \union {current}
  /\ current' = 0
  /\ UNCHANGED <<made, seq, loop, input, table, queue, callVars, readVars,
                 tdVars>>

-----------------------------------------------------------------------------
(* SendRequestAndWait.                                                     *)

\* The call r goes from one point of its code to another.
CallMove(r, from, to) ==
  /\ pc[r] = from
  /\ pc' = [pc EXCEPT ![r] = to]
  /\ UNCHANGED <<input, target, resultCh, queue, readVars, emitted>>

\* It takes the tag n of dispatcher d and registers under it.
TakeTag(r, d, n) ==
  /\ CallMove(r, "idle", "registered")
  /\ DispatcherFor(d)
  /\ seq' = [seq EXCEPT ![d] = n]
  /\ gen' = [gen EXCEPT ![r] = d]
  /\ tag' = [tag EXCEPT ![r] = n]
  /\ pending' = [pending EXCEPT ![d] = @ \union {r}]
  /\ UNCHANGED <<stopped, outcome, inFlight>>

\* Wrong: every call has the same tag.
RegisterSameTag(r) == \E d \in Gens : TakeTag(r, d, 1)

\* Take the next tag and register before sending.
Register(r) == \E d \in Gens : TakeTag(r, d, seq[d] + 1)

Send(r) ==
  /\ CallMove(r, "registered", "waiting")
  /\ inFlight' = inFlight \union {r}
  /\ UNCHANGED <<mapVars, loop, gen, tag, outcome, pending>>

\* The three branches of the select; the deferred delete follows each.
Return(r, result) ==
  /\ CallMove(r, "waiting", "deferred")
  /\ outcome' = [outcome EXCEPT ![r] = result]
  /\ UNCHANGED <<mapVars, loop, gen, tag, pending, inFlight>>

GotReply(r) == resultCh[r] # None /\ Return(r, "ok")
TimedOut(r) == Return(r, "timeout")
SawStop(r)  == gen[r] \in stopped /\ Return(r, "closed")

\* Wrong: a call that gave up stays registered.
UnregisterNot(r) ==
  /\ CallMove(r, "deferred", "done")
  /\ UNCHANGED <<mapVars, loop, gen, tag, outcome, pending, inFlight>>

Unregister(r) ==
  /\ CallMove(r, "deferred", "done")
  /\ pending' = [pending EXCEPT ![gen[r]] = @ \ {r}]
  /\ UNCHANGED <<mapVars, loop, gen, tag, outcome, inFlight>>

-----------------------------------------------------------------------------
(* receiveLoop.                                                            *)

\* The loop of g goes from one point of its code to another.
LoopMove(g, from, to) ==
  /\ loop[g] = from
  /\ loop' = [loop EXCEPT ![g] = to]
  /\ UNCHANGED <<mapVars, callVars, readVars, tdVars>>

\* Wrong: does not look at stopCh.
LoopCheckNot(g) ==
  LoopMove(g, "check", "lock") /\ UNCHANGED <<input, table, queue>>

LoopCheck(g) ==
  /\ LoopMove(g, "check", IF g \in stopped THEN "exit" ELSE "lock")
  /\ UNCHANGED <<input, table, queue>>

LoopLock(g) ==
  /\ LoopMove(g, "lock", "receive")
  /\ receiveMu = 0
  /\ receiveMu' = g
  /\ UNCHANGED <<raw, tdOut, table, queue>>

\* td_receive returns an event, or nothing after its second.
LoopReceive(g) ==
  /\ \/ /\ tdOut # <<>>
        /\ raw' = [raw EXCEPT ![g] = Head(tdOut)]
        /\ tdOut' = Tail(tdOut)
        /\ LoopMove(g, "receive", "route")
     \/ /\ tdOut = <<>>
        /\ LoopMove(g, "receive", "check")
        /\ UNCHANGED <<raw, tdOut>>
  /\ receiveMu' = 0
  /\ UNCHANGED <<table, queue>>

\* Requests of dispatcher g that wait for event e.
Waiting(g, e) == {r \in pending[g] : e.tag # 0 /\ tag[r] = e.tag}

\* The event is the reply r waits for.
Match(g, r) ==
  /\ LoopMove(g, "route", "hand")
  /\ r \in Waiting(g, raw[g])
  /\ target' = [target EXCEPT ![g] = {r}]
  /\ UNCHANGED <<input, resultCh, queue>>

\* Wrong: the request stays registered.
RouteReplyKeeps(g) == \E r \in Requests : Match(g, r) /\ UNCHANGED pending

\* A reply to a registered request: unregister it under the lock ...
RouteReply(g) ==
  \E r \in Requests :
    Match(g, r) /\ pending' = [pending EXCEPT ![g] = @ \ {r}]

\* ... and send to its channel after the unlock.
HandReply(g) ==
  /\ LoopMove(g, "hand", "check")
  /\ \E r \in target[g] :
       /\ resultCh[r] = None
       /\ resultCh' = [resultCh EXCEPT ![r] = {raw[g].of}]
  /\ target' = [target EXCEPT ![g] = None]
  /\ UNCHANGED <<input, pending, queue>>

\* Wrong: pushes although the channel is full.
PushUpdateUnbounded(g) ==
  updates' = [updates EXCEPT ![g] = Append(@, raw[g])] /\ UNCHANGED evicted

PushUpdate(g) ==
  /\ Len(updates[g]) < UpdatesCap
  /\ updates' = [updates EXCEPT ![g] = Append(@, raw[g])]
  /\ UNCHANGED evicted

\* The event itself is dropped.
DropNewest(g) ==
  /\ Len(updates[g]) = UpdatesCap
  /\ evicted' = evicted \union {raw[g]}
  /\ UNCHANGED updates

\* The event is an update, or a reply nobody waits for.
NoMatch(g, to) ==
  /\ LoopMove(g, "route", to)
  /\ Waiting(g, raw[g]) = {}
  /\ UNCHANGED <<input, table>>

\* Wrong: drops the newest.
RouteUpdateDropsNewest(g) ==
  NoMatch(g, "check") /\ (PushUpdate(g) \/ DropNewest(g))

\* Wrong: waits for room.
RouteUpdateBlocking(g) == NoMatch(g, "check") /\ PushUpdate(g)

\* Push it if there is room ...
RouteUpdate(g) ==
  \/ NoMatch(g, "check") /\ PushUpdate(g)
  \/ NoMatch(g, "evict") /\ Len(updates[g]) = UpdatesCap /\ UNCHANGED queue

\* ... else drop the oldest, unless the reader emptied the channel meanwhile,
EvictOldest(g) ==
  /\ LoopMove(g, "evict", "retry")
  /\ \/ /\ updates[g] # <<>>
        /\ updates' = [updates EXCEPT ![g] = Tail(@)]
        /\ evicted' = evicted \union {Head(updates[g])}
     \/ updates[g] = <<>> /\ UNCHANGED queue
  /\ UNCHANGED <<input, table>>

\* Wrong: makes room and does not use it.
RetryPushNot(g) ==
  LoopMove(g, "retry", "check") /\ UNCHANGED <<input, table, queue>>

\* and push again; were the channel full, the event itself would be dropped.
RetryPush(g) ==
  /\ LoopMove(g, "retry", "check")
  /\ PushUpdate(g) \/ DropNewest(g)
  /\ UNCHANGED <<input, table>>

-----------------------------------------------------------------------------
(* ReceiveUpdates.                                                         *)

Listen ==
  /\ listening = 0
  /\ \E d \in Gens : DispatcherFor(d) /\ listening' = d
  /\ UNCHANGED <<stopped, seq, input, table, queue, callVars, delivered,
                 tdVars>>

TakeUpdate ==
  /\ listening # 0
  /\ updates[listening] # <<>>
  /\ delivered' = Append(delivered, Head(updates[listening]))
  /\ updates' = [updates EXCEPT ![listening] = Tail(@)]
  /\ listening' = 0
  /\ UNCHANGED <<mapVars, loop, input, table, evicted, callVars, tdVars>>

\* Five seconds without an update, or the dispatcher was stopped.
GiveUpListening ==
  /\ listening # 0
  /\ listening' = 0
  /\ UNCHANGED <<mapVars, loop, input, table, queue, callVars, delivered,
                 tdVars>>

-----------------------------------------------------------------------------
(* TDLib: every event it has is queued for the next td_receive.            *)

\* TDLib has an event.
Emit(e) ==
  /\ tdOut' = Append(tdOut, e)
  /\ UNCHANGED <<mapVars, loop, raw, receiveMu, table, queue, callVars,
                 readVars>>

TdReply(r) ==
  /\ r \in inFlight
  /\ inFlight' = inFlight \ {r}
  /\ Emit([tag |-> tag[r], of |-> r])
  /\ UNCHANGED emitted

TdUpdate ==
  /\ emitted < MaxUpdates
  /\ emitted' = emitted + 1
  /\ Emit([tag |-> 0, id |-> emitted + 1])
  /\ UNCHANGED inFlight

-----------------------------------------------------------------------------
Call(r) == \/ Register(r)
           \/ Send(r)
           \/ GotReply(r)
           \/ TimedOut(r)
           \/ SawStop(r)
           \/ Unregister(r)

Loop(g) == \/ LoopCheck(g)
           \/ LoopLock(g)
           \/ LoopReceive(g)
           \/ RouteReply(g)
           \/ HandReply(g)
           \/ RouteUpdate(g)
           \/ EvictOldest(g)
           \/ RetryPush(g)

Reader == Listen \/ TakeUpdate \/ GiveUpListening

TDLib == TdUpdate \/ \E r \in Requests : TdReply(r)

Next == \/ Close
        \/ \E r \in Requests : Call(r)
        \/ \E g \in Gens : Loop(g)
        \/ Reader
        \/ TDLib

Spec == Init /\ [][Next]_vars

\* The loops run, a call's timer fires, and sync.Mutex lets nobody wait for
\* ever (its starvation mode hands the lock to the longest waiter).  Nothing is
\* assumed of TDLib or of who reads the updates.
Fairness ==
  /\ \A g \in Gens : WF_vars(Loop(g)) /\ SF_vars(LoopLock(g))
  /\ \A r \in Requests :
       /\ WF_vars(Send(r))
       /\ WF_vars(GotReply(r) \/ TimedOut(r) \/ SawStop(r))
       /\ WF_vars(Unregister(r))

FairSpec == Spec /\ Fairness

-----------------------------------------------------------------------------
(* Safety.                                                                 *)

\* Every variable has its type; an updates channel stays within its capacity.
TypeOK ==
  /\ made \in 0..MaxGen
  /\ current \in 0..made
  /\ stopped \subseteq Gens
  /\ seq \in [Gens -> Nat]
  /\ pending \in [Gens -> SUBSET Requests]
  /\ updates \in [Gens -> Seq(Event)]
  /\ \A g \in Gens : Len(updates[g]) <= UpdatesCap
  /\ loop \in [Gens -> LoopStates]
  /\ raw \in [Gens -> Event]
  /\ target \in [Gens -> SUBSET Requests]
  /\ receiveMu \in 0..MaxGen
  /\ pc \in [Requests -> CallStates]
  /\ gen \in [Requests -> 0..MaxGen]
  /\ tag \in [Requests -> Nat]
  /\ resultCh \in [Requests -> SUBSET Requests]
  /\ outcome \in [Requests -> Outcomes]
  /\ listening \in 0..MaxGen
  /\ delivered \in Seq(Event)
  /\ inFlight \subseteq Requests
  /\ tdOut \in Seq(Event)
  /\ emitted \in Nat
  /\ evicted \subseteq Event

\* request.go:122: the send of a reply to its caller's channel "never blocks",
\* although it is made outside the lock: no two replies are handed to a call.
HandNeverBlocks ==
  \A g \in Gens : loop[g] = "hand" =>
    \E r \in Requests : target[g] = {r} /\ resultCh[r] = None

\* A call still waiting can be answered: it is registered under its own
\* dispatcher, or its reply is being handed to it, or is there.  A call that
\* has returned leaves no registration behind.
CallReachable ==
  /\ \A r \in Requests : pc[r] \in {"registered", "waiting"} =>
       \/ r \in pending[gen[r]]
       \/ r \in target[gen[r]]
       \/ resultCh[r] # None
  /\ \A g \in Gens : \A r \in pending[g] :
       gen[r] = g /\ pc[r] \in {"registered", "waiting", "deferred"}

\* A call is never given the reply to another call of its dispatcher, also when
\* calls time out and their replies come late.
OwnReply ==
  \A r \in Requests : \A q \in resultCh[r] : gen[q] = gen[r] => q = r

\* The ids of the updates among the events es.
IdsOf(es) == {es[i].id : i \in {j \in DOMAIN es : es[j].tag = 0}}

\* The updates among them come in the order they were emitted, each once.
InOrder(es) ==
  \A i, j \in DOMAIN es :
    i < j /\ es[i].tag = 0 /\ es[j].tag = 0 => es[i].id < es[j].id

Held(g) == IF loop[g] \in {"route", "evict", "retry"} THEN <<raw[g]>> ELSE <<>>

\* While there is one dispatcher no reply swallows an update: what the reader got,
\* then what waits for it, is every update TDLib emitted, in order, less those
\* the full channel dropped.
UpdatesComplete ==
  \A g \in Gens : current = g /\ made = 1 =>
    LET line == delivered \o updates[g] \o Held(g) \o tdOut
    IN /\ InOrder(line)
       /\ IdsOf(line) = {n \in 1..emitted : [tag |-> 0, id |-> n] \notin evicted}

\* request.go:128: "drop the oldest so the newest is always available": what a
\* full channel drops was emitted before all it keeps and all still to come.
OldestDropped ==
  \A g \in Gens : current = g /\ made = 1 =>
    \A e \in evicted : \A n \in IdsOf(updates[g] \o Held(g) \o tdOut) :
      e.tag = 0 => e.id < n

-----------------------------------------------------------------------------
(* Liveness.                                                               *)

\* A dispatcher in service goes on taking TDLib's events, even if nobody reads
\* its updates and calls give up while they are answered.
EventsDrain ==
  tdOut # <<>> /\ current # 0 ~> tdOut = <<>> \/ current = 0

\* The loop of a closed dispatcher ends, so that the one made after it has
\* td_receive for itself.
StoppedLoopEnds == \A g \in Gens : g \in stopped ~> loop[g] = "exit"

-----------------------------------------------------------------------------
(* A claim of the repository that the code does not keep.                  *)

\* request.go:23: receiveMu keeps an old and a new dispatcher "from racing".
\* The old loop, still in td_receive when its dispatcher is closed, can take the
\* reply to a request of the new one and put it on a channel nobody reads.
RepliesNotDiverted ==
  \A g \in Gens : \A i \in DOMAIN updates[g] :
    LET e == updates[g][i]
    IN e.tag # 0 /\ gen[e.of] = current => pc[e.of] # "waiting"
=============================================================================
