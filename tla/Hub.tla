-------------------------------- MODULE Hub --------------------------------
(***************************************************************************)
(* The message hub of the comms daemon (internal/comms/hub): transports    *)
(* push incoming one-to-one messages onto one shared channel, a single     *)
(* consumer takes them off it and gives each one either to the oldest      *)
(* waiting `ask' of its sender or to every subscriber.                     *)
(*                                                                         *)
(* Three kinds of goroutine interleave here.                               *)
(*   - one receive loop per transport     (Receive, PushInbound, ...)      *)
(*   - the consumer                       (Take, ResolvePendingAsk, ...)   *)
(*   - one handler per IPC connection     (Ask..., Subscribe, ...)         *)
(* A step is what a goroutine does between two points where another one    *)
(* can see the difference: a channel operation, a lock, a network call.    *)
(*                                                                         *)
(* A message is a record [id, via, from]; its text and files do not matter *)
(* to where it goes.  Ids number the messages in the order the receive     *)
(* loops accept them; id 0 is "no message".                                *)
(***************************************************************************)
EXTENDS Naturals, Sequences, SequencesExt

CONSTANTS
  Users,        \* peers of the account
  Transports,   \* connectors in the registry
  Telegram,     \* the one whose messages can answer an ask
  Roles,        \* role names a subscriber may announce
  Askers,       \* IPC connections that issue the "ask" op
  Subs,         \* IPC connections that issue the "subscribe" op
  InboundCap,   \* capacity of the inbound channel, 256 in the code
  SubCap,       \* capacity of a subscriber's channel, 64 in the code
  MaxMsgs       \* bound of the model: messages accepted in a behaviour

ASSUME HubAssumption ==
  /\ Users # {}
  /\ Roles # {}
  /\ Telegram \in Transports
  /\ InboundCap \in Nat \ {0}
  /\ SubCap \in Nat \ {0}
  /\ MaxMsgs \in Nat

VARIABLES
  \* the receive loops and the channel they share
  nextId,       \* id of the next message a receive loop accepts
  holding,      \* message a receive loop is pushing, NoMsg between updates
  inbound,      \* daemon.inbound
  \* the consumer goroutine
  consumer,     \* where it is in deliverInbound
  cur,          \* the message it is delivering
  answering,    \* the waiter popped by resolvePendingAsk, not yet sent to
  fanout,       \* broadcast's snapshot, less the channels already served
  \* the ask handlers
  pendingAsk,   \* daemon.pendingAsk: per user, the queue of waiters
  askPc,        \* where each handler is
  askUser,      \* the user its recipient resolved to
  replyCh,      \* its one-slot channel, 0 when empty
  reply,        \* the reply written to its client, 0 if none
  askConn,      \* its client is still connected
  \* the subscription handlers
  subscribers,  \* daemon.subscribers: per role, the registered channels
  subPc,        \* where each handler is
  subRole,      \* the role it subscribed under
  buf,          \* its buffered channel
  received,     \* ids written to its client, in order
  subConn,      \* its client is still connected
  \* history, read by the properties only
  askedAt,      \* value of nextId when the question was sent, 0 if none was
  answer,       \* message claimed for an ask by resolvePendingAsk, 0 if none
  askOrder,     \* handlers in the order they registered their waiter
  published,    \* ids broadcast, in order
  joinedAt,     \* Len(published) when the subscriber was added
  missed        \* ids dropped because the subscriber's channel was full

feedVars  == <<nextId, holding, inbound>>
consVars  == <<consumer, cur, answering, fanout>>
askVars   == <<askPc, askUser, reply, askConn, askedAt, askOrder>>
subVars   == <<subPc, subRole, received, subConn, joinedAt>>
routeVars == <<answer, published, missed>>
shared    == <<pendingAsk, replyCh, subscribers, buf>>
vars == <<feedVars, consVars, askVars, subVars, routeVars, shared>>

\* What the steps of the receive loops, the consumer, an ask handler and a
\* subscription handler leave alone, each kind as a whole.
notFeed == <<consVars, askVars, subVars, routeVars, shared>>
notCons == <<feedVars, askVars, subVars>>
notAsk  == <<feedVars, consVars, subVars, routeVars, subscribers, buf>>
askKept == <<askUser, reply, askConn, askedAt, askOrder, replyCh>>
notSub  == <<feedVars, consVars, askVars, routeVars, pendingAsk, replyCh>>

Message == [id : Nat, via : Transports, from : Users]
NoMsg   == [id |-> 0, via |-> Telegram, from |-> CHOOSE u \in Users : TRUE]

AskStates == {"idle", "resolved", "sent", "waiting", "leaving",
              "replied", "failed", "gone"}
SubStates == {"idle", "serving", "leaving", "gone"}

Init ==
  /\ nextId = 1
  /\ holding = [t \in Transports |-> NoMsg]
  /\ inbound = <<>>
  /\ consumer = "idle"
  /\ cur = NoMsg
  /\ answering = {}
  /\ fanout = {}
  /\ pendingAsk = [u \in Users |-> <<>>]
  /\ askPc = [a \in Askers |-> "idle"]
  /\ askUser = [a \in Askers |-> CHOOSE u \in Users : TRUE]
  /\ replyCh = [a \in Askers |-> 0]
  /\ reply = [a \in Askers |-> 0]
  /\ askConn = [a \in Askers |-> TRUE]
  /\ subscribers = [r \in Roles |-> {}]
  /\ subPc = [s \in Subs |-> "idle"]
  /\ subRole = [s \in Subs |-> CHOOSE r \in Roles : TRUE]
  /\ buf = [s \in Subs |-> <<>>]
  /\ received = [s \in Subs |-> <<>>]
  /\ subConn = [s \in Subs |-> TRUE]
  /\ askedAt = [a \in Askers |-> 0]
  /\ answer = [a \in Askers |-> 0]
  /\ askOrder = <<>>
  /\ published = <<>>
  /\ joinedAt = [s \in Subs |-> 0]
  /\ missed = [s \in Subs |-> {}]

-----------------------------------------------------------------------------
(* Receive loops.                                                          *)

\* A receive loop accepts an incoming one-to-one message.  Outgoing and group
\* messages are skipped by the same handler and change nothing here.  Naming
\* the sender and downloading media keep the loop in `holding' for as long as
\* they take.
Receive(t, u) ==
  /\ nextId <= MaxMsgs
  /\ holding[t].id = 0
  /\ holding' = [holding EXCEPT ![t] = [id |-> nextId, via |-> t, from |-> u]]
  /\ nextId' = nextId + 1
  /\ UNCHANGED <<inbound, notFeed>>

LetGo(t) ==
  /\ holding[t].id # 0
  /\ holding' = [holding EXCEPT ![t] = NoMsg]
  /\ UNCHANGED <<nextId, notFeed>>

\* Wrong: pushes although the channel is full.
PushInboundUnbounded(t) == LetGo(t) /\ inbound' = Append(inbound, holding[t])

PushInbound(t) ==
  /\ LetGo(t)
  /\ Len(inbound) < InboundCap
  /\ inbound' = Append(inbound, holding[t])

\* The channel stayed full for five seconds: the message is dropped.
DropInbound(t) == LetGo(t) /\ Len(inbound) = InboundCap /\ UNCHANGED inbound

-----------------------------------------------------------------------------
(* The consumer.                                                           *)

Take ==
  /\ consumer = "idle"
  /\ inbound # <<>>
  /\ cur' = Head(inbound)
  /\ inbound' = Tail(inbound)
  /\ consumer' = "deliver"
  /\ UNCHANGED <<nextId, holding, answering, fanout, askVars, subVars,
                 routeVars, shared>>

\* Only a Telegram message can answer an ask.
CanAnswer(m) == m.via = Telegram /\ pendingAsk[m.from] # <<>>

\* The waiter a, taken from the queue, is to be sent the message.
Answer(a) ==
  /\ consumer = "deliver"
  /\ CanAnswer(cur)
  /\ answering' = {a}
  /\ answer' = [answer EXCEPT ![a] = cur.id]
  /\ consumer' = "answer"
  /\ UNCHANGED <<notCons, cur, fanout, published, missed, replyCh, subscribers,
                 buf>>

\* Wrong: leaves the waiter in its queue.
ResolvePendingAskKeeps ==
  Answer(Head(pendingAsk[cur.from])) /\ UNCHANGED pendingAsk

\* Wrong: pops the newest waiter.
ResolvePendingAskNewest ==
  /\ Answer(Last(pendingAsk[cur.from]))
  /\ pendingAsk' = [pendingAsk EXCEPT ![cur.from] = Front(@)]

\* resolvePendingAsk: pop the oldest waiter under the lock.
ResolvePendingAsk ==
  /\ Answer(Head(pendingAsk[cur.from]))
  /\ pendingAsk' = [pendingAsk EXCEPT ![cur.from] = Tail(@)]

AnswerDone(a) ==
  /\ consumer = "answer"
  /\ a \in answering
  /\ answering' = {}
  /\ UNCHANGED <<notCons, cur, fanout, routeVars, pendingAsk, subscribers, buf>>

\* Wrong: goes on to deliver the message that answered an ask.
SendReplyAndGoOn(a) ==
  /\ AnswerDone(a)
  /\ replyCh[a] = 0
  /\ replyCh' = [replyCh EXCEPT ![a] = cur.id]
  /\ consumer' = "deliver"

\* Wrong: the reply is dropped.
SendReplyLost(a) == AnswerDone(a) /\ consumer' = "idle" /\ UNCHANGED replyCh

\* ... and send to its channel after the unlock.  The send blocks while the
\* slot is taken.
SendReply(a) ==
  /\ AnswerDone(a)
  /\ replyCh[a] = 0
  /\ replyCh' = [replyCh EXCEPT ![a] = cur.id]
  /\ consumer' = "idle"

\* broadcast, under subMu: collect every registered channel once.
Snapshot ==
  /\ consumer = "deliver"
  /\ ~CanAnswer(cur)
  /\ fanout' = UNION {subscribers[r] : r \in Roles}
  /\ published' = Append(published, cur.id)
  /\ consumer' = "broadcast"
  /\ UNCHANGED <<notCons, cur, answering, answer, missed, shared>>

\* The running broadcast comes to the channel of s.
Turn(s) ==
  /\ consumer = "broadcast"
  /\ s \in fanout
  /\ fanout' = fanout \ {s}
  /\ UNCHANGED <<notCons, consumer, cur, answering, answer, published,
                 pendingAsk, replyCh, subscribers>>

Put(s) ==
  /\ Len(buf[s]) < SubCap
  /\ buf' = [buf EXCEPT ![s] = Append(@, cur.id)]
  /\ UNCHANGED missed

Full(s) ==
  /\ Len(buf[s]) = SubCap
  /\ missed' = [missed EXCEPT ![s] = @ \union {cur.id}]

\* Wrong: makes room by dropping the oldest event.
PushEventOverOldest(s) ==
  /\ Turn(s)
  /\ \/ Put(s)
     \/ Full(s) /\ buf' = [buf EXCEPT ![s] = Append(Tail(@), cur.id)]

\* Wrong: waits for room.
PushEventBlocking(s) == Turn(s) /\ Put(s)

\* ... and, after the unlock, push to each of them or drop the event for it.
PushEvent(s) == Turn(s) /\ (Put(s) \/ (Full(s) /\ UNCHANGED buf))

Broadcasted ==
  /\ consumer = "broadcast"
  /\ fanout = {}
  /\ consumer' = "idle"
  /\ UNCHANGED <<notCons, cur, answering, fanout, routeVars, shared>>

-----------------------------------------------------------------------------
(* handleIPC, op "ask".                                                    *)

\* The handler goes from one of the states `from' to the state `to'.
AskMove(a, from, to) ==
  /\ askPc[a] \in from
  /\ askPc' = [askPc EXCEPT ![a] = to]
  /\ UNCHANGED notAsk

AskResolve(a, u) ==
  /\ AskMove(a, {"idle"}, "resolved")
  /\ askUser' = [askUser EXCEPT ![a] = u]
  /\ UNCHANGED <<reply, askConn, askedAt, askOrder, pendingAsk, replyCh>>

\* The question reaches the user.
AskSend(a) ==
  /\ AskMove(a, {"resolved"}, "sent")
  /\ askedAt' = [askedAt EXCEPT ![a] = nextId]
  /\ UNCHANGED <<askUser, reply, askConn, askOrder, pendingAsk, replyCh>>

\* Empty text: nothing is sent, the client only waits.
AskListen(a) ==
  AskMove(a, {"resolved"}, "sent") /\ UNCHANGED <<askKept, pendingAsk>>

\* The recipient cannot be resolved, or the send fails: an error response.
AskFail(a) ==
  /\ AskMove(a, {"idle", "resolved"}, "failed")
  /\ UNCHANGED <<askKept, pendingAsk>>

\* Under the lock, after the send has returned: join the user's queue.
AskRegister(a) ==
  /\ AskMove(a, {"sent"}, "waiting")
  /\ pendingAsk' = [pendingAsk EXCEPT ![askUser[a]] = Append(@, a)]
  /\ askOrder' = Append(askOrder, a)
  /\ UNCHANGED <<askUser, reply, askConn, askedAt, replyCh>>

\* The first branch of the handler's select.
AskReply(a) ==
  /\ AskMove(a, {"waiting"}, "replied")
  /\ replyCh[a] # 0
  /\ reply' = [reply EXCEPT ![a] = replyCh[a]]
  /\ replyCh' = [replyCh EXCEPT ![a] = 0]
  /\ UNCHANGED <<askUser, askConn, askedAt, askOrder, pendingAsk>>

\* The second branch: clientGone is closed.
AskGone(a) ==
  /\ AskMove(a, {"waiting"}, "leaving")
  /\ ~askConn[a]
  /\ UNCHANGED <<askKept, pendingAsk>>

\* Wrong: a departed handler stays in its queue.
RemovePendingNot(a) ==
  AskMove(a, {"leaving"}, "gone") /\ UNCHANGED <<askKept, pendingAsk>>

\* removePending, under the lock.  The waiter may have been popped already.
RemovePending(a) ==
  /\ AskMove(a, {"leaving"}, "gone")
  /\ LET u == askUser[a] IN
       \/ \E i \in DOMAIN pendingAsk[u] :
            /\ pendingAsk[u][i] = a
            /\ pendingAsk' = [pendingAsk EXCEPT ![u] = RemoveAt(@, i)]
       \/ ~Contains(pendingAsk[u], a) /\ UNCHANGED pendingAsk
  /\ UNCHANGED askKept

\* The client disconnects, at any moment before its answer.
AskClientLeaves(a) ==
  /\ askPc[a] \in {"resolved", "sent", "waiting"}
  /\ askConn[a]
  /\ askConn' = [askConn EXCEPT ![a] = FALSE]
  /\ UNCHANGED <<notAsk, askPc, askUser, reply, askedAt, askOrder, pendingAsk,
                 replyCh>>

-----------------------------------------------------------------------------
(* handleIPC, op "subscribe".                                              *)

\* addSubscriber, under subMu.
Subscribe(s, r) ==
  /\ subPc[s] = "idle"
  /\ subPc' = [subPc EXCEPT ![s] = "serving"]
  /\ subRole' = [subRole EXCEPT ![s] = r]
  /\ subscribers' = [subscribers EXCEPT ![r] = @ \union {s}]
  /\ joinedAt' = [joinedAt EXCEPT ![s] = Len(published)]
  /\ UNCHANGED <<notSub, received, subConn, buf>>

\* The next event goes to the connection.  A client that does not read keeps
\* the handler in its write: this step then has no successor for a while, or
\* ever.
WriteEvent(s) ==
  /\ subPc[s] = "serving"
  /\ buf[s] # <<>>
  /\ buf' = [buf EXCEPT ![s] = Tail(@)]
  /\ \/ /\ subConn[s]
        /\ received' = [received EXCEPT ![s] = Append(@, Head(buf[s]))]
        /\ UNCHANGED subPc
     \/ /\ ~subConn[s]
        /\ subPc' = [subPc EXCEPT ![s] = "leaving"]
        /\ UNCHANGED received
  /\ UNCHANGED <<notSub, subRole, subConn, joinedAt, subscribers>>

SubMove(s, from, to) ==
  /\ subPc[s] = from
  /\ subPc' = [subPc EXCEPT ![s] = to]
  /\ UNCHANGED <<notSub, subRole, received, subConn, joinedAt, buf>>

\* The reading goroutine saw the client go and closed `done'.
SeeDone(s) ==
  SubMove(s, "serving", "leaving") /\ ~subConn[s] /\ UNCHANGED subscribers

\* Wrong: the handler ends without removing its channel.
RemoveSubscriberNot(s) ==
  SubMove(s, "leaving", "gone") /\ UNCHANGED subscribers

\* The deferred removeSubscriber, under subMu.
RemoveSubscriber(s) ==
  /\ SubMove(s, "leaving", "gone")
  /\ subscribers' = [subscribers EXCEPT ![subRole[s]] = @ \ {s}]

SubClientLeaves(s) ==
  /\ subPc[s] = "serving"
  /\ subConn[s]
  /\ subConn' = [subConn EXCEPT ![s] = FALSE]
  /\ UNCHANGED <<notSub, subPc, subRole, received, joinedAt, subscribers, buf>>

-----------------------------------------------------------------------------
Feed == \E t \in Transports :
          \/ \E u \in Users : Receive(t, u)
          \/ PushInbound(t)
          \/ DropInbound(t)

Consumer == \/ Take
            \/ ResolvePendingAsk
            \/ \E a \in Askers : SendReply(a)
            \/ Snapshot
            \/ \E s \in Subs : PushEvent(s)
            \/ Broadcasted

AskHandler(a) == \/ \E u \in Users : AskResolve(a, u)
                 \/ AskSend(a)
                 \/ AskListen(a)
                 \/ AskFail(a)
                 \/ AskRegister(a)
                 \/ AskReply(a)
                 \/ AskGone(a)
                 \/ RemovePending(a)

SubHandler(s) == \/ \E r \in Roles : Subscribe(s, r)
                 \/ WriteEvent(s)
                 \/ SeeDone(s)
                 \/ RemoveSubscriber(s)

Next == \/ Feed
        \/ Consumer
        \/ \E a \in Askers : AskHandler(a) \/ AskClientLeaves(a)
        \/ \E s \in Subs : SubHandler(s) \/ SubClientLeaves(s)

Spec == Init /\ [][Next]_vars

\* The goroutines run: a step a goroutine can take by itself is taken.  Nothing
\* is assumed of peers and clients: no message need arrive, no client need
\* connect, read its events or disconnect, no send need return.
Fairness ==
  /\ WF_vars(Consumer)
  /\ \A t \in Transports : WF_vars(PushInbound(t) \/ DropInbound(t))
  /\ \A a \in Askers :
       WF_vars(AskRegister(a) \/ AskReply(a) \/ AskGone(a) \/ RemovePending(a))
  /\ \A s \in Subs : WF_vars(SeeDone(s) \/ RemoveSubscriber(s))

FairSpec == Spec /\ Fairness

-----------------------------------------------------------------------------
(* Safety.                                                                 *)

\* Every variable has its type; the two kinds of channel stay within their
\* capacity.
TypeOK ==
  /\ nextId \in Nat \ {0}
  /\ holding \in [Transports -> Message]
  /\ inbound \in Seq(Message) /\ Len(inbound) <= InboundCap
  /\ consumer \in {"idle", "deliver", "answer", "broadcast"}
  /\ cur \in Message
  /\ answering \subseteq Askers
  /\ fanout \subseteq Subs
  /\ pendingAsk \in [Users -> Seq(Askers)]
  /\ askPc \in [Askers -> AskStates]
  /\ askUser \in [Askers -> Users]
  /\ replyCh \in [Askers -> Nat]
  /\ reply \in [Askers -> Nat]
  /\ askConn \in [Askers -> BOOLEAN]
  /\ subscribers \in [Roles -> SUBSET Subs]
  /\ subPc \in [Subs -> SubStates]
  /\ subRole \in [Subs -> Roles]
  /\ buf \in [Subs -> Seq(Nat)]
  /\ \A s \in Subs : Len(buf[s]) <= SubCap
  /\ received \in [Subs -> Seq(Nat)]
  /\ subConn \in [Subs -> BOOLEAN]
  /\ askedAt \in [Askers -> Nat]
  /\ answer \in [Askers -> Nat]
  /\ askOrder \in Seq(Askers)
  /\ published \in Seq(Nat)
  /\ joinedAt \in [Subs -> Nat]
  /\ missed \in [Subs -> SUBSET Nat]

\* The consumer sends to a waiter's channel outside the lock and with no
\* default branch.  It never finds the slot taken, so one ask cannot stop the
\* delivery of everybody's messages.
ReplyNeverBlocks == \A a \in answering : replyCh[a] = 0

\* The queues hold exactly the waiters still owed an answer: a handler past
\* its registration and not answered stands once, in the queue of its own user;
\* nobody else stands in any queue.  A waiter left behind would swallow the
\* user's next message.
Owed(a) == askPc[a] \in {"waiting", "leaving"} /\ answer[a] = 0

QueuesExact ==
  /\ \A u \in Users : \A i \in DOMAIN pendingAsk[u] :
       LET a == pendingAsk[u][i] IN
         /\ Owed(a)
         /\ askUser[a] = u
         /\ \A j \in DOMAIN pendingAsk[u] : pendingAsk[u][j] = a => j = i
  /\ \A a \in Askers : Owed(a) => Contains(pendingAsk[askUser[a]], a)

\* A message has one fate: it answers at most one ask, is broadcast at most
\* once, and never both.
OneFate ==
  /\ \A a, b \in Askers : answer[a] # 0 /\ answer[a] = answer[b] => a = b
  /\ \A i \in DOMAIN published :
       /\ \A a \in Askers : answer[a] # published[i]
       /\ \A j \in DOMAIN published : published[j] = published[i] => j = i

\* Asks of one user are answered in the order they were asked, each with an
\* earlier message than the next; an ask that never gets one was withdrawn.
OldestFirst ==
  \A i, j \in DOMAIN askOrder :
    LET a == askOrder[i]
        b == askOrder[j]
    IN i < j /\ askUser[a] = askUser[b] /\ answer[b] # 0 =>
         \/ answer[a] # 0 /\ answer[a] < answer[b]
         \/ answer[a] = 0 /\ askPc[a] = "gone"

\* What a subscriber was given and what waits for it, where the events stand
\* that were broadcast since it joined, and which of them it is due: not those its
\* full channel made the hub drop, nor one the running broadcast has yet to push.
Line(s)   == received[s] \o buf[s]
Since(s)  == (joinedAt[s] + 1)..Len(published)
Due(s, n) == n \notin missed[s] /\ ~(s \in fanout /\ n = cur.id)

\* The ids come in the order they have in the log, each once.
InOrder(ids, log) ==
  \A i, j \in DOMAIN ids : \A k, l \in DOMAIN log :
    i < j /\ ids[i] = log[k] /\ ids[j] = log[l] => k < l

\* What a subscriber was given and what waits in its channel is all it is due, in
\* the order of the broadcasts and without repetition.
StreamComplete ==
  \A s \in Subs : subPc[s] = "serving" =>
    /\ ToSet(Line(s)) = {published[k] : k \in {k \in Since(s) : Due(s, published[k])}}
    /\ InOrder(Line(s), published)

\* No channel of a handler that has ended stays registered.
NoStaleSubscriber ==
  \A r \in Roles : \A s \in subscribers[r] :
    subPc[s] \in {"serving", "leaving"} /\ subRole[s] = r

-----------------------------------------------------------------------------
(* Liveness.                                                               *)

Settled(n) ==
  /\ \A t \in Transports : holding[t].id # n
  /\ \A i \in DOMAIN inbound : inbound[i].id # n
  /\ consumer # "idle" => cur.id # n

\* Every accepted message leaves the hub, however slow the subscribers are and
\* whatever the askers do.
EveryMessageSettles == \A n \in 1..MaxMsgs : nextId > n ~> Settled(n)

\* A waiter whose message was claimed gets it, unless its client has left.
AnswerArrives ==
  \A a \in Askers : answer[a] # 0 ~> (reply[a] = answer[a] \/ askPc[a] = "gone")

\* Connections that went away leave nothing behind in the daemon's maps.
DepartedForgotten ==
  /\ \A a \in Askers : ~askConn[a] /\ askPc[a] = "waiting"
                         ~> ~Contains(pendingAsk[askUser[a]], a)
  /\ \A s \in Subs : ~subConn[s] ~> \A r \in Roles : s \notin subscribers[r]

-----------------------------------------------------------------------------
(* Claims of the repository that the code does not keep.                   *)

\* client.go: Ask "sends a question and blocks until the user replies".  A reply
\* that arrives before the waiter is registered is broadcast instead.
ReplyReachesAsk ==
  consumer = "broadcast" /\ cur.via = Telegram =>
    ~ \E a \in Askers : /\ askUser[a] = cur.from
                        /\ askPc[a] \in {"sent", "waiting"}
                        /\ askedAt[a] # 0 /\ askedAt[a] <= cur.id

=============================================================================
