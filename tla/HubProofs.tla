----------------------------- MODULE HubProofs -----------------------------
(***************************************************************************)
(* Theorems about the hub, for any numbers of users, transports and        *)
(* connections and any channel capacities.                                 *)
(***************************************************************************)
EXTENDS Hub, SequenceTheorems, TLAPS

-----------------------------------------------------------------------------
(* The parts actions are put together from; expanded everywhere.           *)
USE DEF shared, notFeed, notCons, notAsk, notSub, askKept, LetGo, Answer,
        AnswerDone, Turn, Put, Full, AskMove, SubMove

-----------------------------------------------------------------------------
(* Sequences.                                                              *)

\* An index past the removed one, counted in the part behind it.
LEMMA ShiftedIndex ==
  ASSUME NEW n \in Nat, NEW i \in 1..n, NEW j \in 1..(n - 1), ~(j < i)
  PROVE  /\ (j - i) + 1 \in 1..(n - i)
         /\ i + ((j - i) + 1) = j + 1
         /\ j \in 1..((i - 1) + (n - i))
         /\ ~(j <= i - 1)
         /\ j - (i - 1) = (j - i) + 1
  OBVIOUS

\* Removing the i-th entry keeps the others in order.
LEMMA RemoveAtFacts ==
  ASSUME NEW S, NEW q \in Seq(S), NEW i \in DOMAIN q
  PROVE  /\ RemoveAt(q, i) \in Seq(S)
         /\ Len(RemoveAt(q, i)) = Len(q) - 1
         /\ \A j \in 1..(Len(q) - 1) :
              RemoveAt(q, i)[j] = IF j < i THEN q[j] ELSE q[j + 1]
<1> DEFINE front == SubSeq(q, 1, i - 1)
           back  == SubSeq(q, i + 1, Len(q))
<1>1. /\ i \in Nat /\ 1 <= i /\ i <= Len(q)
      /\ Len(q) \in Nat
      /\ \A j \in 1..Len(q) : q[j] \in S
  BY LenProperties, ElementOfSeq
<1>2. /\ front \in Seq(S)
      /\ Len(front) = i - 1
      /\ \A j \in 1..(i - 1) : front[j] = q[j]
  <2>1. \A j \in 1..(i - 1) : q[j] \in S
    BY <1>1
  <2> QED
    BY <1>1, <2>1, SubSeqProperties
<1>3. /\ back \in Seq(S)
      /\ Len(back) = Len(q) - i
      /\ \A j \in 1..(Len(q) - i) : back[j] = q[i + j]
  <2>1. \A j \in (i + 1)..Len(q) : q[j] \in S
    BY <1>1
  <2> QED
    BY <1>1, <2>1, SubSeqProperties
<1> HIDE DEF front, back
<1>4. /\ front \o back \in Seq(S)
      /\ Len(front \o back) = Len(front) + Len(back)
      /\ \A j \in 1..(Len(front) + Len(back)) :
           (front \o back)[j] = IF j <= Len(front) THEN front[j]
                                ELSE back[j - Len(front)]
  BY <1>2, <1>3, ConcatProperties
<1>5. RemoveAt(q, i) = front \o back
  BY DEF RemoveAt, front, back
<1>6. ASSUME NEW j \in 1..(Len(q) - 1)
      PROVE  (front \o back)[j] = IF j < i THEN q[j] ELSE q[j + 1]
  <2>1. CASE j < i
    <3>1. /\ j \in 1..(i - 1)
          /\ j \in 1..(Len(front) + Len(back))
          /\ j <= Len(front)
      BY <2>1, <1>1, <1>2, <1>3
    <3>2. (front \o back)[j] = front[j]
      BY <3>1, <1>4
    <3> QED
      BY <2>1, <3>1, <3>2, <1>2
  <2>2. CASE ~(j < i)
    <3> DEFINE n == Len(q)
               k == (j - i) + 1
    <3>a. Len(front) = i - 1 /\ Len(back) = n - i /\ n \in Nat /\ i \in 1..n
      BY <1>1, <1>2, <1>3
    <3>b. j \in 1..(n - 1)
      BY <1>6
    <3> HIDE DEF n, front, back
    <3>1. k \in 1..(n - i) /\ i + k = j + 1
      BY <2>2, <3>a, <3>b, ShiftedIndex
    <3>c. j \in 1..((i - 1) + (n - i)) /\ ~(j <= i - 1) /\ j - (i - 1) = k
      BY <2>2, <3>a, <3>b, ShiftedIndex
    <3>2. (front \o back)[j] = back[k]
      BY <1>4, <3>a, <3>c
    <3> HIDE DEF k
    <3>d. k \in 1..(Len(q) - i)
      BY <3>1 DEF n
    <3>3. back[k] = q[i + k]
      BY <3>d, <1>3
    <3> QED
      BY <3>1, <3>2, <3>3, <2>2
  <2> QED
    BY <2>1, <2>2
<1>7. Len(front \o back) = Len(q) - 1
  BY <1>1, <1>2, <1>3, <1>4
<1> QED
  BY <1>4, <1>5, <1>6, <1>7

\* NoMsg is a message.
LEMMA NoMsgType == NoMsg \in Message /\ NoMsg.id = 0
  BY HubAssumption DEF NoMsg, Message

-----------------------------------------------------------------------------
(* Types.                                                                  *)

\* The initial state is well typed.
LEMMA InitType == Init => TypeOK
  BY HubAssumption, NoMsgType DEF Init, TypeOK, AskStates, SubStates

\* The receive loops keep the types.
LEMMA TypeFeed == ASSUME TypeOK, Feed PROVE TypeOK'
<1> USE NoMsgType, HubAssumption
    DEF TypeOK, Message, consVars, askVars, subVars, routeVars
<1>1. ASSUME NEW t \in Transports, NEW u \in Users, Receive(t, u)
      PROVE  TypeOK'
  <2>1. holding' \in [Transports -> Message] /\ nextId' \in Nat \ {0}
    BY <1>1 DEF Receive
  <2> QED
    BY <1>1, <2>1 DEF Receive
<1>2. ASSUME NEW t \in Transports, PushInbound(t)
      PROVE  TypeOK'
  <2>1. inbound' \in Seq(Message) /\ Len(inbound') <= InboundCap
    BY <1>2, AppendProperties DEF PushInbound
  <2>2. holding' \in [Transports -> Message]
    BY <1>2 DEF PushInbound
  <2> QED
    BY <1>2, <2>1, <2>2 DEF PushInbound
<1>3. ASSUME NEW t \in Transports, DropInbound(t)
      PROVE  TypeOK'
  BY <1>3 DEF DropInbound
<1> QED
  BY <1>1, <1>2, <1>3 DEF Feed

\* The consumer keeps the types.
LEMMA TypeConsumer == ASSUME TypeOK, Consumer PROVE TypeOK'
<1> USE HubAssumption
    DEF TypeOK, feedVars, askVars, subVars, routeVars
<1>1. ASSUME Take PROVE TypeOK'
  <2>1. /\ Head(inbound) \in Message
        /\ Tail(inbound) \in Seq(Message)
        /\ Len(Tail(inbound)) <= InboundCap
    BY <1>1, HeadTailProperties DEF Take
  <2> QED
    BY <1>1, <2>1 DEF Take
<1>2. ASSUME ResolvePendingAsk PROVE TypeOK'
  <2>1. /\ cur.from \in Users /\ cur.id \in Nat
        /\ pendingAsk[cur.from] \in Seq(Askers)
        /\ pendingAsk[cur.from] # <<>>
    BY <1>2 DEF ResolvePendingAsk, Answer, CanAnswer, Message
  <2>2. /\ Head(pendingAsk[cur.from]) \in Askers
        /\ Tail(pendingAsk[cur.from]) \in Seq(Askers)
    BY <2>1, HeadTailProperties
  <2> QED
    BY <1>2, <2>1, <2>2 DEF ResolvePendingAsk, Answer
<1>3. ASSUME NEW a \in Askers, SendReply(a) PROVE TypeOK'
  BY <1>3 DEF SendReply, Message
<1>4. ASSUME Snapshot PROVE TypeOK'
  <2>1. published' \in Seq(Nat)
    BY <1>4, AppendProperties DEF Snapshot, Message
  <2>2. fanout' \subseteq Subs
    BY <1>4 DEF Snapshot
  <2> QED
    BY <1>4, <2>1, <2>2 DEF Snapshot
<1>5. ASSUME NEW s \in Subs, PushEvent(s) PROVE TypeOK'
  <2>1. CASE Len(buf[s]) < SubCap /\ buf' = [buf EXCEPT ![s] = Append(@, cur.id)]
             /\ UNCHANGED missed
    <3>1. /\ Append(buf[s], cur.id) \in Seq(Nat)
          /\ Len(Append(buf[s], cur.id)) <= SubCap
      BY <2>1, AppendProperties DEF Message
    <3> QED
      BY <1>5, <2>1, <3>1 DEF PushEvent
  <2>2. CASE missed' = [missed EXCEPT ![s] = @ \union {cur.id}] /\ UNCHANGED buf
    BY <1>5, <2>2 DEF PushEvent, Message
  <2> QED
    BY <1>5, <2>1, <2>2 DEF PushEvent
<1>6. ASSUME Broadcasted PROVE TypeOK'
  BY <1>6 DEF Broadcasted
<1> QED
  BY <1>1, <1>2, <1>3, <1>4, <1>5, <1>6 DEF Consumer

\* The handlers of op "ask" and their clients keep the types.
LEMMA TypeAsk ==
  ASSUME TypeOK, NEW a \in Askers, AskHandler(a) \/ AskClientLeaves(a)
  PROVE  TypeOK'
<1> USE DEF TypeOK, AskStates, feedVars, consVars, subVars, routeVars
<1>1. ASSUME NEW u \in Users, AskResolve(a, u) PROVE TypeOK'
  BY <1>1 DEF AskResolve
<1>2. ASSUME AskSend(a) PROVE TypeOK'
  BY <1>2 DEF AskSend
<1>3. ASSUME AskListen(a) PROVE TypeOK'
  BY <1>3 DEF AskListen
<1>4. ASSUME AskFail(a) PROVE TypeOK'
  BY <1>4 DEF AskFail
<1>5. ASSUME AskRegister(a) PROVE TypeOK'
  <2>1. Append(pendingAsk[askUser[a]], a) \in Seq(Askers)
    BY AppendProperties
  <2>2. Append(askOrder, a) \in Seq(Askers)
    BY AppendProperties
  <2> QED
    BY <1>5, <2>1, <2>2 DEF AskRegister
<1>6. ASSUME AskReply(a) PROVE TypeOK'
  BY <1>6 DEF AskReply
<1>7. ASSUME AskGone(a) PROVE TypeOK'
  BY <1>7 DEF AskGone
<1>8. ASSUME RemovePending(a) PROVE TypeOK'
  <2>1. CASE UNCHANGED pendingAsk
    BY <1>8, <2>1 DEF RemovePending
  <2>2. ASSUME NEW i \in DOMAIN pendingAsk[askUser[a]],
               pendingAsk' = [pendingAsk EXCEPT ![askUser[a]] = RemoveAt(@, i)]
        PROVE  TypeOK'
    <3>1. RemoveAt(pendingAsk[askUser[a]], i) \in Seq(Askers)
      BY RemoveAtFacts
    <3> QED
      BY <1>8, <2>2, <3>1 DEF RemovePending
  <2> QED
    BY <1>8, <2>1, <2>2 DEF RemovePending
<1>9. ASSUME AskClientLeaves(a) PROVE TypeOK'
  BY <1>9 DEF AskClientLeaves
<1> QED
  BY <1>1, <1>2, <1>3, <1>4, <1>5, <1>6, <1>7, <1>8, <1>9 DEF AskHandler

\* The handlers of op "subscribe" and their clients keep the types.
LEMMA TypeSub ==
  ASSUME TypeOK, NEW s \in Subs, SubHandler(s) \/ SubClientLeaves(s)
  PROVE  TypeOK'
<1> USE DEF TypeOK, SubStates, feedVars, consVars, askVars, routeVars
<1>1. ASSUME NEW r \in Roles, Subscribe(s, r) PROVE TypeOK'
  BY <1>1, LenProperties DEF Subscribe
<1>2. ASSUME WriteEvent(s) PROVE TypeOK'
  <2>1. /\ Head(buf[s]) \in Nat
        /\ Tail(buf[s]) \in Seq(Nat)
        /\ Len(Tail(buf[s])) <= SubCap
    BY <1>2, HeadTailProperties, HubAssumption DEF WriteEvent
  <2>2. Append(received[s], Head(buf[s])) \in Seq(Nat)
    BY <2>1, AppendProperties
  <2>3. /\ buf' \in [Subs -> Seq(Nat)]
        /\ \A x \in Subs : Len(buf'[x]) <= SubCap
    BY <1>2, <2>1 DEF WriteEvent
  <2>4. received' \in [Subs -> Seq(Nat)] /\ subPc' \in [Subs -> SubStates]
    BY <1>2, <2>2 DEF WriteEvent
  <2> QED
    BY <1>2, <2>3, <2>4 DEF WriteEvent
<1>3. ASSUME SeeDone(s) PROVE TypeOK'
  BY <1>3 DEF SeeDone
<1>4. ASSUME RemoveSubscriber(s) PROVE TypeOK'
  BY <1>4 DEF RemoveSubscriber
<1>5. ASSUME SubClientLeaves(s) PROVE TypeOK'
  BY <1>5 DEF SubClientLeaves
<1> QED
  BY <1>1, <1>2, <1>3, <1>4, <1>5 DEF SubHandler

\* Every step keeps the types.
LEMMA NextType == TypeOK /\ [Next]_vars => TypeOK'
<1> SUFFICES ASSUME TypeOK, [Next]_vars PROVE TypeOK'
  OBVIOUS
<1>1. CASE UNCHANGED vars
  BY <1>1 DEF vars, feedVars, consVars, askVars, subVars, routeVars, TypeOK
<1> QED
  BY <1>1, TypeFeed, TypeConsumer, TypeAsk, TypeSub DEF Next

\* In every reachable state the variables have their types and the inbound
\* channel and the subscribers' channels are within their capacities.
THEOREM TypeCorrect == Spec => []TypeOK
  BY InitType, NextType, PTL DEF Spec

-----------------------------------------------------------------------------
(* Waiters.  QueuesExact and ReplyNeverBlocks hold together: the slot of a *)
(* popped waiter is free because a waiter is popped once, and it is popped *)
(* once because an answered waiter stands in no queue.                     *)

Fresh(a) == askPc[a] \in {"idle", "resolved", "sent", "failed"}

RealIds ==
  /\ \A i \in DOMAIN inbound : inbound[i].id # 0
  /\ consumer # "idle" => cur.id # 0

WaiterInv ==
  /\ RealIds
  /\ QueuesExact
  /\ ReplyNeverBlocks
  /\ answering # {} => consumer = "answer"
  /\ \A a \in Askers : Fresh(a) => answer[a] = 0
  /\ \A a \in Askers : answer[a] = 0 => replyCh[a] = 0 /\ a \notin answering

\* No waiter stands anywhere at first.
LEMMA InitWaiter == Init => WaiterInv
  BY DEF Init, WaiterInv, RealIds, QueuesExact, Owed, ReplyNeverBlocks, Fresh

\* No step puts a message without an id in the channel or in front of the
\* consumer.
LEMMA NextRealIds == TypeOK /\ RealIds /\ [Next]_vars => RealIds'
<1> SUFFICES ASSUME TypeOK, RealIds, [Next]_vars PROVE RealIds'
  OBVIOUS
<1> USE DEF RealIds
<1>1. CASE UNCHANGED <<inbound, consumer, cur>>
  BY <1>1
<1>2. ASSUME NEW t \in Transports, PushInbound(t) PROVE RealIds'
  <2>1. holding[t] \in Message /\ inbound \in Seq(Message)
    BY DEF TypeOK
  <2>2. /\ Len(inbound') = Len(inbound) + 1
        /\ \A i \in 1..Len(inbound) : inbound'[i] = inbound[i]
        /\ inbound'[Len(inbound) + 1] = holding[t]
        /\ inbound' \in Seq(Message)
    BY <1>2, <2>1, AppendProperties DEF PushInbound
  <2>3. holding[t].id # 0 /\ consumer' = consumer /\ cur' = cur
    BY <1>2 DEF PushInbound, consVars
  <2>4. ASSUME NEW i \in DOMAIN inbound' PROVE inbound'[i].id # 0
    BY <2>1, <2>2, <2>3, LenProperties
  <2> QED
    BY <2>3, <2>4
<1>3. CASE Take
  <2>1. /\ inbound \in Seq(Message) /\ inbound # <<>>
        /\ cur' = Head(inbound) /\ inbound' = Tail(inbound)
    BY <1>3 DEF Take, TypeOK
  <2>2. /\ inbound' \in Seq(Message)
        /\ Len(inbound') = Len(inbound) - 1
        /\ \A i \in 1..Len(inbound') : inbound'[i] = inbound[i + 1]
        /\ Len(inbound) \in Nat /\ Len(inbound) # 0
        /\ cur' = inbound[1]
    BY <2>1, HeadTailProperties, LenProperties, EmptySeq
  <2>3. cur'.id # 0
    BY <2>1, <2>2, LenProperties
  <2>4. ASSUME NEW i \in DOMAIN inbound' PROVE inbound'[i].id # 0
    <3>1. i + 1 \in DOMAIN inbound /\ inbound'[i] = inbound[i + 1]
      BY <2>1, <2>2, LenProperties
    <3> QED
      BY <3>1
  <2> QED
    BY <2>3, <2>4
<1>4. CASE ResolvePendingAsk \/ Snapshot \/ Broadcasted
           \/ (\E a \in Askers : SendReply(a)) \/ (\E s \in Subs : PushEvent(s))
  BY <1>4 DEF ResolvePendingAsk, Answer, Snapshot, Broadcasted, SendReply, PushEvent,
              feedVars
<1>5. ASSUME NEW t \in Transports,
             (\E u \in Users : Receive(t, u)) \/ DropInbound(t)
      PROVE  RealIds'
  BY <1>5 DEF Receive, DropInbound, consVars
<1>6. ASSUME NEW a \in Askers, AskHandler(a) \/ AskClientLeaves(a)
      PROVE  RealIds'
  BY <1>1, <1>6 DEF AskHandler, AskResolve, AskSend, AskListen, AskFail,
     AskRegister, AskReply, AskGone, RemovePending, AskClientLeaves, feedVars,
     consVars
<1>7. ASSUME NEW s \in Subs, SubHandler(s) \/ SubClientLeaves(s)
      PROVE  RealIds'
  BY <1>1, <1>7 DEF SubHandler, Subscribe, WriteEvent, SeeDone,
     RemoveSubscriber, SubClientLeaves, feedVars, consVars
<1>8. CASE UNCHANGED vars
  BY <1>1, <1>8 DEF vars, feedVars, consVars
<1> QED
  BY <1>2, <1>3, <1>4, <1>5, <1>6, <1>7, <1>8 DEF Next, Feed, Consumer

\* Steps that touch neither the queues nor the handlers' slots.
LEMMA WaiterFrame ==
  ASSUME WaiterInv, RealIds',
         UNCHANGED <<pendingAsk, askPc, askUser, answer, replyCh, answering>>,
         answering # {} => consumer' = "answer"
  PROVE  WaiterInv'
  BY DEF WaiterInv, QueuesExact, Owed, ReplyNeverBlocks, Fresh, Contains

\* Popping the oldest waiter.
LEMMA WaiterResolve ==
  ASSUME TypeOK, WaiterInv, RealIds', ResolvePendingAsk PROVE WaiterInv'
<1> DEFINE u == cur.from
           queue == pendingAsk[u]
           w == Head(queue)
<1>1. /\ u \in Users /\ cur.id \in Nat /\ cur.id # 0
      /\ queue \in Seq(Askers) /\ queue # <<>>
  BY DEF ResolvePendingAsk, Answer, CanAnswer, TypeOK, Message, WaiterInv, RealIds
<1>2. /\ w = queue[1] /\ w \in Askers
      /\ Tail(queue) \in Seq(Askers)
      /\ Len(Tail(queue)) = Len(queue) - 1
      /\ \A i \in 1..(Len(queue) - 1) : Tail(queue)[i] = queue[i + 1]
      /\ Len(queue) \in Nat /\ Len(queue) # 0
  BY <1>1, HeadTailProperties, LenProperties, EmptySeq
<1>3. /\ pendingAsk' = [pendingAsk EXCEPT ![u] = Tail(queue)]
      /\ answering' = {w}
      /\ answer' = [answer EXCEPT ![w] = cur.id]
      /\ consumer = "deliver" /\ consumer' = "answer"
      /\ UNCHANGED <<askPc, askUser, replyCh>>
  BY DEF ResolvePendingAsk, Answer, askVars
<1>4. Owed(w) /\ askUser[w] = u
  BY <1>1, <1>2, LenProperties DEF WaiterInv, QueuesExact
<1>5. replyCh[w] = 0 /\ answering = {}
  BY <1>2, <1>3, <1>4 DEF WaiterInv, Owed
<1> HIDE DEF w, queue, u
<1>6. ASSUME NEW v \in Users, NEW i \in DOMAIN pendingAsk'[v]
      PROVE  /\ Owed(pendingAsk[v][i])'
             /\ askUser'[pendingAsk'[v][i]] = v
             /\ \A j \in DOMAIN pendingAsk'[v] :
                  pendingAsk'[v][j] = pendingAsk'[v][i] => j = i
  <2>1. CASE v = u
    <3>1. pendingAsk'[v] = Tail(queue)
      BY <1>1, <1>3, <2>1 DEF TypeOK
    <3>2. /\ i \in 1..(Len(queue) - 1)
          /\ \A j \in DOMAIN pendingAsk'[v] :
               j \in 1..(Len(queue) - 1) /\ pendingAsk'[v][j] = queue[j + 1]
      BY <1>2, <3>1, LenProperties
    <3>3. DOMAIN queue = 1..Len(queue)
      BY <1>1, LenProperties
    <3>4. /\ Owed(queue[i + 1]) /\ askUser[queue[i + 1]] = u
          /\ \A j \in DOMAIN queue : queue[j] = queue[i + 1] => j = i + 1
      BY <1>1, <1>2, <3>2, <3>3 DEF WaiterInv, QueuesExact, queue
    <3>5. queue[i + 1] # w
      BY <1>2, <3>2, <3>3, <3>4
    <3>6. answer'[queue[i + 1]] = answer[queue[i + 1]]
      BY <1>3, <3>5, <3>2, <3>3, <1>1, <1>2, ElementOfSeq DEF TypeOK
    <3> QED
      BY <2>1, <1>3, <1>2, <3>2, <3>3, <3>4, <3>6 DEF Owed
  <2>2. CASE v # u
    <3>1. pendingAsk'[v] = pendingAsk[v]
      BY <1>3, <2>2 DEF TypeOK
    <3>2. /\ Owed(pendingAsk[v][i]) /\ askUser[pendingAsk[v][i]] = v
          /\ \A j \in DOMAIN pendingAsk[v] :
               pendingAsk[v][j] = pendingAsk[v][i] => j = i
      BY <3>1 DEF WaiterInv, QueuesExact
    <3>3. pendingAsk[v][i] # w
      BY <3>2, <1>4, <2>2
    <3>4. answer'[pendingAsk[v][i]] = answer[pendingAsk[v][i]]
      BY <1>3, <3>1, <3>3, ElementOfSeq, LenProperties DEF TypeOK
    <3> QED
      BY <1>3, <3>1, <3>2, <3>4 DEF Owed
  <2> QED
    BY <2>1, <2>2
<1>7. ASSUME NEW b \in Askers, Owed(b)'
      PROVE  Contains(pendingAsk'[askUser'[b]], b)
  <2>1. b # w
    BY <1>1, <1>2, <1>3, <1>7 DEF Owed, TypeOK
  <2>2. Owed(b)
    BY <1>3, <1>7, <2>1 DEF Owed, TypeOK
  <2>3. PICK i \in 1..Len(pendingAsk[askUser[b]]) : pendingAsk[askUser[b]][i] = b
    BY <2>2 DEF WaiterInv, QueuesExact, Contains
  <2>4. CASE askUser[b] = u
    <3>1. i # 1 /\ i \in 1..Len(queue) /\ queue[i] = b
      BY <1>2, <2>1, <2>3, <2>4 DEF queue
    <3>2. pendingAsk'[askUser'[b]] = Tail(queue)
      BY <1>1, <1>3, <2>4 DEF TypeOK
    <3>3. i - 1 \in 1..Len(Tail(queue)) /\ Tail(queue)[i - 1] = b
      <4>1. i - 1 \in 1..(Len(queue) - 1) /\ (i - 1) + 1 = i
        BY <1>2, <3>1
      <4> QED
        BY <1>2, <3>1, <4>1
    <3> QED
      BY <3>2, <3>3 DEF Contains
  <2>5. CASE askUser[b] # u
    <3>1. pendingAsk'[askUser'[b]] = pendingAsk[askUser[b]]
      BY <1>3, <2>5 DEF TypeOK
    <3> QED
      BY <2>3, <3>1 DEF Contains
  <2> QED
    BY <2>4, <2>5
<1>8. QueuesExact'
  BY <1>6, <1>7 DEF QueuesExact
<1>9. \A b \in Askers : Fresh(b)' => answer'[b] = 0
  BY <1>2, <1>3, <1>4 DEF WaiterInv, Fresh, Owed, TypeOK
<1>10. \A b \in Askers : answer'[b] = 0 => replyCh'[b] = 0 /\ b \notin answering'
  BY <1>1, <1>2, <1>3 DEF WaiterInv, TypeOK
<1> QED
  BY <1>3, <1>5, <1>8, <1>9, <1>10 DEF WaiterInv, ReplyNeverBlocks

\* Sending to the popped waiter.
LEMMA WaiterSendReply ==
  ASSUME TypeOK, WaiterInv, RealIds', NEW a \in Askers, SendReply(a)
  PROVE  WaiterInv'
<1>1. /\ replyCh' = [replyCh EXCEPT ![a] = cur.id]
      /\ answering' = {} /\ a \in answering
      /\ UNCHANGED <<pendingAsk, askPc, askUser, answer>>
  BY DEF SendReply, askVars, routeVars
<1>2. answer[a] # 0
  BY <1>1 DEF WaiterInv
<1>3. \A b \in Askers : answer'[b] = 0 => replyCh'[b] = 0 /\ b \notin answering'
  BY <1>1, <1>2 DEF WaiterInv, TypeOK
<1>4. QueuesExact'
  BY <1>1 DEF WaiterInv, QueuesExact, Owed, Contains
<1> QED
  BY <1>1, <1>3, <1>4 DEF WaiterInv, ReplyNeverBlocks, Fresh

\* The handler takes its reply: it is not owed one, so no queue knows it.
LEMMA WaiterAskReply ==
  ASSUME TypeOK, WaiterInv, RealIds', NEW a \in Askers, AskReply(a)
  PROVE  WaiterInv'
<1>1. /\ replyCh' = [replyCh EXCEPT ![a] = 0]
      /\ replyCh[a] # 0
      /\ askPc' = [askPc EXCEPT ![a] = "replied"]
      /\ UNCHANGED <<pendingAsk, askUser, answer, answering, consumer>>
  BY DEF AskReply, consVars, routeVars
<1>2. answer[a] # 0
  BY <1>1 DEF WaiterInv
<1>3. \A b \in Askers : Owed(b)' <=> Owed(b)
  BY <1>1, <1>2 DEF Owed, TypeOK
<1>4. QueuesExact'
  <2>1. \A u \in Users : \A i \in DOMAIN pendingAsk[u] : pendingAsk[u][i] \in Askers
    BY ElementOfSeq, LenProperties DEF TypeOK
  <2> QED
    BY <1>1, <1>3, <2>1 DEF WaiterInv, QueuesExact, Contains
<1>5. \A b \in Askers : answer'[b] = 0 => replyCh'[b] = 0 /\ b \notin answering'
  BY <1>1, <1>2 DEF WaiterInv, TypeOK
<1>6. ReplyNeverBlocks'
  BY <1>1 DEF WaiterInv, ReplyNeverBlocks, TypeOK
<1>7. \A b \in Askers : Fresh(b)' => answer'[b] = 0
  BY <1>1 DEF WaiterInv, Fresh, TypeOK
<1> QED
  BY <1>1, <1>4, <1>5, <1>6, <1>7 DEF WaiterInv

\* Steps of a handler that only move it between states in which it is owed
\* an answer, or between states in which it is not.
LEMMA WaiterMove ==
  ASSUME TypeOK, WaiterInv, RealIds', NEW a \in Askers,
         UNCHANGED <<pendingAsk, replyCh, answer, answering, consumer>>,
         NEW st, askPc' = [askPc EXCEPT ![a] = st],
         \/ Fresh(a) /\ st \in {"resolved", "sent", "failed"}
         \/ askPc[a] = "waiting" /\ st = "leaving" /\ askUser' = askUser,
         \A b \in Askers : b # a => askUser'[b] = askUser[b]
  PROVE  WaiterInv'
<1>1. \A b \in Askers : Owed(b)' <=> Owed(b)
  BY DEF Owed, Fresh, TypeOK
<1>2. \A b \in Askers : Owed(b) => askUser'[b] = askUser[b]
  BY DEF Owed, Fresh
<1>3. QueuesExact'
  <2>1. \A u \in Users : \A i \in DOMAIN pendingAsk[u] : pendingAsk[u][i] \in Askers
    BY ElementOfSeq, LenProperties DEF TypeOK
  <2> QED
    BY <1>1, <1>2, <2>1 DEF WaiterInv, QueuesExact, Contains
<1>4. \A b \in Askers : Fresh(b)' => answer'[b] = 0
  BY DEF WaiterInv, Fresh, TypeOK
<1> QED
  BY <1>3, <1>4 DEF WaiterInv, ReplyNeverBlocks

\* Joining the queue of one's user.
LEMMA WaiterRegister ==
  ASSUME TypeOK, WaiterInv, RealIds', NEW a \in Askers, AskRegister(a)
  PROVE  WaiterInv'
<1> DEFINE u == askUser[a]
           queue == pendingAsk[u]
<1>1. /\ askPc[a] = "sent"
      /\ askPc' = [askPc EXCEPT ![a] = "waiting"]
      /\ pendingAsk' = [pendingAsk EXCEPT ![u] = Append(queue, a)]
      /\ UNCHANGED <<askUser, replyCh, answer, answering, consumer>>
  BY DEF AskRegister, consVars, routeVars
<1>2. u \in Users /\ queue \in Seq(Askers)
  BY DEF TypeOK
<1>3. /\ Append(queue, a) \in Seq(Askers)
      /\ Len(Append(queue, a)) = Len(queue) + 1
      /\ \A i \in 1..Len(queue) : Append(queue, a)[i] = queue[i]
      /\ Append(queue, a)[Len(queue) + 1] = a
      /\ Len(queue) \in Nat
  BY <1>2, AppendProperties, LenProperties
<1>4. answer[a] = 0 /\ ~Owed(a)
  BY <1>1 DEF WaiterInv, Fresh, Owed
<1>5. /\ Owed(a)'
      /\ \A b \in Askers : b # a => (Owed(b)' <=> Owed(b))
  BY <1>1, <1>4 DEF Owed, TypeOK
<1> HIDE DEF queue, u
<1>6. ASSUME NEW v \in Users, NEW i \in DOMAIN pendingAsk'[v]
      PROVE  /\ Owed(pendingAsk[v][i])'
             /\ askUser'[pendingAsk'[v][i]] = v
             /\ \A j \in DOMAIN pendingAsk'[v] :
                  pendingAsk'[v][j] = pendingAsk'[v][i] => j = i
  <2>1. CASE v = u
    <3>1. pendingAsk'[v] = Append(queue, a)
      BY <1>1, <1>2, <2>1 DEF TypeOK
    <3>2. DOMAIN pendingAsk'[v] = 1..(Len(queue) + 1)
      BY <1>3, <3>1, LenProperties
    <3>3. \A j \in 1..Len(queue) :
            /\ queue[j] \in Askers /\ Owed(queue[j]) /\ askUser[queue[j]] = u
            /\ \A k \in 1..Len(queue) : queue[k] = queue[j] => k = j
      BY <1>2, LenProperties, ElementOfSeq DEF WaiterInv, QueuesExact, queue
    <3>4. \A j \in 1..Len(queue) : queue[j] # a
      BY <3>3, <1>4
    <3>5. \A j \in 1..(Len(queue) + 1) : j \in 1..Len(queue) \/ j = Len(queue) + 1
      BY <1>3
    <3>6. CASE i = Len(queue) + 1
      <4>1. pendingAsk'[v][i] = a
        BY <3>1, <3>6, <1>3
      <4>2. askUser'[a] = v
        BY <1>1, <2>1 DEF u
      <4> QED
        BY <4>1, <4>2, <1>3, <1>5, <3>1, <3>2, <3>4, <3>5, <3>6
    <3>7. CASE i \in 1..Len(queue)
      <4>1. pendingAsk'[v][i] = queue[i]
        BY <3>1, <3>7, <1>3
      <4> QED
        BY <4>1, <1>1, <1>3, <1>5, <2>1, <3>1, <3>2, <3>3, <3>4, <3>5, <3>7
    <3> QED
      BY <3>2, <3>5, <3>6, <3>7
  <2>2. CASE v # u
    <3>1. pendingAsk'[v] = pendingAsk[v]
      BY <1>1, <2>2 DEF TypeOK
    <3>2. /\ pendingAsk[v][i] \in Askers
          /\ Owed(pendingAsk[v][i]) /\ askUser[pendingAsk[v][i]] = v
          /\ \A j \in DOMAIN pendingAsk[v] :
               pendingAsk[v][j] = pendingAsk[v][i] => j = i
      BY <3>1, ElementOfSeq, LenProperties DEF WaiterInv, QueuesExact, TypeOK
    <3> QED
      BY <1>1, <1>4, <1>5, <3>1, <3>2
  <2> QED
    BY <2>1, <2>2
<1>7. ASSUME NEW b \in Askers, Owed(b)'
      PROVE  Contains(pendingAsk'[askUser'[b]], b)
  <2>1. CASE b = a
    <3>1. pendingAsk'[askUser'[b]] = Append(queue, a)
      BY <1>1, <1>2, <2>1 DEF TypeOK, u
    <3> QED
      BY <2>1, <3>1, <1>3 DEF Contains
  <2>2. CASE b # a
    <3>1. PICK i \in 1..Len(pendingAsk[askUser[b]]) : pendingAsk[askUser[b]][i] = b
      BY <1>5, <1>7, <2>2 DEF WaiterInv, QueuesExact, Contains
    <3>2. CASE askUser[b] = u
      <4>1. pendingAsk'[askUser'[b]] = Append(queue, a)
        BY <1>1, <1>2, <3>2 DEF TypeOK
      <4>2. i \in 1..Len(queue) /\ queue[i] = b
        BY <3>1, <3>2 DEF queue
      <4>3. i \in 1..Len(Append(queue, a)) /\ Append(queue, a)[i] = b
        BY <4>2, <1>3
      <4> QED
        BY <4>1, <4>3 DEF Contains
    <3>3. CASE askUser[b] # u
      <4>1. pendingAsk'[askUser'[b]] = pendingAsk[askUser[b]]
        BY <1>1, <3>3 DEF TypeOK
      <4> QED
        BY <3>1, <4>1 DEF Contains
    <3> QED
      BY <3>2, <3>3
  <2> QED
    BY <2>1, <2>2
<1>8. QueuesExact'
  BY <1>6, <1>7 DEF QueuesExact
<1>9. \A b \in Askers : Fresh(b)' => answer'[b] = 0
  BY <1>1 DEF WaiterInv, Fresh, TypeOK
<1> QED
  BY <1>1, <1>8, <1>9 DEF WaiterInv, ReplyNeverBlocks

\* Leaving the queue of one's user; a no-op when the waiter was popped before.
LEMMA WaiterRemove ==
  ASSUME TypeOK, WaiterInv, RealIds', NEW a \in Askers, RemovePending(a)
  PROVE  WaiterInv'
<1> DEFINE u == askUser[a]
           queue == pendingAsk[u]
<1>1. /\ askPc[a] = "leaving"
      /\ askPc' = [askPc EXCEPT ![a] = "gone"]
      /\ UNCHANGED <<askUser, replyCh, answer, answering, consumer>>
  BY DEF RemovePending, consVars, routeVars
<1>2. u \in Users /\ queue \in Seq(Askers)
  BY DEF TypeOK
<1>3. /\ ~Owed(a)'
      /\ \A b \in Askers : b # a => (Owed(b)' <=> Owed(b))
  BY <1>1 DEF Owed, TypeOK
<1>4. \A v \in Users : \A i \in DOMAIN pendingAsk[v] :
        /\ pendingAsk[v][i] \in Askers
        /\ Owed(pendingAsk[v][i])
        /\ askUser[pendingAsk[v][i]] = v
        /\ \A j \in DOMAIN pendingAsk[v] :
             pendingAsk[v][j] = pendingAsk[v][i] => j = i
  BY ElementOfSeq, LenProperties DEF TypeOK, WaiterInv, QueuesExact
<1>5. \A v \in Users : v # u =>
        \A i \in DOMAIN pendingAsk[v] : pendingAsk[v][i] # a
  BY <1>4
<1>6. QueuesExact'
  <2>1. CASE ~Contains(queue, a) /\ UNCHANGED pendingAsk
    <3>1. \A i \in DOMAIN queue : queue[i] # a
      BY <2>1, <1>2, LenProperties DEF Contains
    <3>2. \A v \in Users : \A i \in DOMAIN pendingAsk[v] : pendingAsk[v][i] # a
      BY <3>1, <1>5
    <3> QED
      BY <1>1, <1>3, <1>4, <2>1, <3>2 DEF WaiterInv, QueuesExact, Contains
  <2>2. ASSUME NEW i \in DOMAIN queue, queue[i] = a,
               pendingAsk' = [pendingAsk EXCEPT ![u] = RemoveAt(queue, i)]
        PROVE  QueuesExact'
    <3> DEFINE rest == RemoveAt(queue, i)
    <3>1. /\ rest \in Seq(Askers)
          /\ Len(rest) = Len(queue) - 1
          /\ \A j \in 1..(Len(queue) - 1) :
               rest[j] = IF j < i THEN queue[j] ELSE queue[j + 1]
          /\ Len(queue) \in Nat /\ i \in 1..Len(queue)
          /\ DOMAIN queue = 1..Len(queue)
      BY <1>2, RemoveAtFacts, LenProperties
    <3> DEFINE old(j) == IF j < i THEN j ELSE j + 1
    <3>2. \A j \in 1..(Len(queue) - 1) :
            old(j) \in 1..Len(queue) /\ old(j) # i /\ rest[j] = queue[old(j)]
      BY <3>1
    <3>3. \A j, k \in 1..(Len(queue) - 1) : old(j) = old(k) => j = k
      BY <3>1
    <3>4. \A k \in 1..Len(queue) : k # i =>
            \E j \in 1..(Len(queue) - 1) : rest[j] = queue[k]
      <4> TAKE k \in 1..Len(queue)
      <4> HAVE k # i
      <4>1. CASE k < i
        <5>1. k \in 1..(Len(queue) - 1) /\ rest[k] = queue[k]
          BY <4>1, <3>1
        <5> QED
          BY <5>1
      <4>2. CASE k > i
        <5>1. /\ k - 1 \in 1..(Len(queue) - 1) /\ ~(k - 1 < i)
              /\ (k - 1) + 1 = k
          BY <4>2, <3>1
        <5>2. rest[k - 1] = queue[k]
          BY <5>1, <3>1
        <5> QED
          BY <5>1, <5>2
      <4> QED
        BY <4>1, <4>2, <3>1
    <3>5. /\ pendingAsk'[u] = rest
          /\ \A v \in Users : v # u => pendingAsk'[v] = pendingAsk[v]
          /\ DOMAIN rest = 1..(Len(queue) - 1)
      BY <2>2, <1>2, <3>1, LenProperties DEF TypeOK
    <3>6. \A j \in 1..(Len(queue) - 1) : queue[old(j)] # a
      BY <2>2, <1>2, <1>4, <3>1, <3>2
    <3> HIDE DEF old, rest, queue, u
    <3>7. ASSUME NEW v \in Users, NEW j \in DOMAIN pendingAsk'[v]
          PROVE  /\ Owed(pendingAsk[v][j])'
                 /\ askUser'[pendingAsk'[v][j]] = v
                 /\ \A k \in DOMAIN pendingAsk'[v] :
                      pendingAsk'[v][k] = pendingAsk'[v][j] => k = j
      <4>1. CASE v = u
        <5>1. pendingAsk'[v] = rest /\ j \in 1..(Len(queue) - 1)
          BY <4>1, <3>5, <3>7
        <5>2. /\ rest[j] \in Askers /\ Owed(rest[j]) /\ askUser[rest[j]] = u
              /\ rest[j] # a
          BY <5>1, <1>2, <1>4, <3>1, <3>2, <3>6 DEF queue
        <5>3. ASSUME NEW k \in 1..(Len(queue) - 1), rest[k] = rest[j]
              PROVE  k = j
          <6>1. /\ old(k) \in DOMAIN queue /\ old(j) \in DOMAIN queue
                /\ queue[old(k)] = queue[old(j)]
            BY <5>1, <5>3, <3>1, <3>2
          <6>2. old(k) = old(j)
            BY <6>1, <1>2, <1>4 DEF queue
          <6> QED
            BY <5>1, <6>2, <3>3
        <5> QED
          BY <4>1, <5>1, <5>2, <5>3, <1>1, <1>3, <3>5
      <4>2. CASE v # u
        BY <4>2, <1>1, <1>3, <1>4, <1>5, <3>5, <3>7
      <4> QED
        BY <4>1, <4>2
    <3>8. ASSUME NEW b \in Askers, Owed(b)'
          PROVE  Contains(pendingAsk'[askUser'[b]], b)
      <4>1. b # a /\ Owed(b)
        BY <1>3, <3>8
      <4>2. PICK k \in 1..Len(pendingAsk[askUser[b]]) :
              pendingAsk[askUser[b]][k] = b
        BY <4>1 DEF WaiterInv, QueuesExact, Contains
      <4>3. askUser[b] \in Users /\ askUser'[b] = askUser[b]
        BY <1>1 DEF TypeOK
      <4>4. CASE askUser[b] = u
        <5>1. k \in 1..Len(queue) /\ queue[k] = b /\ k # i
          BY <4>1, <4>2, <4>4, <2>2 DEF queue
        <5>2. PICK j \in 1..(Len(queue) - 1) : rest[j] = b
          BY <5>1, <3>4
        <5> QED
          BY <4>3, <4>4, <5>2, <3>1, <3>5 DEF Contains
      <4>5. CASE askUser[b] # u
        BY <4>2, <4>3, <4>5, <3>5 DEF Contains
      <4> QED
        BY <4>4, <4>5
    <3> QED
      BY <3>7, <3>8 DEF QueuesExact
  <2> QED
    BY <2>1, <2>2 DEF RemovePending
<1>7. \A b \in Askers : Fresh(b)' => answer'[b] = 0
  BY <1>1 DEF WaiterInv, Fresh, TypeOK
<1> QED
  BY <1>1, <1>6, <1>7 DEF WaiterInv, ReplyNeverBlocks

\* Every step preserves the invariant.
LEMMA NextWaiter == TypeOK /\ WaiterInv /\ [Next]_vars => WaiterInv'
<1> SUFFICES ASSUME TypeOK, WaiterInv, [Next]_vars PROVE WaiterInv'
  OBVIOUS
<1>1. RealIds'
  BY NextRealIds DEF WaiterInv
<1>2. CASE Feed
  BY <1>1, <1>2, WaiterFrame DEF Feed, Receive, PushInbound, DropInbound,
     consVars, askVars, routeVars, WaiterInv
<1>3. CASE Consumer
  <2>1. CASE Take
    BY <1>1, <2>1, WaiterFrame DEF Take, askVars, routeVars, WaiterInv
  <2>2. CASE Snapshot
    BY <1>1, <2>2, WaiterFrame DEF Snapshot, askVars, WaiterInv
  <2>3. CASE Broadcasted
    BY <1>1, <2>3, WaiterFrame DEF Broadcasted, askVars, routeVars, WaiterInv
  <2>4. ASSUME NEW s \in Subs, PushEvent(s) PROVE WaiterInv'
    BY <1>1, <2>4, WaiterFrame DEF PushEvent, askVars, WaiterInv
  <2> QED
    BY <1>1, <1>3, <2>1, <2>2, <2>3, <2>4, WaiterResolve, WaiterSendReply
       DEF Consumer
<1>4. ASSUME NEW a \in Askers, AskHandler(a) PROVE WaiterInv'
  <2>1. ASSUME NEW u \in Users, AskResolve(a, u) PROVE WaiterInv'
    BY <1>1, <2>1, WaiterMove
       DEF AskResolve, Fresh, consVars, routeVars, TypeOK
  <2>2. CASE AskSend(a)
    BY <1>1, <2>2, WaiterMove DEF AskSend, Fresh, consVars, routeVars
  <2>3. CASE AskListen(a)
    BY <1>1, <2>3, WaiterMove DEF AskListen, Fresh, consVars, routeVars
  <2>4. CASE AskFail(a)
    BY <1>1, <2>4, WaiterMove DEF AskFail, Fresh, consVars, routeVars
  <2>5. CASE AskGone(a)
    BY <1>1, <2>5, WaiterMove DEF AskGone, consVars, routeVars
  <2> QED
    BY <1>1, <1>4, <2>1, <2>2, <2>3, <2>4, <2>5, WaiterRegister,
       WaiterAskReply, WaiterRemove DEF AskHandler
<1>5. ASSUME NEW a \in Askers, AskClientLeaves(a) PROVE WaiterInv'
  BY <1>1, <1>5, WaiterFrame DEF AskClientLeaves, consVars, routeVars, WaiterInv
<1>6. ASSUME NEW s \in Subs, SubHandler(s) \/ SubClientLeaves(s)
      PROVE  WaiterInv'
  BY <1>1, <1>6, WaiterFrame DEF SubHandler, Subscribe, WriteEvent, SeeDone,
     RemoveSubscriber, SubClientLeaves, consVars, askVars, routeVars, WaiterInv
<1>7. CASE UNCHANGED vars
  BY <1>1, <1>7, WaiterFrame DEF vars, consVars, askVars, routeVars, WaiterInv
<1> QED
  BY <1>2, <1>3, <1>4, <1>5, <1>6, <1>7 DEF Next

\* The per-user queues hold exactly the waiters still owed an answer.
THEOREM QueuesAlwaysExact == Spec => []QueuesExact
<1>1. WaiterInv => QueuesExact
  BY DEF WaiterInv
<1> QED
  BY <1>1, InitWaiter, NextWaiter, TypeCorrect, PTL DEF Spec

\* The consumer never blocks on a waiter's one-slot channel.
THEOREM ConsumerNeverBlocks == Spec => []ReplyNeverBlocks
<1>1. WaiterInv => ReplyNeverBlocks
  BY DEF WaiterInv
<1> QED
  BY <1>1, InitWaiter, NextWaiter, TypeCorrect, PTL DEF Spec

-----------------------------------------------------------------------------
(* Fates.  An id is in one place: with one receive loop, at one position   *)
(* of the channel, with the consumer, or decided.                          *)

Held(n)       == \E t \in Transports : holding[t].id = n
InChannel(n)  == \E i \in DOMAIN inbound : inbound[i].id = n
AtConsumer(n) == consumer = "deliver" /\ cur.id = n
Answered(n)   == \E a \in Askers : answer[a] = n
Published(n)  == \E i \in DOMAIN published : published[i] = n

FateInv ==
  /\ OneFate
  /\ \A n \in Nat \ {0} :
       /\ Held(n) \/ InChannel(n) \/ AtConsumer(n) \/ Answered(n) \/ Published(n)
            => n < nextId
       /\ Held(n) => ~InChannel(n) /\ ~AtConsumer(n)
       /\ InChannel(n) => ~AtConsumer(n)
       /\ Held(n) \/ InChannel(n) \/ AtConsumer(n) => ~Answered(n) /\ ~Published(n)
  /\ \A s, t \in Transports : holding[s].id # 0 /\ holding[s].id = holding[t].id => s = t
  /\ \A i, j \in DOMAIN inbound : inbound[i].id = inbound[j].id => i = j

\* No message has a fate at first.
LEMMA InitFate == Init => FateInv
  BY NoMsgType DEF Init, FateInv, OneFate, Held, InChannel, AtConsumer,
     Answered, Published

\* Steps that move no id.
LEMMA FateFrame ==
  ASSUME FateInv, UNCHANGED <<nextId, holding, inbound, answer, published>>,
         consumer' = "deliver" => consumer = "deliver" /\ cur' = cur
  PROVE  FateInv'
  BY DEF FateInv, OneFate, Held, InChannel, AtConsumer, Answered, Published

\* A new message takes an id nobody has.
LEMMA FateReceive ==
  ASSUME TypeOK, FateInv, NEW t \in Transports, NEW u \in Users, Receive(t, u)
  PROVE  FateInv'
<1>1. /\ holding[t].id = 0
      /\ holding' = [holding EXCEPT ![t] = [id |-> nextId, via |-> t, from |-> u]]
      /\ nextId' = nextId + 1
      /\ UNCHANGED <<inbound, consumer, cur, answer, published>>
      /\ nextId \in Nat \ {0}
  BY DEF Receive, consVars, routeVars, TypeOK
<1>2. /\ holding'[t].id = nextId
      /\ \A s \in Transports : s # t => holding'[s] = holding[s]
  BY <1>1 DEF TypeOK
<1>3. /\ ~Held(nextId) /\ ~InChannel(nextId) /\ ~AtConsumer(nextId)
      /\ ~Answered(nextId) /\ ~Published(nextId)
  BY <1>1 DEF FateInv
<1>4. \A n \in Nat \ {0} :
        /\ Held(n)' <=> Held(n) \/ n = nextId
        /\ InChannel(n)' <=> InChannel(n)
        /\ AtConsumer(n)' <=> AtConsumer(n)
        /\ Answered(n)' <=> Answered(n)
        /\ Published(n)' <=> Published(n)
  BY <1>1, <1>2 DEF Held, InChannel, AtConsumer, Answered, Published
<1>5. \A s1, s2 \in Transports :
        holding'[s1].id # 0 /\ holding'[s1].id = holding'[s2].id => s1 = s2
  BY <1>1, <1>2, <1>3 DEF FateInv, Held
<1>6. \A n \in Nat \ {0} :
        /\ (Held(n) \/ InChannel(n) \/ AtConsumer(n) \/ Answered(n) \/ Published(n))'
             => n < nextId'
        /\ Held(n)' => ~InChannel(n)' /\ ~AtConsumer(n)'
        /\ InChannel(n)' => ~AtConsumer(n)'
        /\ (Held(n) \/ InChannel(n) \/ AtConsumer(n))'
             => ~Answered(n)' /\ ~Published(n)'
  BY <1>1, <1>3, <1>4 DEF FateInv
<1>7. OneFate' /\ \A i, j \in DOMAIN inbound' : inbound'[i].id = inbound'[j].id => i = j
  BY <1>1 DEF FateInv, OneFate
<1> QED
  BY <1>5, <1>6, <1>7 DEF FateInv

\* A message moves from its receive loop to the channel.
LEMMA FatePush ==
  ASSUME TypeOK, FateInv, NEW t \in Transports, PushInbound(t)
  PROVE  FateInv'
<1> DEFINE m == holding[t]
<1>1. /\ m.id # 0 /\ m \in Message /\ m.id \in Nat \ {0}
      /\ inbound' = Append(inbound, m)
      /\ holding' = [holding EXCEPT ![t] = NoMsg]
      /\ UNCHANGED <<nextId, consumer, cur, answer, published>>
      /\ inbound \in Seq(Message)
  BY DEF PushInbound, consVars, routeVars, TypeOK, Message
<1>2. /\ holding'[t].id = 0
      /\ \A s \in Transports : s # t => holding'[s] = holding[s]
  BY <1>1, NoMsgType DEF TypeOK
<1>3. /\ DOMAIN inbound = 1..Len(inbound) /\ Len(inbound) \in Nat
      /\ DOMAIN inbound' = 1..(Len(inbound) + 1)
      /\ \A i \in 1..Len(inbound) : inbound'[i] = inbound[i]
      /\ inbound'[Len(inbound) + 1] = m
  BY <1>1, AppendProperties, LenProperties
<1>4. Held(m.id) /\ ~InChannel(m.id)
  BY <1>1 DEF Held, FateInv
<1>5. \A s \in Transports : s # t => holding[s].id # m.id
  BY <1>1 DEF FateInv
<1> HIDE DEF m
<1>6. \A n \in Nat \ {0} :
        /\ Held(n)' <=> Held(n) /\ n # m.id
        /\ InChannel(n)' <=> InChannel(n) \/ n = m.id
        /\ AtConsumer(n)' <=> AtConsumer(n)
        /\ Answered(n)' <=> Answered(n)
        /\ Published(n)' <=> Published(n)
  <2> SUFFICES ASSUME NEW n \in Nat \ {0}
               PROVE  /\ Held(n)' <=> Held(n) /\ n # m.id
                      /\ InChannel(n)' <=> InChannel(n) \/ n = m.id
    BY <1>1 DEF AtConsumer, Answered, Published
  <2>1. Held(n)' <=> Held(n) /\ n # m.id
    BY <1>2, <1>5 DEF Held, m
  <2>2. InChannel(n)' <=> InChannel(n) \/ n = m.id
    BY <1>3 DEF InChannel
  <2> QED
    BY <2>1, <2>2
<1>7. \A s1, s2 \in Transports :
        holding'[s1].id # 0 /\ holding'[s1].id = holding'[s2].id => s1 = s2
  BY <1>2 DEF FateInv
<1>8. \A i, j \in DOMAIN inbound' : inbound'[i].id = inbound'[j].id => i = j
  BY <1>3, <1>4 DEF FateInv, InChannel
<1>9. \A n \in Nat \ {0} :
        /\ (Held(n) \/ InChannel(n) \/ AtConsumer(n) \/ Answered(n) \/ Published(n))'
             => n < nextId'
        /\ Held(n)' => ~InChannel(n)' /\ ~AtConsumer(n)'
        /\ InChannel(n)' => ~AtConsumer(n)'
        /\ (Held(n) \/ InChannel(n) \/ AtConsumer(n))'
             => ~Answered(n)' /\ ~Published(n)'
  BY <1>1, <1>4, <1>6 DEF FateInv
<1>10. OneFate'
  BY <1>1 DEF FateInv, OneFate
<1> QED
  BY <1>7, <1>8, <1>9, <1>10 DEF FateInv

\* A message is dropped: its id is nowhere.
LEMMA FateDrop ==
  ASSUME TypeOK, FateInv, NEW t \in Transports, DropInbound(t)
  PROVE  FateInv'
<1>1. /\ holding' = [holding EXCEPT ![t] = NoMsg]
      /\ UNCHANGED <<nextId, inbound, consumer, cur, answer, published>>
  BY DEF DropInbound, consVars, routeVars
<1>2. /\ holding'[t].id = 0
      /\ \A s \in Transports : s # t => holding'[s] = holding[s]
  BY <1>1, NoMsgType DEF TypeOK
<1>3. \A n \in Nat \ {0} :
        /\ Held(n)' => Held(n)
        /\ InChannel(n)' <=> InChannel(n)
        /\ AtConsumer(n)' <=> AtConsumer(n)
        /\ Answered(n)' <=> Answered(n)
        /\ Published(n)' <=> Published(n)
  BY <1>1, <1>2 DEF Held, InChannel, AtConsumer, Answered, Published
<1>4. \A s1, s2 \in Transports :
        holding'[s1].id # 0 /\ holding'[s1].id = holding'[s2].id => s1 = s2
  BY <1>2 DEF FateInv
<1>5. OneFate' /\ \A i, j \in DOMAIN inbound' : inbound'[i].id = inbound'[j].id => i = j
  BY <1>1 DEF FateInv, OneFate
<1> QED
  BY <1>1, <1>3, <1>4, <1>5 DEF FateInv

\* The head of the channel goes to the consumer.
LEMMA FateTake ==
  ASSUME TypeOK, FateInv, Take PROVE FateInv'
<1>1. /\ inbound \in Seq(Message) /\ inbound # <<>>
      /\ cur' = Head(inbound) /\ inbound' = Tail(inbound)
      /\ consumer = "idle" /\ consumer' = "deliver"
      /\ UNCHANGED <<nextId, holding, answer, published>>
  BY DEF Take, routeVars, TypeOK
<1>2. /\ DOMAIN inbound = 1..Len(inbound)
      /\ Len(inbound) \in Nat /\ Len(inbound) # 0
      /\ cur' = inbound[1]
      /\ DOMAIN inbound' = 1..(Len(inbound) - 1)
      /\ \A i \in 1..(Len(inbound) - 1) : inbound'[i] = inbound[i + 1]
  BY <1>1, HeadTailProperties, LenProperties, EmptySeq
<1>3. \A n \in Nat \ {0} :
        /\ Held(n)' <=> Held(n)
        /\ InChannel(n)' => InChannel(n)
        /\ AtConsumer(n)' => InChannel(n) /\ ~InChannel(n)'
        /\ Answered(n)' <=> Answered(n)
        /\ Published(n)' <=> Published(n)
  <2> SUFFICES ASSUME NEW n \in Nat \ {0}
               PROVE  /\ InChannel(n)' => InChannel(n)
                      /\ AtConsumer(n)' => InChannel(n) /\ ~InChannel(n)'
    BY <1>1 DEF Held, Answered, Published
  <2>1. \A i \in 1..(Len(inbound) - 1) : i + 1 \in DOMAIN inbound /\ i + 1 # 1
    BY <1>2
  <2>2. InChannel(n)' => InChannel(n)
    BY <1>2, <2>1 DEF InChannel
  <2>3. 1 \in DOMAIN inbound
    BY <1>2
  <2>4. AtConsumer(n)' => InChannel(n) /\ ~InChannel(n)'
    BY <1>2, <2>1, <2>3 DEF AtConsumer, InChannel, FateInv
  <2> QED
    BY <2>2, <2>4
<1>4. \A i, j \in DOMAIN inbound' : inbound'[i].id = inbound'[j].id => i = j
  <2>1. ASSUME NEW i \in DOMAIN inbound', NEW j \in DOMAIN inbound',
               inbound'[i].id = inbound'[j].id
        PROVE  i = j
    <3>1. /\ i + 1 \in DOMAIN inbound /\ j + 1 \in DOMAIN inbound
          /\ inbound[i + 1].id = inbound[j + 1].id
          /\ i \in Nat /\ j \in Nat
      BY <1>2, <2>1
    <3>2. i + 1 = j + 1
      BY <3>1 DEF FateInv
    <3> QED
      BY <3>1, <3>2
  <2> QED
    BY <2>1
<1>5. \A s, t \in Transports :
        holding'[s].id # 0 /\ holding'[s].id = holding'[t].id => s = t
  BY <1>1 DEF FateInv
<1>6. OneFate'
  BY <1>1 DEF FateInv, OneFate
<1>7. \A n \in Nat \ {0} :
        /\ (Held(n) \/ InChannel(n) \/ AtConsumer(n) \/ Answered(n) \/ Published(n))'
             => n < nextId'
        /\ Held(n)' => ~InChannel(n)' /\ ~AtConsumer(n)'
        /\ InChannel(n)' => ~AtConsumer(n)'
        /\ (Held(n) \/ InChannel(n) \/ AtConsumer(n))'
             => ~Answered(n)' /\ ~Published(n)'
  BY <1>1, <1>3 DEF FateInv
<1> QED
  BY <1>4, <1>5, <1>6, <1>7 DEF FateInv

\* The consumer's message answers a waiter that had none.
LEMMA FateResolve ==
  ASSUME TypeOK, WaiterInv, FateInv, ResolvePendingAsk PROVE FateInv'
<1> DEFINE w == Head(pendingAsk[cur.from])
<1>1. /\ w \in Askers /\ answer[w] = 0
      /\ cur.id \in Nat \ {0}
  <2>1. /\ cur.from \in Users
        /\ pendingAsk[cur.from] \in Seq(Askers)
        /\ pendingAsk[cur.from] # <<>>
        /\ cur.id \in Nat /\ cur.id # 0
    BY DEF ResolvePendingAsk, Answer, CanAnswer, TypeOK, Message, WaiterInv, RealIds
  <2>2. w = pendingAsk[cur.from][1] /\ 1 \in DOMAIN pendingAsk[cur.from]
        /\ w \in Askers
    BY <2>1, HeadTailProperties, LenProperties, EmptySeq
  <2> QED
    BY <2>1, <2>2 DEF WaiterInv, QueuesExact, Owed
<1>2. /\ answer' = [answer EXCEPT ![w] = cur.id]
      /\ consumer = "deliver" /\ consumer' = "answer"
      /\ UNCHANGED <<nextId, holding, inbound, published>>
  BY DEF ResolvePendingAsk, Answer, feedVars
<1> HIDE DEF w
<1>3. /\ answer'[w] = cur.id
      /\ \A b \in Askers : b # w => answer'[b] = answer[b]
  BY <1>1, <1>2 DEF TypeOK
<1>4. /\ AtConsumer(cur.id) /\ ~Answered(cur.id) /\ ~Published(cur.id)
      /\ ~Held(cur.id) /\ ~InChannel(cur.id) /\ cur.id < nextId
  BY <1>1, <1>2 DEF FateInv, AtConsumer
<1>5. \A n \in Nat \ {0} :
        /\ Held(n)' <=> Held(n)
        /\ InChannel(n)' <=> InChannel(n)
        /\ ~AtConsumer(n)'
        /\ Answered(n)' <=> Answered(n) \/ n = cur.id
        /\ Published(n)' <=> Published(n)
  BY <1>1, <1>2, <1>3 DEF Held, InChannel, AtConsumer, Answered, Published
<1>6. OneFate'
  BY <1>1, <1>2, <1>3, <1>4 DEF FateInv, OneFate, Answered, Published
<1>7. \A n \in Nat \ {0} :
        /\ (Held(n) \/ InChannel(n) \/ AtConsumer(n) \/ Answered(n) \/ Published(n))'
             => n < nextId'
        /\ Held(n)' => ~InChannel(n)' /\ ~AtConsumer(n)'
        /\ InChannel(n)' => ~AtConsumer(n)'
        /\ (Held(n) \/ InChannel(n) \/ AtConsumer(n))'
             => ~Answered(n)' /\ ~Published(n)'
  BY <1>2, <1>4, <1>5 DEF FateInv
<1>8. /\ \A s, t \in Transports :
           holding'[s].id # 0 /\ holding'[s].id = holding'[t].id => s = t
      /\ \A i, j \in DOMAIN inbound' : inbound'[i].id = inbound'[j].id => i = j
  BY <1>2 DEF FateInv
<1> QED
  BY <1>6, <1>7, <1>8 DEF FateInv

\* The consumer's message is published.
LEMMA FateSnapshot ==
  ASSUME TypeOK, WaiterInv, FateInv, Snapshot PROVE FateInv'
<1>1. /\ cur.id \in Nat \ {0}
      /\ published \in Seq(Nat)
      /\ published' = Append(published, cur.id)
      /\ consumer = "deliver" /\ consumer' = "broadcast"
      /\ UNCHANGED <<nextId, holding, inbound, answer>>
  BY DEF Snapshot, feedVars, TypeOK, Message, WaiterInv, RealIds
<1>2. /\ DOMAIN published = 1..Len(published) /\ Len(published) \in Nat
      /\ DOMAIN published' = 1..(Len(published) + 1)
      /\ \A i \in 1..Len(published) : published'[i] = published[i]
      /\ published'[Len(published) + 1] = cur.id
  BY <1>1, AppendProperties, LenProperties
<1>3. /\ AtConsumer(cur.id) /\ ~Answered(cur.id) /\ ~Published(cur.id)
      /\ ~Held(cur.id) /\ ~InChannel(cur.id) /\ cur.id < nextId
  BY <1>1 DEF FateInv, AtConsumer
<1>4. \A n \in Nat \ {0} :
        /\ Held(n)' <=> Held(n)
        /\ InChannel(n)' <=> InChannel(n)
        /\ ~AtConsumer(n)'
        /\ Answered(n)' <=> Answered(n)
        /\ Published(n)' <=> Published(n) \/ n = cur.id
  BY <1>1, <1>2 DEF Held, InChannel, AtConsumer, Answered, Published
<1>5. OneFate'
  <2>1. \A i \in DOMAIN published' :
          (i \in DOMAIN published /\ published'[i] = published[i])
          \/ (i = Len(published) + 1 /\ published'[i] = cur.id)
    BY <1>2
  <2>2. ASSUME NEW i \in DOMAIN published', NEW a \in Askers
        PROVE  answer[a] # published'[i]
    BY <1>3, <2>1 DEF FateInv, OneFate, Answered
  <2>3. ASSUME NEW i \in DOMAIN published', NEW j \in DOMAIN published',
               published'[j] = published'[i]
        PROVE  j = i
    BY <1>3, <2>1, <2>3 DEF FateInv, OneFate, Published
  <2> QED
    BY <1>1, <2>2, <2>3 DEF FateInv, OneFate
<1>6. \A n \in Nat \ {0} :
        /\ (Held(n) \/ InChannel(n) \/ AtConsumer(n) \/ Answered(n) \/ Published(n))'
             => n < nextId'
        /\ Held(n)' => ~InChannel(n)' /\ ~AtConsumer(n)'
        /\ InChannel(n)' => ~AtConsumer(n)'
        /\ (Held(n) \/ InChannel(n) \/ AtConsumer(n))'
             => ~Answered(n)' /\ ~Published(n)'
  BY <1>1, <1>3, <1>4 DEF FateInv
<1>7. /\ \A s, t \in Transports :
           holding'[s].id # 0 /\ holding'[s].id = holding'[t].id => s = t
      /\ \A i, j \in DOMAIN inbound' : inbound'[i].id = inbound'[j].id => i = j
  BY <1>1 DEF FateInv
<1> QED
  BY <1>5, <1>6, <1>7 DEF FateInv

\* Every step leaves each message one fate.
LEMMA NextFate == TypeOK /\ WaiterInv /\ FateInv /\ [Next]_vars => FateInv'
<1> SUFFICES ASSUME TypeOK, WaiterInv, FateInv, [Next]_vars PROVE FateInv'
  OBVIOUS
<1>1. CASE Feed
  BY <1>1, FateReceive, FatePush, FateDrop DEF Feed
<1>2. CASE Consumer
  <2>1. CASE Broadcasted
    BY <2>1, FateFrame DEF Broadcasted, feedVars, routeVars
  <2>2. ASSUME NEW a \in Askers, SendReply(a) PROVE FateInv'
    BY <2>2, FateFrame DEF SendReply, feedVars, routeVars
  <2>3. ASSUME NEW s \in Subs, PushEvent(s) PROVE FateInv'
    BY <2>3, FateFrame DEF PushEvent, feedVars
  <2> QED
    BY <1>2, <2>1, <2>2, <2>3, FateTake, FateResolve, FateSnapshot DEF Consumer
<1>3. ASSUME NEW a \in Askers, AskHandler(a) \/ AskClientLeaves(a)
      PROVE  FateInv'
  BY <1>3, FateFrame DEF AskHandler, AskResolve, AskSend, AskListen, AskFail,
     AskRegister, AskReply, AskGone, RemovePending, AskClientLeaves, feedVars,
     consVars, routeVars
<1>4. ASSUME NEW s \in Subs, SubHandler(s) \/ SubClientLeaves(s)
      PROVE  FateInv'
  BY <1>4, FateFrame DEF SubHandler, Subscribe, WriteEvent, SeeDone,
     RemoveSubscriber, SubClientLeaves, feedVars, consVars, routeVars
<1>5. CASE UNCHANGED vars
  BY <1>5, FateFrame DEF vars, feedVars, consVars, routeVars
<1> QED
  BY <1>1, <1>2, <1>3, <1>4, <1>5 DEF Next

\* No message answers two asks, is broadcast twice, or both answers an ask and
\* is broadcast.
THEOREM OneFateHolds == Spec => []OneFate
<1>1. FateInv => OneFate
  BY DEF FateInv
<1> QED
  BY <1>1, InitFate, InitWaiter, NextFate, NextWaiter, TypeCorrect, PTL DEF Spec

-----------------------------------------------------------------------------
(* Subscribers.  A channel is registered from the handler's first step to  *)
(* its last.                                                               *)

\* No step leaves a channel behind.
LEMMA NextSubscriber ==
  TypeOK /\ NoStaleSubscriber /\ [Next]_vars => NoStaleSubscriber'
<1> SUFFICES ASSUME TypeOK, NoStaleSubscriber, [Next]_vars
             PROVE  NoStaleSubscriber'
  OBVIOUS
<1> USE DEF NoStaleSubscriber
<1>1. CASE UNCHANGED <<subscribers, subPc, subRole>>
  BY <1>1
<1>2. CASE Feed \/ Consumer
  BY <1>1, <1>2 DEF Feed, Receive, PushInbound, DropInbound, Consumer, Take,
     ResolvePendingAsk, SendReply, Snapshot, PushEvent, Broadcasted, subVars
<1>3. ASSUME NEW a \in Askers, AskHandler(a) \/ AskClientLeaves(a)
      PROVE  NoStaleSubscriber'
  BY <1>1, <1>3 DEF AskHandler, AskResolve, AskSend, AskListen, AskFail,
     AskRegister, AskReply, AskGone, RemovePending, AskClientLeaves, subVars
<1>4. ASSUME NEW s \in Subs, SubHandler(s) \/ SubClientLeaves(s)
      PROVE  NoStaleSubscriber'
  <2> USE DEF TypeOK
  <2>1. ASSUME NEW r \in Roles, Subscribe(s, r) PROVE NoStaleSubscriber'
    BY <2>1 DEF Subscribe
  <2>2. ASSUME WriteEvent(s) PROVE NoStaleSubscriber'
    <3>1. /\ subPc[s] = "serving"
          /\ subPc' = subPc \/ subPc' = [subPc EXCEPT ![s] = "leaving"]
      BY <2>2 DEF WriteEvent
    <3>2. UNCHANGED <<subscribers, subRole>>
      BY <2>2 DEF WriteEvent
    <3>3. subPc \in [Subs -> SubStates]
      OBVIOUS
    <3> QED
      BY <3>1, <3>2, <3>3
  <2>3. ASSUME SeeDone(s) \/ SubClientLeaves(s) PROVE NoStaleSubscriber'
    <3>1. CASE SeeDone(s)
      <4>1. /\ subPc[s] = "serving"
            /\ subPc' = [subPc EXCEPT ![s] = "leaving"]
            /\ UNCHANGED <<subscribers, subRole>>
        BY <3>1 DEF SeeDone, SubMove
      <4>2. subPc \in [Subs -> SubStates]
        OBVIOUS
      <4> QED
        BY <4>1, <4>2
    <3>2. CASE SubClientLeaves(s)
      BY <1>1, <3>2 DEF SubClientLeaves
    <3> QED
      BY <2>3, <3>1, <3>2
  <2>4. ASSUME RemoveSubscriber(s) PROVE NoStaleSubscriber'
    BY <2>4 DEF RemoveSubscriber
  <2> QED
    BY <1>4, <2>1, <2>2, <2>3, <2>4 DEF SubHandler
<1>5. CASE UNCHANGED vars
  BY <1>1, <1>5 DEF vars, subVars
<1> QED
  BY <1>2, <1>3, <1>4, <1>5 DEF Next

\* subscribe.go: the deferred removeSubscriber finds its channel under the role
\* it was added under: no handler that has ended is still broadcast to.
THEOREM SubscribersForgotten == Spec => []NoStaleSubscriber
<1>1. Init => NoStaleSubscriber
  BY DEF Init, NoStaleSubscriber
<1> QED
  BY <1>1, NextSubscriber, TypeCorrect, PTL DEF Spec

-----------------------------------------------------------------------------
(* The order of answers.  The messages that can answer an ask come through *)
(* one receive loop, so they reach the consumer in the order of their ids, *)
(* whatever the other loops push between them.                             *)

StreamInv ==
  /\ \A t \in Transports : holding[t].id # 0 => holding[t].via = t
  /\ \A i, j \in DOMAIN inbound :
       i < j /\ inbound[i].via = Telegram /\ inbound[j].via = Telegram =>
         inbound[i].id < inbound[j].id
  /\ \A i \in DOMAIN inbound :
       inbound[i].via = Telegram =>
         /\ \A a \in Askers : answer[a] < inbound[i].id
         /\ holding[Telegram].id # 0 => inbound[i].id < holding[Telegram].id
  /\ consumer = "deliver" /\ cur.via = Telegram =>
       /\ \A a \in Askers : answer[a] < cur.id
       /\ \A i \in DOMAIN inbound :
            inbound[i].via = Telegram => cur.id < inbound[i].id
       /\ holding[Telegram].id # 0 => cur.id < holding[Telegram].id
  /\ \A a \in Askers :
       holding[Telegram].id # 0 => answer[a] < holding[Telegram].id

\* Every id that was given is below the next.
LEMMA IdsBelow ==
  ASSUME TypeOK, RealIds, FateInv
  PROVE  /\ \A i \in DOMAIN inbound : inbound[i].id < nextId
         /\ consumer = "deliver" => cur.id < nextId
         /\ \A a \in Askers : answer[a] < nextId
<1>1. \A i \in DOMAIN inbound : inbound[i].id \in Nat \ {0}
  <2>1. inbound \in Seq(Message)
    BY DEF TypeOK
  <2>2. \A i \in DOMAIN inbound : inbound[i] \in Message
    BY <2>1, ElementOfSeq, LenProperties
  <2>3. \A m \in Message : m.id \in Nat
    BY DEF Message
  <2> QED
    BY <2>2, <2>3 DEF RealIds
<1>2. consumer = "deliver" => cur.id \in Nat \ {0}
  BY DEF TypeOK, RealIds, Message
<1>3. nextId \in Nat \ {0} /\ answer \in [Askers -> Nat]
  BY DEF TypeOK
<1>4. \A i \in DOMAIN inbound : InChannel(inbound[i].id)
  BY DEF InChannel
<1>5. consumer = "deliver" => AtConsumer(cur.id)
  BY DEF AtConsumer
<1>6. \A a \in Askers : answer[a] # 0 => Answered(answer[a])
  BY DEF Answered
<1> QED
  BY <1>1, <1>2, <1>3, <1>4, <1>5, <1>6 DEF FateInv

\* No message is under way at first.
LEMMA InitStream == Init => StreamInv
  BY HubAssumption, NoMsgType DEF Init, StreamInv

\* A new message is the latest.
LEMMA StreamReceive ==
  ASSUME TypeOK, RealIds, FateInv, StreamInv, NEW t \in Transports,
         NEW u \in Users, Receive(t, u)
  PROVE  StreamInv'
<1>1. /\ holding' = [holding EXCEPT ![t] = [id |-> nextId, via |-> t, from |-> u]]
      /\ UNCHANGED <<inbound, consumer, cur, answer>>
  BY DEF Receive, consVars, routeVars
<1>2. /\ holding'[t].id = nextId /\ holding'[t].via = t
      /\ \A s \in Transports : s # t => holding'[s] = holding[s]
  BY <1>1 DEF TypeOK
<1>3. Telegram \in Transports
  BY HubAssumption
<1>4. \A s \in Transports : holding'[s].id # 0 => holding'[s].via = s
  BY <1>2 DEF StreamInv
<1>5. CASE t = Telegram
  BY <1>1, <1>2, <1>4, <1>5, IdsBelow DEF StreamInv
<1>6. CASE t # Telegram
  BY <1>1, <1>2, <1>3, <1>4, <1>6 DEF StreamInv
<1> QED
  BY <1>5, <1>6

\* It goes to the end of the channel.
LEMMA StreamPush ==
  ASSUME TypeOK, StreamInv, NEW t \in Transports, PushInbound(t)
  PROVE  StreamInv'
<1> DEFINE m == holding[t]
<1>1. /\ m.id # 0 /\ m \in Message
      /\ inbound' = Append(inbound, m)
      /\ holding' = [holding EXCEPT ![t] = NoMsg]
      /\ UNCHANGED <<consumer, cur, answer>>
      /\ inbound \in Seq(Message)
  BY DEF PushInbound, consVars, routeVars, TypeOK
<1>2. /\ holding'[t].id = 0
      /\ \A s \in Transports : s # t => holding'[s] = holding[s]
  BY <1>1, NoMsgType DEF TypeOK
<1>3. /\ Len(inbound) \in Nat
      /\ DOMAIN inbound = 1..Len(inbound)
      /\ DOMAIN inbound' = 1..(Len(inbound) + 1)
      /\ \A i \in 1..Len(inbound) : inbound'[i] = inbound[i]
      /\ inbound'[Len(inbound) + 1] = m
  BY <1>1, AppendProperties, LenProperties
<1>4. Telegram \in Transports /\ (m.via = Telegram => t = Telegram)
  BY <1>1, HubAssumption DEF StreamInv
<1>5. \A i \in DOMAIN inbound' :
        \/ i \in DOMAIN inbound /\ inbound'[i] = inbound[i]
        \/ i = Len(inbound) + 1 /\ inbound'[i] = m
  BY <1>3
<1>6. \A s \in Transports : holding'[s].id # 0 => holding'[s].via = s
  BY <1>2 DEF StreamInv
<1>7. m.via = Telegram =>
        /\ \A i \in DOMAIN inbound :
             inbound[i].via = Telegram => inbound[i].id < m.id
        /\ \A a \in Askers : answer[a] < m.id
        /\ consumer = "deliver" /\ cur.via = Telegram => cur.id < m.id
        /\ holding'[Telegram].id = 0
  BY <1>1, <1>2, <1>4 DEF StreamInv
<1>8. m.via # Telegram /\ holding'[Telegram].id # 0 =>
        holding'[Telegram] = holding[Telegram]
  BY <1>2, <1>4
<1> HIDE DEF m
<1>9. ASSUME NEW i \in DOMAIN inbound', NEW j \in DOMAIN inbound', i < j,
             inbound'[i].via = Telegram, inbound'[j].via = Telegram
      PROVE  inbound'[i].id < inbound'[j].id
  <2>1. i \in DOMAIN inbound /\ inbound'[i] = inbound[i]
    BY <1>3, <1>9
  <2>2. CASE j \in DOMAIN inbound
    BY <1>3, <1>9, <2>1, <2>2 DEF StreamInv
  <2>3. CASE j = Len(inbound) + 1
    BY <1>3, <1>7, <1>9, <2>1, <2>3
  <2> QED
    BY <1>5, <2>2, <2>3
<1>10. ASSUME NEW i \in DOMAIN inbound', inbound'[i].via = Telegram
       PROVE  /\ \A a \in Askers : answer'[a] < inbound'[i].id
              /\ holding'[Telegram].id # 0 =>
                   inbound'[i].id < holding'[Telegram].id
              /\ consumer = "deliver" /\ cur.via = Telegram =>
                   cur.id < inbound'[i].id
  <2>1. CASE inbound'[i] = m
    BY <1>1, <1>7, <1>10, <2>1
  <2>2. CASE i \in DOMAIN inbound /\ inbound'[i] = inbound[i]
    BY <1>1, <1>2, <1>4, <1>10, <2>2 DEF StreamInv
  <2> QED
    BY <1>5, <2>1, <2>2
<1>11. /\ \A a \in Askers : holding'[Telegram].id # 0 => answer'[a] < holding'[Telegram].id
       /\ consumer = "deliver" /\ cur.via = Telegram =>
            /\ \A a \in Askers : answer'[a] < cur.id
            /\ holding'[Telegram].id # 0 => cur.id < holding'[Telegram].id
  BY <1>1, <1>2, <1>4 DEF StreamInv
<1> QED
  BY <1>1, <1>6, <1>9, <1>10, <1>11 DEF StreamInv

\* One that is dropped is no longer there.
LEMMA StreamDrop ==
  ASSUME TypeOK, StreamInv, NEW t \in Transports, DropInbound(t)
  PROVE  StreamInv'
<1>1. /\ holding' = [holding EXCEPT ![t] = NoMsg]
      /\ UNCHANGED <<inbound, consumer, cur, answer>>
  BY DEF DropInbound, consVars, routeVars
<1>2. \A s \in Transports : holding'[s].id # 0 => holding'[s] = holding[s]
  BY <1>1, NoMsgType DEF TypeOK
<1>3. Telegram \in Transports
  BY HubAssumption
<1> QED
  BY <1>1, <1>2, <1>3 DEF StreamInv

\* The head of the channel is the earliest.
LEMMA StreamTake ==
  ASSUME TypeOK, StreamInv, Take PROVE StreamInv'
<1>1. /\ inbound \in Seq(Message) /\ inbound # <<>>
      /\ cur' = Head(inbound) /\ inbound' = Tail(inbound)
      /\ UNCHANGED <<holding, answer>>
  BY DEF Take, routeVars, TypeOK
<1>2. /\ DOMAIN inbound = 1..Len(inbound)
      /\ Len(inbound) \in Nat /\ Len(inbound) # 0
      /\ cur' = inbound[1]
      /\ DOMAIN inbound' = 1..(Len(inbound) - 1)
      /\ \A i \in 1..(Len(inbound) - 1) : inbound'[i] = inbound[i + 1]
  BY <1>1, HeadTailProperties, LenProperties, EmptySeq
<1>3. \A i \in DOMAIN inbound' :
        /\ i + 1 \in DOMAIN inbound /\ 1 < i + 1 /\ i \in Nat
        /\ inbound'[i] = inbound[i + 1]
  BY <1>2
<1>4. 1 \in DOMAIN inbound
  BY <1>2
<1>5. ASSUME NEW i \in DOMAIN inbound', NEW j \in DOMAIN inbound', i < j,
             inbound'[i].via = Telegram, inbound'[j].via = Telegram
      PROVE  inbound'[i].id < inbound'[j].id
  <2>1. i + 1 < j + 1
    BY <1>3, <1>5
  <2> QED
    BY <1>3, <1>5, <2>1 DEF StreamInv
<1> QED
  BY <1>1, <1>2, <1>3, <1>4, <1>5 DEF StreamInv

\* What it answers a waiter with is below all that is to come.
LEMMA StreamResolve ==
  ASSUME TypeOK, StreamInv, ResolvePendingAsk PROVE StreamInv'
<1>1. /\ consumer = "deliver" /\ cur.via = Telegram /\ consumer' = "answer"
      /\ UNCHANGED <<holding, inbound>>
  BY DEF ResolvePendingAsk, CanAnswer, feedVars
<1>2. \A a \in Askers : answer'[a] \in {answer[a], cur.id}
  BY DEF ResolvePendingAsk, TypeOK
<1> QED
  BY <1>1, <1>2 DEF StreamInv

\* Every other step leaves the stream alone.
LEMMA StreamFrame ==
  ASSUME StreamInv, UNCHANGED <<holding, inbound, answer>>,
         consumer' = "deliver" => consumer = "deliver" /\ cur' = cur
  PROVE  StreamInv'
  BY DEF StreamInv

\* Every step keeps the stream in order.
LEMMA NextStream ==
  TypeOK /\ RealIds /\ FateInv /\ StreamInv /\ [Next]_vars => StreamInv'
<1> SUFFICES ASSUME TypeOK, RealIds, FateInv, StreamInv, [Next]_vars
             PROVE  StreamInv'
  OBVIOUS
<1>1. CASE Feed
  BY <1>1, StreamReceive, StreamPush, StreamDrop DEF Feed
<1>2. CASE Consumer
  <2>1. CASE Broadcasted \/ Snapshot
    BY <2>1, StreamFrame DEF Broadcasted, Snapshot, feedVars, routeVars
  <2>2. ASSUME NEW a \in Askers, SendReply(a) PROVE StreamInv'
    BY <2>2, StreamFrame DEF SendReply, feedVars, routeVars
  <2>3. ASSUME NEW s \in Subs, PushEvent(s) PROVE StreamInv'
    BY <2>3, StreamFrame DEF PushEvent, feedVars
  <2> QED
    BY <1>2, <2>1, <2>2, <2>3, StreamTake, StreamResolve DEF Consumer
<1>3. ASSUME NEW a \in Askers, AskHandler(a) \/ AskClientLeaves(a)
      PROVE  StreamInv'
  BY <1>3, StreamFrame DEF AskHandler, AskResolve, AskSend, AskListen, AskFail,
     AskRegister, AskReply, AskGone, RemovePending, AskClientLeaves, feedVars,
     consVars, routeVars
<1>4. ASSUME NEW s \in Subs, SubHandler(s) \/ SubClientLeaves(s)
      PROVE  StreamInv'
  BY <1>4, StreamFrame DEF SubHandler, Subscribe, WriteEvent, SeeDone,
     RemoveSubscriber, SubClientLeaves, feedVars, consVars, routeVars
<1>5. CASE UNCHANGED vars
  BY <1>5, StreamFrame DEF vars, feedVars, consVars, routeVars
<1> QED
  BY <1>1, <1>2, <1>3, <1>4, <1>5 DEF Next

-----------------------------------------------------------------------------
(* The order of waiters.  A queue is in the order its waiters registered.  *)

OrderInv ==
  /\ \A i \in DOMAIN askOrder : ~Fresh(askOrder[i])
  /\ \A i, j \in DOMAIN askOrder : askOrder[i] = askOrder[j] => i = j
  /\ \A a \in Askers : askPc[a] = "replied" => answer[a] # 0
  /\ \A u \in Users : \A p, q \in DOMAIN pendingAsk[u] :
       \A i, j \in DOMAIN askOrder :
         p < q /\ askOrder[i] = pendingAsk[u][p] /\ askOrder[j] = pendingAsk[u][q]
           => i < j
  /\ OldestFirst

\* Nobody has registered at first.
LEMMA InitOrder == Init => OrderInv
  BY DEF Init, OrderInv, OldestFirst

\* Who has registered is an asker.
LEMMA Registered ==
  ASSUME TypeOK
  PROVE  /\ DOMAIN askOrder = 1..Len(askOrder) /\ Len(askOrder) \in Nat
         /\ \A i \in DOMAIN askOrder : askOrder[i] \in Askers
  BY ElementOfSeq, LenProperties DEF TypeOK

\* Steps that touch neither the waiters nor their answers.
LEMMA OrderFrame ==
  ASSUME OrderInv, UNCHANGED <<askOrder, pendingAsk, askPc, askUser, answer>>
  PROVE  OrderInv'
  BY DEF OrderInv, OldestFirst, Fresh

\* Steps of a handler before it registers, and out of its wait.
LEMMA OrderMove ==
  ASSUME TypeOK, OrderInv, NEW a \in Askers,
         UNCHANGED <<askOrder, pendingAsk, answer>>,
         NEW st, askPc' = [askPc EXCEPT ![a] = st],
         \/ Fresh(a) /\ st \in {"resolved", "sent", "failed"}
         \/ askPc[a] = "waiting" /\ st = "leaving" /\ askUser' = askUser
         \/ askPc[a] = "waiting" /\ st = "replied" /\ askUser' = askUser
              /\ answer[a] # 0,
         \A b \in Askers : b # a => askUser'[b] = askUser[b]
  PROVE  OrderInv'
<1>1. \A i \in DOMAIN askOrder :
        /\ askOrder[i] \in Askers
        /\ askUser'[askOrder[i]] = askUser[askOrder[i]]
        /\ ~Fresh(askOrder[i])'
        /\ askPc[askOrder[i]] = "gone" => askPc'[askOrder[i]] = "gone"
  BY Registered DEF OrderInv, Fresh, TypeOK
<1>2. \A b \in Askers : askPc'[b] = "replied" => answer'[b] # 0
  BY DEF OrderInv, TypeOK
<1>3. OldestFirst'
  BY <1>1 DEF OrderInv, OldestFirst
<1> QED
  BY <1>1, <1>2, <1>3 DEF OrderInv

\* The last to register is the last in its queue.
LEMMA OrderRegister ==
  ASSUME TypeOK, WaiterInv, OrderInv, NEW a \in Askers, AskRegister(a)
  PROVE  OrderInv'
<1> DEFINE u == askUser[a]
           queue == pendingAsk[u]
           n == Len(askOrder) + 1
<1>1. /\ askPc[a] = "sent"
      /\ askPc' = [askPc EXCEPT ![a] = "waiting"]
      /\ pendingAsk' = [pendingAsk EXCEPT ![u] = Append(queue, a)]
      /\ askOrder' = Append(askOrder, a)
      /\ UNCHANGED <<askUser, answer>>
  BY DEF AskRegister, routeVars
<1>2. u \in Users /\ queue \in Seq(Askers) /\ askOrder \in Seq(Askers)
  BY DEF TypeOK
<1>3. /\ Len(queue) \in Nat
      /\ DOMAIN queue = 1..Len(queue)
      /\ DOMAIN Append(queue, a) = 1..(Len(queue) + 1)
      /\ \A i \in 1..Len(queue) : Append(queue, a)[i] = queue[i]
      /\ Append(queue, a)[Len(queue) + 1] = a
  BY <1>2, AppendProperties, LenProperties
<1>4. /\ DOMAIN askOrder' = 1..n /\ n \in Nat
      /\ \A i \in DOMAIN askOrder : askOrder'[i] = askOrder[i] /\ i < n
      /\ askOrder'[n] = a
      /\ \A i \in DOMAIN askOrder' : i \in DOMAIN askOrder \/ i = n
  BY <1>1, <1>2, Registered, AppendProperties, LenProperties
<1>5. \A i \in DOMAIN askOrder : askOrder[i] # a /\ askOrder[i] \in Askers
  BY <1>1, Registered DEF OrderInv, Fresh
<1>6. \A v \in Users : \A p \in DOMAIN pendingAsk[v] : pendingAsk[v][p] # a
  BY <1>1 DEF WaiterInv, QueuesExact, Owed
<1>7. answer[a] = 0
  BY <1>1 DEF WaiterInv, Fresh
<1> HIDE DEF n, queue, u
<1>8. /\ \A i \in DOMAIN askOrder' : ~Fresh(askOrder[i])'
      /\ \A i, j \in DOMAIN askOrder' : askOrder'[i] = askOrder'[j] => i = j
      /\ \A b \in Askers : askPc'[b] = "replied" => answer'[b] # 0
  <2>1. ~Fresh(a)' /\ \A b \in Askers : b # a => (Fresh(b)' <=> Fresh(b))
    BY <1>1 DEF Fresh, TypeOK
  <2>2. \A i \in DOMAIN askOrder' : ~Fresh(askOrder[i])'
    BY <1>4, <1>5, <2>1 DEF OrderInv, Fresh
  <2>3. \A i, j \in DOMAIN askOrder' : askOrder'[i] = askOrder'[j] => i = j
    BY <1>4, <1>5 DEF OrderInv
  <2> QED
    BY <1>1, <2>2, <2>3 DEF OrderInv, TypeOK
<1>9. ASSUME NEW v \in Users, NEW p \in DOMAIN pendingAsk'[v],
             NEW q \in DOMAIN pendingAsk'[v],
             NEW i \in DOMAIN askOrder', NEW j \in DOMAIN askOrder', p < q,
             askOrder'[i] = pendingAsk'[v][p], askOrder'[j] = pendingAsk'[v][q]
      PROVE  i < j
  <2>1. CASE p \in DOMAIN pendingAsk[v] /\ q \in DOMAIN pendingAsk[v]
             /\ pendingAsk'[v][p] = pendingAsk[v][p]
             /\ pendingAsk'[v][q] = pendingAsk[v][q]
    <3>1. i \in DOMAIN askOrder /\ j \in DOMAIN askOrder
      BY <1>4, <1>6, <1>9, <2>1
    <3> QED
      BY <1>4, <1>9, <2>1, <3>1 DEF OrderInv
  <2>2. CASE v = u /\ p \in DOMAIN queue /\ q = Len(queue) + 1
    <3>1. pendingAsk'[v][q] = a /\ pendingAsk'[v][p] = pendingAsk[v][p]
          /\ p \in DOMAIN pendingAsk[v]
      BY <1>1, <1>2, <1>3, <2>2 DEF TypeOK, queue
    <3>2. j = n
      BY <1>4, <1>5, <1>9, <3>1
    <3>3. i # n
      BY <1>4, <1>6, <1>9, <3>1
    <3> QED
      BY <1>4, <3>2, <3>3
  <2>3. CASE v # u
    <3>1. pendingAsk'[v] = pendingAsk[v]
      BY <1>1, <2>3 DEF TypeOK
    <3> QED
      BY <2>1, <3>1
  <2>4. CASE v = u
    <3>1. pendingAsk'[v] = Append(queue, a) /\ pendingAsk[v] = queue
      BY <1>1, <1>2, <2>4 DEF TypeOK, queue
    <3>2. p \in DOMAIN queue /\ (q \in DOMAIN queue \/ q = Len(queue) + 1)
      BY <1>3, <1>9, <3>1
    <3>3. \A x \in DOMAIN queue : pendingAsk'[v][x] = pendingAsk[v][x]
      BY <1>3, <3>1
    <3> QED
      BY <2>1, <2>2, <2>4, <3>1, <3>2, <3>3
  <2> QED
    BY <2>3, <2>4
<1>10. OldestFirst'
  <2>1. ASSUME NEW i \in DOMAIN askOrder', NEW j \in DOMAIN askOrder', i < j,
               answer'[askOrder'[j]] # 0
        PROVE  i \in DOMAIN askOrder /\ j \in DOMAIN askOrder
    BY <1>1, <1>4, <1>7, <2>1, Registered
  <2>2. \A i \in DOMAIN askOrder : askPc'[askOrder[i]] = askPc[askOrder[i]]
    BY <1>1, <1>5 DEF TypeOK
  <2> QED
    BY <1>1, <1>4, <2>1, <2>2 DEF OrderInv, OldestFirst
<1> QED
  BY <1>8, <1>9, <1>10 DEF OrderInv

\* One that leaves its queue leaves the others in order.
LEMMA OrderRemove ==
  ASSUME TypeOK, OrderInv, NEW a \in Askers, RemovePending(a)
  PROVE  OrderInv'
<1> DEFINE u == askUser[a]
           queue == pendingAsk[u]
<1>1. /\ askPc' = [askPc EXCEPT ![a] = "gone"]
      /\ UNCHANGED <<askUser, answer, askOrder>>
  BY DEF RemovePending, routeVars
<1>2. \A b \in Askers : /\ askPc[b] = "gone" => askPc'[b] = "gone"
                        /\ Fresh(b)' => Fresh(b)
                        /\ askPc'[b] = "replied" => askPc[b] = "replied"
  BY <1>1 DEF Fresh, TypeOK
<1>3. ASSUME NEW v \in Users, NEW p \in DOMAIN pendingAsk'[v],
             NEW q \in DOMAIN pendingAsk'[v],
             NEW i \in DOMAIN askOrder, NEW j \in DOMAIN askOrder, p < q,
             askOrder[i] = pendingAsk'[v][p], askOrder[j] = pendingAsk'[v][q]
      PROVE  i < j
  <2>1. CASE pendingAsk'[v] = pendingAsk[v]
    BY <1>3, <2>1 DEF OrderInv
  <2>2. ASSUME NEW k \in DOMAIN queue, v = u,
               pendingAsk' = [pendingAsk EXCEPT ![u] = RemoveAt(queue, k)]
        PROVE  i < j
    <3>1. queue \in Seq(Askers) /\ u \in Users
      BY DEF TypeOK
    <3>2. pendingAsk'[v] = RemoveAt(queue, k)
      BY <2>2, <3>1 DEF TypeOK
    <3> HIDE DEF queue
    <3> DEFINE old(x) == IF x < k THEN x ELSE x + 1
    <3>3. /\ DOMAIN queue = 1..Len(queue) /\ Len(queue) \in Nat
          /\ DOMAIN RemoveAt(queue, k) = 1..(Len(queue) - 1)
          /\ \A x \in 1..(Len(queue) - 1) :
               RemoveAt(queue, k)[x] = IF x < k THEN queue[x] ELSE queue[x + 1]
      BY <3>1, RemoveAtFacts, LenProperties
    <3>4. /\ p \in 1..(Len(queue) - 1) /\ q \in 1..(Len(queue) - 1)
          /\ old(p) \in DOMAIN queue /\ old(q) \in DOMAIN queue
          /\ old(p) < old(q)
      BY <1>3, <3>2, <3>3
    <3>5. pendingAsk'[v][p] = queue[old(p)] /\ pendingAsk'[v][q] = queue[old(q)]
      BY <3>2, <3>3, <3>4
    <3> HIDE DEF old
    <3> QED
      BY <1>3, <2>2, <3>1, <3>4, <3>5 DEF OrderInv, queue
  <2>3. ASSUME NEW k \in DOMAIN queue, v # u,
               pendingAsk' = [pendingAsk EXCEPT ![u] = RemoveAt(queue, k)]
        PROVE  pendingAsk'[v] = pendingAsk[v]
    BY <2>3 DEF TypeOK
  <2> QED
    BY <2>1, <2>2, <2>3 DEF RemovePending
<1>4. OldestFirst'
  BY <1>1, <1>2, Registered DEF OrderInv, OldestFirst
<1>5. \A i \in DOMAIN askOrder' : ~Fresh(askOrder[i])'
  BY <1>1, <1>2, Registered DEF OrderInv, Fresh
<1> QED
  BY <1>1, <1>2, <1>3, <1>4, <1>5 DEF OrderInv

\* The oldest waiter is answered: those that registered before it have answers,
\* and earlier ones, or have gone.
LEMMA OrderResolve ==
  ASSUME TypeOK, WaiterInv, StreamInv, OrderInv, ResolvePendingAsk
  PROVE  OrderInv'
<1> DEFINE u == cur.from
           queue == pendingAsk[u]
           w == Head(queue)
<1>1. /\ u \in Users /\ queue \in Seq(Askers) /\ queue # <<>>
      /\ cur.id \in Nat /\ cur.id # 0
      /\ consumer = "deliver" /\ cur.via = Telegram
  BY DEF ResolvePendingAsk, CanAnswer, TypeOK, Message, WaiterInv, RealIds
<1>2. /\ w = queue[1] /\ w \in Askers
      /\ DOMAIN queue = 1..Len(queue)
      /\ DOMAIN Tail(queue) = 1..(Len(queue) - 1)
      /\ \A i \in 1..(Len(queue) - 1) : Tail(queue)[i] = queue[i + 1]
      /\ Len(queue) \in Nat /\ Len(queue) # 0
  BY <1>1, HeadTailProperties, LenProperties, EmptySeq
<1>3. /\ pendingAsk' = [pendingAsk EXCEPT ![u] = Tail(queue)]
      /\ answer' = [answer EXCEPT ![w] = cur.id]
      /\ UNCHANGED <<askPc, askUser, askOrder>>
  BY DEF ResolvePendingAsk, askVars
<1>4. Owed(w) /\ askUser[w] = u /\ 1 \in DOMAIN queue
  BY <1>1, <1>2 DEF WaiterInv, QueuesExact
<1>5. \A v \in Users : \A p \in DOMAIN pendingAsk'[v] :
        \E x \in DOMAIN pendingAsk[v] :
          /\ pendingAsk'[v][p] = pendingAsk[v][x]
          /\ x = IF v = u THEN p + 1 ELSE p
  <2>1. ASSUME NEW p \in DOMAIN pendingAsk'[u]
        PROVE  p + 1 \in DOMAIN queue /\ pendingAsk'[u][p] = queue[p + 1]
    <3>1. pendingAsk'[u] = Tail(queue)
      BY <1>1, <1>3 DEF TypeOK
    <3> HIDE DEF queue
    <3> QED
      BY <1>2, <3>1
  <2>2. ASSUME NEW v \in Users, v # u PROVE pendingAsk'[v] = pendingAsk[v]
    BY <1>3, <2>2 DEF TypeOK
  <2> QED
    BY <2>1, <2>2
<1> HIDE DEF w, queue
<1>6. ASSUME NEW v \in Users, NEW p \in DOMAIN pendingAsk'[v],
             NEW q \in DOMAIN pendingAsk'[v],
             NEW i \in DOMAIN askOrder, NEW j \in DOMAIN askOrder, p < q,
             askOrder[i] = pendingAsk'[v][p], askOrder[j] = pendingAsk'[v][q]
      PROVE  i < j
  <2>1. PICK x \in DOMAIN pendingAsk[v], y \in DOMAIN pendingAsk[v] :
          /\ pendingAsk'[v][p] = pendingAsk[v][x]
          /\ pendingAsk'[v][q] = pendingAsk[v][y]
          /\ x = IF v = u THEN p + 1 ELSE p
          /\ y = IF v = u THEN q + 1 ELSE q
    BY <1>5
  <2>2. p \in Nat /\ q \in Nat
    <3>1. pendingAsk[v] \in Seq(Askers)
      BY DEF TypeOK
    <3>2. x \in Nat /\ y \in Nat
      BY <3>1, LenProperties
    <3>3. CASE v = u
      <4>1. pendingAsk'[v] = Tail(queue)
        BY <1>3, <3>3 DEF TypeOK
      <4>2. DOMAIN pendingAsk'[v] = 1..(Len(queue) - 1)
        BY <1>2, <4>1
      <4> QED
        BY <1>2, <4>2
    <3>4. CASE v # u
      BY <2>1, <3>2, <3>4
    <3> QED
      BY <3>3, <3>4
  <2>3. x < y
    BY <1>6, <2>1, <2>2
  <2> QED
    BY <1>6, <2>1, <2>3 DEF OrderInv
<1>7. /\ answer'[w] = cur.id
      /\ \A b \in Askers : b # w => answer'[b] = answer[b]
  BY <1>2, <1>3 DEF TypeOK
<1>8. ASSUME NEW i \in DOMAIN askOrder, NEW j \in DOMAIN askOrder, i < j,
             askOrder[j] = w, askUser[askOrder[i]] = u
      PROVE  \/ answer'[askOrder[i]] # 0 /\ answer'[askOrder[i]] < cur.id
             \/ answer'[askOrder[i]] = 0 /\ askPc[askOrder[i]] = "gone"
  <2> DEFINE a == askOrder[i]
  <2>1. a \in Askers /\ a # w /\ ~Fresh(a)
    BY <1>8, Registered DEF OrderInv
  <2>2. answer'[a] = answer[a] /\ answer[a] < cur.id
    BY <1>1, <1>7, <2>1 DEF StreamInv
  <2>3. ASSUME answer[a] = 0, askPc[a] # "gone" PROVE FALSE
    <3>1. Owed(a)
      BY <2>1, <2>3 DEF Owed, Fresh, OrderInv, TypeOK, AskStates
    <3>2. PICK p \in 1..Len(queue) : queue[p] = a
      BY <1>8, <2>1, <3>1 DEF WaiterInv, QueuesExact, Contains, queue
    <3>3. 1 < p /\ p \in DOMAIN queue
      BY <1>2, <2>1, <3>2
    <3>4. j < i
      BY <1>1, <1>2, <1>4, <1>8, <3>2, <3>3 DEF OrderInv, queue
    <3> QED
      BY <1>8, <3>4, Registered
  <2> QED
    BY <2>2, <2>3
<1>9. ASSUME NEW i \in DOMAIN askOrder, NEW j \in DOMAIN askOrder, i < j,
             askUser[askOrder[i]] = askUser[askOrder[j]],
             answer'[askOrder[j]] # 0, askOrder[j] # w
      PROVE  \/ answer'[askOrder[i]] # 0
                  /\ answer'[askOrder[i]] < answer'[askOrder[j]]
             \/ answer'[askOrder[i]] = 0 /\ askPc[askOrder[i]] = "gone"
  <2>1. answer[askOrder[j]] # 0 /\ answer'[askOrder[j]] = answer[askOrder[j]]
    BY <1>7, <1>9, Registered
  <2>2. \/ answer[askOrder[i]] # 0 /\ answer[askOrder[i]] < answer[askOrder[j]]
        \/ answer[askOrder[i]] = 0 /\ askPc[askOrder[i]] = "gone"
    BY <1>9, <2>1 DEF OrderInv, OldestFirst
  <2>3. askOrder[i] # w
    BY <1>4, <2>2 DEF Owed
  <2> QED
    BY <1>7, <2>1, <2>2, <2>3, Registered
<1>10. OldestFirst'
  BY <1>3, <1>4, <1>7, <1>8, <1>9 DEF OldestFirst
<1>11. \A b \in Askers : askPc'[b] = "replied" => answer'[b] # 0
  BY <1>1, <1>3, <1>7 DEF OrderInv
<1>12. \A i \in DOMAIN askOrder' : ~Fresh(askOrder[i])'
  BY <1>3 DEF OrderInv, Fresh
<1> QED
  BY <1>3, <1>6, <1>10, <1>11, <1>12 DEF OrderInv

\* Every step answers the oldest first.
LEMMA NextOrder ==
  TypeOK /\ WaiterInv /\ StreamInv /\ OrderInv /\ [Next]_vars => OrderInv'
<1> SUFFICES ASSUME TypeOK, WaiterInv, StreamInv, OrderInv, [Next]_vars
             PROVE  OrderInv'
  OBVIOUS
<1>1. CASE Feed
  BY <1>1, OrderFrame DEF Feed, Receive, PushInbound, DropInbound, askVars,
     routeVars
<1>2. CASE Consumer
  <2>1. CASE Take \/ Broadcasted \/ Snapshot
    BY <2>1, OrderFrame DEF Take, Broadcasted, Snapshot, askVars, routeVars
  <2>2. ASSUME NEW a \in Askers, SendReply(a) PROVE OrderInv'
    BY <2>2, OrderFrame DEF SendReply, askVars, routeVars
  <2>3. ASSUME NEW s \in Subs, PushEvent(s) PROVE OrderInv'
    BY <2>3, OrderFrame DEF PushEvent, askVars
  <2> QED
    BY <1>2, <2>1, <2>2, <2>3, OrderResolve DEF Consumer
<1>3. ASSUME NEW a \in Askers, AskHandler(a) \/ AskClientLeaves(a)
      PROVE  OrderInv'
  <2>1. CASE AskClientLeaves(a)
    BY <2>1, OrderFrame DEF AskClientLeaves, routeVars
  <2>2. CASE \/ \E u \in Users : AskResolve(a, u)
             \/ AskSend(a) \/ AskListen(a) \/ AskFail(a) \/ AskGone(a)
             \/ AskReply(a)
    <3>1. UNCHANGED <<askOrder, pendingAsk, answer>>
      BY <2>2 DEF AskResolve, AskSend, AskListen, AskFail, AskGone, AskReply,
         routeVars
    <3>2. \A b \in Askers : b # a => askUser'[b] = askUser[b]
      BY <2>2 DEF AskResolve, AskSend, AskListen, AskFail, AskGone, AskReply,
         TypeOK
    <3>3. CASE AskReply(a)
      BY <3>1, <3>2, <3>3, OrderMove DEF AskReply, WaiterInv
    <3>4. CASE AskGone(a)
      BY <3>1, <3>2, <3>4, OrderMove DEF AskGone
    <3>5. CASE \/ \E u \in Users : AskResolve(a, u)
               \/ AskSend(a) \/ AskListen(a) \/ AskFail(a)
      <4>1. Fresh(a) /\ \E st \in {"resolved", "sent", "failed"} :
                          askPc' = [askPc EXCEPT ![a] = st]
        BY <3>5 DEF AskResolve, AskSend, AskListen, AskFail, Fresh
      <4> QED
        BY <3>1, <3>2, <4>1, OrderMove
    <3> QED
      BY <2>2, <3>3, <3>4, <3>5
  <2> QED
    BY <1>3, <2>1, <2>2, OrderRegister, OrderRemove DEF AskHandler
<1>4. ASSUME NEW s \in Subs, SubHandler(s) \/ SubClientLeaves(s)
      PROVE  OrderInv'
  BY <1>4, OrderFrame DEF SubHandler, Subscribe, WriteEvent, SeeDone,
     RemoveSubscriber, SubClientLeaves, askVars, routeVars
<1>5. CASE UNCHANGED vars
  BY <1>5, OrderFrame DEF vars, askVars, routeVars
<1> QED
  BY <1>1, <1>2, <1>3, <1>4, <1>5 DEF Next

\* daemon.go, resolvePendingAsk, "delivers text to the oldest outstanding" ask:
\* asks of one user are answered in the order they registered, each with an
\* earlier message than the next, however receive loops, departing clients and
\* the consumer interleave.
THEOREM AnswersOldestFirst == Spec => []OldestFirst
<1>1. OrderInv => OldestFirst
  BY DEF OrderInv
<1>2. WaiterInv => RealIds
  BY DEF WaiterInv
<1> QED
  BY <1>1, <1>2, InitWaiter, NextWaiter, InitFate, NextFate, InitStream,
     NextStream, InitOrder, NextOrder, TypeCorrect, PTL DEF Spec

=============================================================================
