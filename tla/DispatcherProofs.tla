-------------------------- MODULE DispatcherProofs --------------------------
(***************************************************************************)
(* Proofs about Dispatcher, for every set of requests, every capacity of   *)
(* the updates channel and every number of dispatchers.                    *)
(***************************************************************************)
EXTENDS Dispatcher, SequenceTheorems, TLAPS

\* The groups of variables and the parts that several actions share.
USE DEF mapVars, input, table, queue, callVars, readVars, tdVars, CallMove,
        TakeTag, LoopMove, Match, NoMatch, DropNewest, Emit

-----------------------------------------------------------------------------
(* Types.                                                                  *)

\* What the inductive argument for the types needs beyond them: a loop that
\* hands over an event hands over a reply, a dispatcher not yet made has no
\* loop, and every request that was issued has a tag.
TypeInv ==
  /\ TypeOK
  /\ \A g \in Gens : loop[g] = "hand" => raw[g] \in Reply
  /\ \A g \in Gens : g > made => loop[g] = "none"
  /\ \A r \in Requests : pc[r] # "idle" => tag[r] # 0
  /\ \A r \in inFlight : pc[r] # "idle"

\* An event with a tag is a reply.
LEMMA TaggedIsReply ==
  ASSUME NEW e \in Event, e.tag # 0
  PROVE  e \in Reply
  BY DEF Event, Update

\* Looking a dispatcher up, or making one, keeps the types and starts at most
\* the loop of the dispatcher it returns.
LEMMA DispatcherForFacts ==
  ASSUME TypeInv, NEW d \in Gens, DispatcherFor(d)
  PROVE  /\ made' \in 0..MaxGen
         /\ current' \in 0..made'
         /\ loop' \in [Gens -> LoopStates]
         /\ \A g \in Gens : loop'[g] = "hand" <=> loop[g] = "hand"
         /\ \A g \in Gens : g > made' => loop'[g] = "none"
<1>1. /\ made \in 0..MaxGen /\ current \in 0..made /\ MaxGen \in Nat
      /\ loop \in [Gens -> LoopStates]
      /\ \A g \in Gens : g \in 1..MaxGen
      /\ \A g \in Gens : g > made => loop[g] = "none"
  BY DispatcherAssumption DEF TypeInv, TypeOK, Gens
<1>2. CASE UNCHANGED <<made, current, loop>>
  BY <1>1, <1>2
<1>3. CASE /\ made < MaxGen
           /\ d = made + 1
           /\ made' = d
           /\ current' = d
           /\ loop' = [loop EXCEPT ![d] = "check"]
  <2>1. made' \in 0..MaxGen /\ current' \in 0..made'
    BY <1>1, <1>3
  <2>2. loop[d] = "none"
    BY <1>1, <1>3
  <2>3. "check" \in LoopStates
    BY DEF LoopStates
  <2> QED
    BY <1>1, <1>3, <2>1, <2>2, <2>3
<1> QED
  BY <1>2, <1>3 DEF DispatcherFor

\* The initial state has its types.
LEMMA InitType == Init => TypeInv
<1> SUFFICES ASSUME Init PROVE TypeInv
  OBVIOUS
<1>1. NoEvent \in Event
  BY DEF NoEvent, Event, Update
<1> QED
  BY <1>1, DispatcherAssumption
  DEF Init, TypeInv, TypeOK, Gens, None, LoopStates, CallStates, Outcomes

\* The calls' steps keep the types.
LEMMA TypeCall == ASSUME TypeInv, NEW r \in Requests, Call(r) PROVE TypeInv'
<1>1. CASE Register(r)
  <2>1. PICK d \in Gens :
          /\ DispatcherFor(d)
          /\ seq' = [seq EXCEPT ![d] = @ + 1]
          /\ gen' = [gen EXCEPT ![r] = d]
          /\ tag' = [tag EXCEPT ![r] = seq[d] + 1]
          /\ pending' = [pending EXCEPT ![d] = @ \union {r}]
    BY <1>1 DEF Register
  <2>2. d \in 0..MaxGen
    BY DispatcherAssumption DEF Gens
  <2>3. /\ seq' \in [Gens -> Nat]
        /\ tag' \in [Requests -> Nat]
        /\ gen' \in [Requests -> 0..MaxGen]
        /\ pending' \in [Gens -> SUBSET Requests]
    BY <2>1, <2>2 DEF TypeInv, TypeOK
  <2>4. /\ pc' \in [Requests -> CallStates]
        /\ pc' = [pc EXCEPT ![r] = "registered"]
        /\ tag'[r] # 0
        /\ \A q \in Requests : q # r => tag'[q] = tag[q]
    BY <1>1, <2>1 DEF Register, TypeInv, TypeOK, CallStates
  <2>5. UNCHANGED <<stopped, raw, target, receiveMu, outcome, updates,
                    resultCh, listening, delivered, evicted, inFlight, tdOut,
                    emitted>>
    BY <1>1 DEF Register, tdVars
  <2> QED
    BY <2>1, <2>3, <2>4, <2>5, DispatcherForFacts DEF TypeInv, TypeOK
<1>2. CASE Send(r)
  BY <1>2 DEF Send, CallStates, TypeInv, TypeOK
<1>3. CASE GotReply(r)
  BY <1>3 DEF GotReply, Return, CallStates,
              Outcomes, TypeInv, TypeOK
<1>4. CASE TimedOut(r)
  BY <1>4 DEF TimedOut, Return, CallStates,
              Outcomes, TypeInv, TypeOK
<1>5. CASE SawStop(r)
  BY <1>5 DEF SawStop, Return, CallStates,
              Outcomes, TypeInv, TypeOK
<1>6. CASE Unregister(r)
  BY <1>6 DEF Unregister, CallStates, TypeInv,
              TypeOK
<1> QED
  BY <1>1, <1>2, <1>3, <1>4, <1>5, <1>6 DEF Call

\* Pushing the event the loop holds keeps the types.
LEMMA PushFacts ==
  ASSUME TypeInv, NEW g \in Gens, PushUpdate(g)
  PROVE  /\ updates' \in [Gens -> Seq(Event)]
         /\ \A h \in Gens : Len(updates'[h]) <= UpdatesCap
         /\ evicted' \subseteq Event
<1>1. /\ raw[g] \in Event
      /\ updates \in [Gens -> Seq(Event)]
      /\ Len(updates[g]) < UpdatesCap
      /\ updates' = [updates EXCEPT ![g] = Append(@, raw[g])]
      /\ \A h \in Gens : Len(updates[h]) <= UpdatesCap
  BY DEF PushUpdate, TypeInv, TypeOK
<1>2. /\ Append(updates[g], raw[g]) \in Seq(Event)
      /\ Len(Append(updates[g], raw[g])) = Len(updates[g]) + 1
      /\ Len(updates[g]) \in Nat
  BY <1>1, AppendProperties, LenProperties
<1>3. Len(updates[g]) + 1 <= UpdatesCap
  BY <1>1, <1>2, DispatcherAssumption
<1>4. \A h \in Gens : Len(updates'[h]) <= UpdatesCap
  BY <1>1, <1>2, <1>3
<1> QED
  BY <1>1, <1>2, <1>4 DEF PushUpdate, TypeInv, TypeOK

\* The loops' steps keep the types.
LEMMA TypeLoop == ASSUME TypeInv, NEW g \in Gens, Loop(g) PROVE TypeInv'
<1>1. CASE LoopCheck(g)
  BY <1>1 DEF LoopCheck, TypeInv, TypeOK, LoopStates
<1>2. CASE LoopLock(g)
  <2>1. g \in 0..MaxGen
    BY DispatcherAssumption DEF Gens
  <2> QED
    BY <1>2, <2>1 DEF LoopLock, TypeInv, TypeOK, LoopStates
<1>3. CASE LoopReceive(g)
  <2>1. /\ raw' \in [Gens -> Event] /\ tdOut' \in Seq(Event)
        /\ \A h \in Gens : h # g => raw'[h] = raw[h]
    <3>1. tdOut # <<>> => Head(tdOut) \in Event /\ Tail(tdOut) \in Seq(Event)
      BY HeadTailProperties DEF TypeInv, TypeOK
    <3>2. CASE /\ tdOut # <<>>
               /\ raw' = [raw EXCEPT ![g] = Head(tdOut)]
               /\ tdOut' = Tail(tdOut)
      <4>1. raw \in [Gens -> Event]
        BY DEF TypeInv, TypeOK
      <4> QED
        BY <3>1, <3>2, <4>1
    <3>3. CASE UNCHANGED <<raw, tdOut>>
      BY <3>3 DEF TypeInv, TypeOK
    <3> QED
      BY <1>3, <3>2, <3>3 DEF LoopReceive
  <2>2. /\ receiveMu' \in 0..MaxGen
        /\ loop' \in [Gens -> LoopStates]
        /\ loop'[g] # "hand" /\ loop[g] # "none"
        /\ \A h \in Gens : h # g => loop'[h] = loop[h]
    <3>1. 0 \in 0..MaxGen
      BY DispatcherAssumption
    <3>2. PICK next \in {"route", "check"} : loop' = [loop EXCEPT ![g] = next]
      BY <1>3 DEF LoopReceive
    <3> QED
      BY <1>3, <3>1, <3>2 DEF LoopReceive, TypeInv, TypeOK, LoopStates
  <2>3. UNCHANGED <<made, current, stopped, seq, target, pc, gen, tag, outcome,
                    inFlight, emitted, pending, updates, resultCh, listening,
                    delivered, evicted>>
    BY <1>3 DEF LoopReceive
  <2> QED
    BY <2>1, <2>2, <2>3 DEF TypeInv, TypeOK
<1>4. CASE RouteReply(g)
  <2>1. PICK r \in Requests :
          Match(g, r) /\ pending' = [pending EXCEPT ![g] = @ \ {r}]
    BY <1>4 DEF RouteReply
  <2>2. raw[g] \in Reply
    BY <2>1, TaggedIsReply DEF Waiting, TypeInv, TypeOK
  <2>3. /\ pending' \in [Gens -> SUBSET Requests]
        /\ target' \in [Gens -> SUBSET Requests]
        /\ loop' \in [Gens -> LoopStates]
    BY <2>1 DEF TypeInv, TypeOK, LoopStates
  <2> QED
    BY <2>1, <2>2, <2>3 DEF TypeInv, TypeOK
<1>5. CASE HandReply(g)
  <2>1. raw[g].of \in Requests
    BY <1>5 DEF HandReply, TypeInv, Reply
  <2>2. resultCh' \in [Requests -> SUBSET Requests]
    BY <1>5, <2>1 DEF HandReply, TypeInv, TypeOK
  <2> QED
    BY <1>5, <2>2 DEF HandReply, TypeInv, TypeOK, LoopStates, None
<1>6. CASE RouteUpdate(g)
  <2>1. CASE NoMatch(g, "check") /\ PushUpdate(g)
    <3>1. /\ updates' \in [Gens -> Seq(Event)]
          /\ \A h \in Gens : Len(updates'[h]) <= UpdatesCap
          /\ evicted' \subseteq Event
      BY <2>1, PushFacts
    <3> QED
      BY <2>1, <3>1 DEF TypeInv, TypeOK, LoopStates
  <2>2. CASE NoMatch(g, "evict") /\ UNCHANGED <<updates, evicted>>
    BY <2>2 DEF TypeInv, TypeOK, LoopStates
  <2> QED
    BY <1>6, <2>1, <2>2 DEF RouteUpdate
<1>7. CASE EvictOldest(g)
  <2>1. /\ updates' \in [Gens -> Seq(Event)]
        /\ \A h \in Gens : Len(updates'[h]) <= UpdatesCap
        /\ evicted' \subseteq Event
    <3>1. CASE /\ updates[g] # <<>>
               /\ updates' = [updates EXCEPT ![g] = Tail(@)]
               /\ evicted' = evicted \union {Head(updates[g])}
      <4>1. updates[g] \in Seq(Event) /\ Len(updates[g]) <= UpdatesCap
        BY DEF TypeInv, TypeOK
      <4>2. /\ Head(updates[g]) \in Event
            /\ Tail(updates[g]) \in Seq(Event)
            /\ Len(Tail(updates[g])) = Len(updates[g]) - 1
            /\ Len(updates[g]) \in Nat
        BY <3>1, <4>1, HeadTailProperties, LenProperties
      <4>3. Len(Tail(updates[g])) <= UpdatesCap
        BY <4>1, <4>2, DispatcherAssumption
      <4> QED
        BY <3>1, <4>2, <4>3 DEF TypeInv, TypeOK
    <3>2. CASE UNCHANGED <<updates, evicted>>
      BY <3>2 DEF TypeInv, TypeOK
    <3> QED
      BY <1>7, <3>1, <3>2 DEF EvictOldest
  <2> QED
    BY <1>7, <2>1 DEF EvictOldest, TypeInv, TypeOK, LoopStates
<1>8. CASE RetryPush(g)
  <2>1. CASE PushUpdate(g)
    <3>1. /\ updates' \in [Gens -> Seq(Event)]
          /\ \A h \in Gens : Len(updates'[h]) <= UpdatesCap
          /\ evicted' \subseteq Event
      BY <2>1, PushFacts
    <3> QED
      BY <1>8, <3>1 DEF RetryPush, TypeInv, TypeOK, LoopStates
  <2>2. CASE evicted' = evicted \union {raw[g]} /\ UNCHANGED updates
    BY <1>8, <2>2 DEF RetryPush, TypeInv, TypeOK, LoopStates
  <2> QED
    BY <1>8, <2>1, <2>2 DEF RetryPush
<1> QED
  BY <1>1, <1>2, <1>3, <1>4, <1>5, <1>6, <1>7, <1>8 DEF Loop

\* The reader's steps keep the types.
LEMMA TypeReader == ASSUME TypeInv, Reader PROVE TypeInv'
<1>1. CASE Listen
  <2>1. PICK d \in Gens : DispatcherFor(d) /\ listening' = d
    BY <1>1 DEF Listen
  <2>2. d \in 0..MaxGen
    BY DispatcherAssumption DEF Gens
  <2>3. UNCHANGED <<stopped, seq, raw, target, receiveMu, pc, gen, tag, outcome,
                    inFlight, tdOut, emitted, pending, updates, resultCh,
                    delivered, evicted>>
    BY <1>1 DEF Listen
  <2> QED
    BY <2>1, <2>2, <2>3, DispatcherForFacts DEF TypeInv, TypeOK
<1>2. CASE TakeUpdate
  <2>1. listening \in Gens /\ updates[listening] \in Seq(Event)
        /\ Len(updates[listening]) <= UpdatesCap
    <3>1. listening \in Gens
      BY <1>2, DispatcherAssumption DEF TakeUpdate, TypeInv, TypeOK, Gens
    <3> QED
      BY <3>1 DEF TypeInv, TypeOK
  <2>2. /\ Head(updates[listening]) \in Event
        /\ Tail(updates[listening]) \in Seq(Event)
        /\ Len(Tail(updates[listening])) = Len(updates[listening]) - 1
        /\ Len(updates[listening]) \in Nat
    BY <1>2, <2>1, HeadTailProperties, LenProperties DEF TakeUpdate
  <2>3. Len(Tail(updates[listening])) <= UpdatesCap
    BY <2>1, <2>2, DispatcherAssumption
  <2>4. /\ updates' \in [Gens -> Seq(Event)]
        /\ \A h \in Gens : Len(updates'[h]) <= UpdatesCap
    BY <1>2, <2>1, <2>2, <2>3 DEF TakeUpdate, TypeInv, TypeOK
  <2>5. delivered' \in Seq(Event)
    BY <1>2, <2>2 DEF TakeUpdate, TypeInv, TypeOK
  <2>6. listening' \in 0..MaxGen
    BY <1>2, DispatcherAssumption DEF TakeUpdate
  <2> QED
    BY <1>2, <2>4, <2>5, <2>6 DEF TakeUpdate, TypeInv, TypeOK
<1>3. CASE GiveUpListening
  BY <1>3, DispatcherAssumption DEF GiveUpListening, TypeInv, TypeOK
<1> QED
  BY <1>1, <1>2, <1>3 DEF Reader

\* TDLib's steps keep the types.
LEMMA TypeTDLib == ASSUME TypeInv, TDLib PROVE TypeInv'
<1>1. CASE TdUpdate
  <2>1. [tag |-> 0, id |-> emitted + 1] \in Event
    BY DEF Event, Update, TypeInv, TypeOK
  <2> QED
    BY <1>1, <2>1 DEF TdUpdate, TypeInv, TypeOK
<1>2. ASSUME NEW r \in Requests, TdReply(r)
      PROVE  TypeInv'
  <2>1. [tag |-> tag[r], of |-> r] \in Event
    BY <1>2 DEF TdReply, Event, Reply, TypeInv, TypeOK
  <2> QED
    BY <1>2, <2>1 DEF TdReply, TypeInv, TypeOK
<1> QED
  BY <1>1, <1>2 DEF TDLib

\* Every step keeps the types.
LEMMA TypeNext == TypeInv /\ [Next]_vars => TypeInv'
<1> SUFFICES ASSUME TypeInv, [Next]_vars PROVE TypeInv'
  OBVIOUS
<1>1. CASE Close
  <2>1. current \in Gens /\ 0 \in 0..made
    BY <1>1, DispatcherAssumption DEF Close, TypeInv, TypeOK, Gens
  <2> QED
    BY <1>1, <2>1
    DEF Close, TypeInv, TypeOK
<1>2. CASE UNCHANGED vars
  BY <1>2 DEF vars, TypeInv, TypeOK
<1> QED
  BY <1>1, <1>2, TypeCall, TypeLoop, TypeReader, TypeTDLib DEF Next

\* In every behaviour every variable has its type and no updates channel holds
\* more than it may.
THEOREM TypeCorrect == Spec => []TypeOK
<1>1. TypeInv => TypeOK
  BY DEF TypeInv
<1> QED
  BY <1>1, InitType, TypeNext, PTL DEF Spec

-----------------------------------------------------------------------------
(* Handing over replies.                                                   *)

\* Where the one answer of a call is.  Until it is answered a call is in its
\* own dispatcher's table or in the hands of that dispatcher's loop, never in
\* both; then it is in neither.  Registration is undone under the lock before
\* the reply is handed over outside it, which is why no second reply can follow.
Registered(r) == pc[r] \in {"registered", "waiting", "deferred"}

ReplyInv ==
  /\ \A g \in Gens : \A r \in pending[g] :
       gen[r] = g /\ Registered(r) /\ resultCh[r] = None /\ r \notin target[g]
  /\ \A g \in Gens : \A r \in target[g] :
       gen[r] = g /\ pc[r] # "idle" /\ resultCh[r] = None
  /\ \A g \in Gens :
       \/ loop[g] = "hand" /\ \E r \in Requests : target[g] = {r}
       \/ loop[g] # "hand" /\ target[g] = None
  /\ \A r \in Requests : pc[r] = "idle" => resultCh[r] = None
  /\ \A r \in Requests : pc[r] # "idle" => gen[r] \in Gens
  /\ \A r \in Requests : pc[r] \in {"registered", "waiting"} =>
       \/ r \in pending[gen[r]]
       \/ r \in target[gen[r]]
       \/ resultCh[r] # None

\* Nothing is registered at first.
LEMMA InitReply == Init => ReplyInv
  BY DEF Init, ReplyInv, None

\* The calls' steps keep each answer in one place.
LEMMA ReplyCall ==
  ASSUME TypeInv, TypeInv', ReplyInv, NEW q \in Requests, Call(q)
  PROVE  ReplyInv'
<1>1. CASE Register(q)
  <2>1. PICK d \in Gens :
          /\ DispatcherFor(d)
          /\ gen' = [gen EXCEPT ![q] = d]
          /\ pending' = [pending EXCEPT ![d] = @ \union {q}]
    BY <1>1 DEF Register
  <2>2. /\ pc[q] = "idle"
        /\ pc' = [pc EXCEPT ![q] = "registered"]
        /\ UNCHANGED <<target, resultCh>>
    BY <1>1 DEF Register
  <2>3. \A g \in Gens : loop'[g] = "hand" <=> loop[g] = "hand"
    BY <2>1, DispatcherForFacts
  <2>4. \A g \in Gens : q \notin pending[g] /\ q \notin target[g]
    BY <2>2 DEF ReplyInv, Registered
  <2>5. /\ gen \in [Requests -> 0..MaxGen] /\ pc \in [Requests -> CallStates]
        /\ pending \in [Gens -> SUBSET Requests]
        /\ target \in [Gens -> SUBSET Requests]
    BY DEF TypeInv, TypeOK
  <2> QED
    BY <2>1, <2>2, <2>3, <2>4, <2>5 DEF ReplyInv, Registered
<1>2. CASE Send(q)
  BY <1>2 DEF Send, ReplyInv, Registered, TypeInv, TypeOK
<1>3. CASE GotReply(q) \/ TimedOut(q) \/ SawStop(q)
  <2>1. /\ pc[q] = "waiting"
        /\ pc' = [pc EXCEPT ![q] = "deferred"]
        /\ UNCHANGED <<pending, target, gen, resultCh, loop>>
    BY <1>3 DEF GotReply, TimedOut, SawStop, Return
  <2>2. pc \in [Requests -> CallStates]
    BY DEF TypeInv, TypeOK
  <2> QED
    BY <2>1, <2>2 DEF ReplyInv, Registered
<1>4. CASE Unregister(q)
  <2>1. /\ pc[q] = "deferred"
        /\ pc' = [pc EXCEPT ![q] = "done"]
        /\ pending' = [pending EXCEPT ![gen[q]] = @ \ {q}]
        /\ UNCHANGED <<target, gen, resultCh, loop>>
    BY <1>4 DEF Unregister
  <2>2. /\ pc \in [Requests -> CallStates]
        /\ pending \in [Gens -> SUBSET Requests]
    BY DEF TypeInv, TypeOK
  <2>3. \A g \in Gens : pending'[g] = pending[g] \ {q}
    BY <2>1, <2>2 DEF ReplyInv
  <2> QED
    BY <2>1, <2>2, <2>3 DEF ReplyInv, Registered
<1> QED
  BY <1>1, <1>2, <1>3, <1>4 DEF Call

\* A loop step that is not about a reply leaves the invariant alone.
LEMMA ReplyOther ==
  ASSUME ReplyInv, UNCHANGED <<pending, target, pc, gen, resultCh>>,
         \A g \in Gens : loop'[g] = "hand" <=> loop[g] = "hand"
  PROVE  ReplyInv'
  BY DEF ReplyInv, Registered

\* The loops' steps keep each answer in one place.
LEMMA ReplyLoop ==
  ASSUME TypeInv, TypeInv', ReplyInv, NEW g \in Gens, Loop(g)
  PROVE  ReplyInv'
<1>1. CASE LoopCheck(g) \/ LoopLock(g) \/ LoopReceive(g) \/ RouteUpdate(g)
             \/ EvictOldest(g) \/ RetryPush(g)
  <2>1. UNCHANGED <<pending, target, pc, gen, resultCh>>
    BY <1>1 DEF LoopCheck, LoopLock, LoopReceive, RouteUpdate, EvictOldest,
                RetryPush
  <2>2. loop \in [Gens -> LoopStates]
    BY DEF TypeInv, TypeOK
  <2>3. \A h \in Gens : loop'[h] = "hand" <=> loop[h] = "hand"
    BY <1>1, <2>2 DEF LoopCheck, LoopLock, LoopReceive, RouteUpdate,
                      EvictOldest, RetryPush, PushUpdate
  <2> QED
    BY <2>1, <2>3, ReplyOther
<1>2. CASE RouteReply(g)
  <2>1. PICK r \in Waiting(g, raw[g]) :
          /\ pending' = [pending EXCEPT ![g] = @ \ {r}]
          /\ target' = [target EXCEPT ![g] = {r}]
    BY <1>2 DEF RouteReply
  <2>2. r \in pending[g] /\ r \in Requests
    BY <2>1 DEF Waiting, TypeInv, TypeOK
  <2>3. /\ loop[g] = "route"
        /\ loop' = [loop EXCEPT ![g] = "hand"]
        /\ UNCHANGED <<pc, gen, resultCh>>
    BY <1>2 DEF RouteReply
  <2>4. /\ target[g] = None
        /\ gen[r] = g /\ Registered(r) /\ resultCh[r] = None
    BY <2>2, <2>3 DEF ReplyInv
  <2>5. /\ pending \in [Gens -> SUBSET Requests]
        /\ target \in [Gens -> SUBSET Requests]
        /\ loop \in [Gens -> LoopStates]
    BY DEF TypeInv, TypeOK
  <2> QED
    BY <2>1, <2>2, <2>3, <2>4, <2>5 DEF ReplyInv, Registered, None
<1>3. CASE HandReply(g)
  <2>1. PICK r \in target[g] :
          /\ resultCh[r] = None
          /\ resultCh' = [resultCh EXCEPT ![r] = {raw[g].of}]
    BY <1>3 DEF HandReply
  <2>2. /\ loop[g] = "hand"
        /\ target' = [target EXCEPT ![g] = None]
        /\ loop' = [loop EXCEPT ![g] = "check"]
        /\ UNCHANGED <<pc, gen, pending>>
    BY <1>3 DEF HandReply
  <2>3. target[g] = {r} /\ gen[r] = g /\ pc[r] # "idle" /\ r \in Requests
    <3>1. r \in Requests
      BY <2>1 DEF TypeInv, TypeOK
    <3>2. gen[r] = g /\ pc[r] # "idle"
      BY <2>1 DEF ReplyInv
    <3>3. PICK x \in Requests : target[g] = {x}
      BY <2>2 DEF ReplyInv
    <3> QED
      BY <2>1, <3>1, <3>2, <3>3
  <2>4. \A h \in Gens : r \notin pending[h] /\ (r \in target[h] => h = g)
    BY <2>3 DEF ReplyInv
  <2>5. /\ target \in [Gens -> SUBSET Requests]
        /\ loop \in [Gens -> LoopStates]
        /\ resultCh \in [Requests -> SUBSET Requests]
        /\ pending \in [Gens -> SUBSET Requests]
    BY DEF TypeInv, TypeOK
  <2>6. resultCh'[r] # None
    BY <2>1, <2>3, <2>5 DEF None
  <2>7. \A q \in Requests : q # r => resultCh'[q] = resultCh[q]
    BY <2>1, <2>5
  <2>8. /\ target'[g] = None /\ loop'[g] = "check"
        /\ \A h \in Gens : h # g => target'[h] = target[h] /\ loop'[h] = loop[h]
    BY <2>2, <2>5
  <2>9. \A h \in Gens : \A q \in pending'[h] :
          /\ gen'[q] = h /\ Registered(q)' /\ resultCh'[q] = None
          /\ q \notin target'[h]
    BY <2>2, <2>4, <2>5, <2>7, <2>8 DEF ReplyInv, Registered, None
  <2>10. /\ \A h \in Gens : \A q \in target'[h] :
              gen'[q] = h /\ pc'[q] # "idle" /\ resultCh'[q] = None
         /\ \A h \in Gens :
              \/ loop'[h] = "hand" /\ \E q \in Requests : target'[h] = {q}
              \/ loop'[h] # "hand" /\ target'[h] = None
    BY <2>2, <2>4, <2>5, <2>7, <2>8 DEF ReplyInv, None
  <2>11. /\ \A q \in Requests : pc'[q] = "idle" => resultCh'[q] = None
         /\ \A q \in Requests : pc'[q] # "idle" => gen'[q] \in Gens
    BY <2>2, <2>3, <2>7 DEF ReplyInv
  <2>12. \A q \in Requests : pc'[q] \in {"registered", "waiting"} =>
           \/ q \in pending'[gen'[q]]
           \/ q \in target'[gen'[q]]
           \/ resultCh'[q] # None
    <3>1. \A q \in Requests \ {r} : pc[q] \in {"registered", "waiting"} =>
             gen[q] \in Gens /\ (q \in target[gen[q]] => gen[q] # g)
      BY <2>3 DEF ReplyInv
    <3> QED
      BY <2>2, <2>6, <2>7, <2>8, <3>1 DEF ReplyInv
  <2> QED
    BY <2>9, <2>10, <2>11, <2>12 DEF ReplyInv
<1> QED
  BY <1>1, <1>2, <1>3 DEF Loop

\* Every step keeps each answer in one place.
LEMMA ReplyNext ==
  TypeInv /\ TypeInv' /\ ReplyInv /\ [Next]_vars => ReplyInv'
<1> SUFFICES ASSUME TypeInv, TypeInv', ReplyInv, [Next]_vars PROVE ReplyInv'
  OBVIOUS
<1>1. CASE Close \/ TDLib \/ TakeUpdate \/ GiveUpListening \/ UNCHANGED vars
  <2>1. UNCHANGED <<pending, target, pc, gen, resultCh, loop>>
    BY <1>1 DEF Close, TDLib, TdUpdate, TdReply, TakeUpdate, GiveUpListening,
                vars
  <2> QED
    BY <2>1, ReplyOther
<1>2. CASE Listen
  <2>1. PICK d \in Gens : DispatcherFor(d)
    BY <1>2 DEF Listen
  <2>2. UNCHANGED <<pending, target, pc, gen, resultCh>>
    BY <1>2 DEF Listen
  <2> QED
    BY <2>1, <2>2, DispatcherForFacts, ReplyOther
<1> QED
  BY <1>1, <1>2, ReplyCall, ReplyLoop DEF Next, Reader

\* No reply is handed to a call that has one already: the loop's send outside
\* the lock finds the one-slot channel empty, and never blocks.
THEOREM HandReplyNeverBlocks == Spec => []HandNeverBlocks
<1>1. ReplyInv => HandNeverBlocks
  BY DEF ReplyInv, HandNeverBlocks
<1> QED
  BY <1>1, InitType, TypeNext, InitReply, ReplyNext, PTL DEF Spec

\* A waiting call can always be answered, and a call that returned leaves
\* nothing behind in the table.
THEOREM CallsReachable == Spec => []CallReachable
<1>1. ReplyInv => CallReachable
  BY DEF ReplyInv, CallReachable, Registered
<1> QED
  BY <1>1, InitType, TypeNext, InitReply, ReplyNext, PTL DEF Spec

-----------------------------------------------------------------------------
(* Matching replies to calls.                                              *)

\* Tags name calls: within a dispatcher no two calls share one, none is beyond
\* the counter, and every reply under way carries the tag of the call it
\* answers.
Answers(e) == e.tag # 0 => pc[e.of] # "idle" /\ tag[e.of] = e.tag

\* The same after a step.
AnswersNext(e) == e.tag # 0 => pc'[e.of] # "idle" /\ tag'[e.of] = e.tag

\* What a call was given answers a call that was issued, and if that is a call of
\* the same dispatcher, it is this one.
Given ==
  \A r \in Requests : \A q \in resultCh[r] :
    pc[q] # "idle" /\ (gen[q] = gen[r] => q = r)

MatchInv ==
  /\ \A r \in Requests : pc[r] # "idle" => tag[r] <= seq[gen[r]]
  /\ \A r, q \in Requests :
       pc[r] # "idle" /\ pc[q] # "idle" /\ gen[r] = gen[q] /\ tag[r] = tag[q]
         => r = q
  /\ \A i \in DOMAIN tdOut : Answers(tdOut[i])
  /\ \A g \in Gens : Answers(raw[g])
  /\ \A g \in Gens : \A r \in target[g] : tag[r] = raw[g].tag
  /\ Given


\* No request has been issued at first.
LEMMA InitMatch == Init => MatchInv
  BY DEF Init, MatchInv, Answers, Given, None, NoEvent

\* A step that issues no request and moves no reply leaves the invariant alone.
LEMMA MatchOther ==
  ASSUME TypeInv, MatchInv, UNCHANGED <<seq, gen, tag, tdOut, raw, resultCh>>,
         \A r \in Requests : pc'[r] = "idle" <=> pc[r] = "idle",
         \A g \in Gens : \A r \in target'[g] : tag[r] = raw[g].tag
  PROVE  MatchInv'
<1>1. ASSUME NEW e \in Event, Answers(e)
      PROVE  AnswersNext(e)
  BY <1>1, TaggedIsReply DEF Answers, AnswersNext, Reply
<1>2. \A i \in DOMAIN tdOut : tdOut[i] \in Event
  BY ElementOfSeq, LenProperties DEF TypeInv, TypeOK
<1>3. \A g \in Gens : raw[g] \in Event
  BY DEF TypeInv, TypeOK
<1>4. \A i \in DOMAIN tdOut' : AnswersNext(tdOut'[i])
  BY <1>1, <1>2 DEF MatchInv
<1>5. \A g \in Gens : AnswersNext(raw'[g])
  BY <1>1, <1>3 DEF MatchInv
<1>6. Given'
  BY DEF MatchInv, Given, TypeInv, TypeOK
<1> QED
  BY <1>4, <1>5, <1>6 DEF MatchInv, Answers, AnswersNext

\* A call's steps keep replies and calls matched.
LEMMA MatchCall ==
  ASSUME TypeInv, ReplyInv, MatchInv, NEW q \in Requests, Call(q)
  PROVE  MatchInv'
<1>1. CASE Register(q)
  <2>1. PICK d \in Gens :
          /\ seq' = [seq EXCEPT ![d] = @ + 1]
          /\ gen' = [gen EXCEPT ![q] = d]
          /\ tag' = [tag EXCEPT ![q] = seq[d] + 1]
    BY <1>1 DEF Register
  <2>2. /\ pc[q] = "idle"
        /\ pc' = [pc EXCEPT ![q] = "registered"]
        /\ UNCHANGED <<tdOut, raw, target, resultCh>>
    BY <1>1 DEF Register
  <2>3. /\ seq \in [Gens -> Nat] /\ tag \in [Requests -> Nat]
        /\ gen \in [Requests -> 0..MaxGen] /\ pc \in [Requests -> CallStates]
        /\ target \in [Gens -> SUBSET Requests]
        /\ raw \in [Gens -> Event] /\ tdOut \in Seq(Event)
    BY DEF TypeInv, TypeOK
  <2>4. /\ \A r \in Requests : pc[r] # "idle" => gen[r] \in Gens
        /\ \A g \in Gens : q \notin target[g]
    BY <2>2 DEF ReplyInv
  <2>5. ASSUME NEW r \in Requests, pc'[r] # "idle"
        PROVE  tag'[r] <= seq'[gen'[r]]
    <3>1. CASE r = q
      BY <3>1, <2>1, <2>3
    <3>2. CASE r # q
      <4>1. tag[r] <= seq[gen[r]] /\ gen[r] \in Gens
        BY <2>5, <3>2, <2>2, <2>3, <2>4 DEF MatchInv
      <4>2. tag'[r] = tag[r] /\ gen'[r] = gen[r]
        BY <3>2, <2>1, <2>3
      <4>3. seq[gen[r]] <= seq'[gen[r]]
        BY <4>1, <2>1, <2>3
      <4> QED
        BY <4>1, <4>2, <4>3, <2>1, <2>3
    <3> QED
      BY <3>1, <3>2
  <2>6. \A r, p \in Requests :
          pc'[r] # "idle" /\ pc'[p] # "idle" /\ gen'[r] = gen'[p]
            /\ tag'[r] = tag'[p] => r = p
    <3>1. ASSUME NEW r \in Requests, r # q, pc[r] # "idle", gen[r] = d
          PROVE  tag[r] # seq[d] + 1
      <4>1. tag[r] <= seq[d]
        BY <3>1 DEF MatchInv
      <4> QED
        BY <4>1, <2>3
    <3> QED
      BY <3>1, <2>1, <2>2, <2>3 DEF MatchInv
  <2>7. ASSUME NEW e \in Event, Answers(e)
        PROVE  AnswersNext(e)
    BY <2>7, <2>1, <2>2, <2>3, TaggedIsReply DEF Answers, AnswersNext, Reply
  <2>8. \A i \in DOMAIN tdOut : tdOut[i] \in Event
    BY <2>3, ElementOfSeq, LenProperties
  <2>9. \A i \in DOMAIN tdOut' : AnswersNext(tdOut'[i])
    BY <2>2, <2>7, <2>8 DEF MatchInv
  <2>10. \A g \in Gens : AnswersNext(raw'[g])
    BY <2>2, <2>3, <2>7 DEF MatchInv
  <2>11. \A g \in Gens : \A r \in target'[g] : tag'[r] = raw'[g].tag
    BY <2>1, <2>2, <2>3, <2>4 DEF MatchInv
  <2>12. Given'
    <3>1. /\ resultCh[q] = None
          /\ resultCh \in [Requests -> SUBSET Requests]
      BY <2>2 DEF ReplyInv, TypeInv, TypeOK
    <3>2. \A r \in Requests : \A p \in resultCh[r] : r # q /\ p # q
      BY <2>2, <3>1 DEF MatchInv, Given, None
    <3> QED
      BY <2>1, <2>2, <2>3, <3>1, <3>2 DEF MatchInv, Given
  <2> QED
    BY <2>5, <2>6, <2>9, <2>10, <2>11, <2>12 DEF MatchInv, Answers, AnswersNext
<1>2. CASE ~Register(q)
  <2>1. UNCHANGED <<seq, gen, tag, tdOut, raw, target, resultCh>>
    BY <1>2 DEF Call, Send, GotReply, TimedOut, SawStop, Return, Unregister
  <2>2. pc \in [Requests -> CallStates]
    BY DEF TypeInv, TypeOK
  <2>3. \A r \in Requests : pc'[r] = "idle" <=> pc[r] = "idle"
    BY <1>2, <2>2
    DEF Call, Send, GotReply, TimedOut, SawStop, Return, Unregister
  <2>4. \A g \in Gens : \A r \in target'[g] : tag[r] = raw[g].tag
    BY <2>1 DEF MatchInv
  <2> QED
    BY <2>1, <2>3, <2>4, MatchOther
<1> QED
  BY <1>1, <1>2

\* The loop's steps keep replies and calls matched.
LEMMA MatchLoop ==
  ASSUME TypeInv, ReplyInv, MatchInv, NEW g \in Gens, Loop(g)
  PROVE  MatchInv'
<1>1. CASE LoopCheck(g) \/ LoopLock(g) \/ RouteUpdate(g) \/ EvictOldest(g)
             \/ RetryPush(g)
  <2>1. UNCHANGED <<seq, gen, tag, tdOut, raw, target, resultCh, pc>>
    BY <1>1 DEF LoopCheck, LoopLock, RouteUpdate, EvictOldest, RetryPush
  <2>2. \A h \in Gens : \A r \in target'[h] : tag[r] = raw[h].tag
    BY <2>1 DEF MatchInv
  <2> QED
    BY <2>1, <2>2, MatchOther
<1>2. CASE LoopReceive(g)
  <2>1. CASE tdOut = <<>>
    <3>1. UNCHANGED <<seq, gen, tag, tdOut, raw, target, resultCh, pc>>
      BY <1>2, <2>1 DEF LoopReceive
    <3>2. \A h \in Gens : \A r \in target'[h] : tag[r] = raw[h].tag
      BY <3>1 DEF MatchInv
    <3> QED
      BY <3>1, <3>2, MatchOther
  <2>2. CASE tdOut # <<>>
    <3>1. /\ raw' = [raw EXCEPT ![g] = Head(tdOut)]
          /\ tdOut' = Tail(tdOut)
          /\ UNCHANGED <<seq, gen, tag, target, resultCh, pc>>
          /\ loop[g] = "receive"
      BY <1>2, <2>2 DEF LoopReceive
    <3>2. tdOut \in Seq(Event) /\ raw \in [Gens -> Event]
      BY DEF TypeInv, TypeOK
    <3>3. /\ 1 \in DOMAIN tdOut
          /\ Head(tdOut) = tdOut[1]
          /\ \A i \in DOMAIN Tail(tdOut) :
               i + 1 \in DOMAIN tdOut /\ Tail(tdOut)[i] = tdOut[i + 1]
      BY <2>2, <3>2, HeadTailProperties, LenProperties, EmptySeq
    <3>4. \A i \in DOMAIN tdOut : AnswersNext(tdOut[i])
      BY <3>1 DEF MatchInv, Answers, AnswersNext
    <3>5. \A i \in DOMAIN tdOut' : AnswersNext(tdOut'[i])
      BY <3>1, <3>3, <3>4 DEF Answers, AnswersNext
    <3>6. \A h \in Gens : AnswersNext(raw'[h])
      <4>1. AnswersNext(raw'[g])
        BY <3>1, <3>2, <3>3, <3>4 DEF Answers, AnswersNext
      <4>2. ASSUME NEW h \in Gens, h # g PROVE AnswersNext(raw'[h])
        BY <4>2, <3>1, <3>2 DEF MatchInv, Answers, AnswersNext
      <4> QED
        BY <4>1, <4>2
    <3>7. target[g] = None
      BY <3>1 DEF ReplyInv
    <3>8. \A h \in Gens : \A r \in target'[h] : tag'[r] = raw'[h].tag
      BY <3>1, <3>2, <3>7 DEF MatchInv, None
    <3> QED
      BY <3>1, <3>5, <3>6, <3>8 DEF MatchInv, Answers, AnswersNext, Given
  <2> QED
    BY <2>1, <2>2
<1>3. CASE RouteReply(g)
  <2>1. PICK r \in Waiting(g, raw[g]) : target' = [target EXCEPT ![g] = {r}]
    BY <1>3 DEF RouteReply
  <2>2. UNCHANGED <<seq, gen, tag, tdOut, raw, resultCh, pc>>
    BY <1>3 DEF RouteReply
  <2>3. tag[r] = raw[g].tag
    BY DEF Waiting
  <2>4. target \in [Gens -> SUBSET Requests]
    BY DEF TypeInv, TypeOK
  <2>5. \A h \in Gens : \A q \in target'[h] : tag[q] = raw[h].tag
    BY <2>1, <2>3, <2>4 DEF MatchInv
  <2> QED
    BY <2>2, <2>5, MatchOther
<1>4. CASE HandReply(g)
  <2>1. PICK r \in target[g] : resultCh' = [resultCh EXCEPT ![r] = {raw[g].of}]
    BY <1>4 DEF HandReply
  <2>2. /\ loop[g] = "hand"
        /\ target' = [target EXCEPT ![g] = None]
        /\ UNCHANGED <<seq, gen, tag, tdOut, raw, pc>>
    BY <1>4 DEF HandReply
  <2>3. /\ raw[g] \in Reply /\ raw[g].tag # 0 /\ raw[g].of \in Requests
        /\ r \in Requests
    BY <2>1, <2>2 DEF TypeInv, TypeOK, Reply
  <2>4. pc[raw[g].of] # "idle" /\ tag[raw[g].of] = raw[g].tag
    BY <2>3 DEF MatchInv, Answers, AnswersNext
  <2>5. pc[r] # "idle" /\ tag[r] = raw[g].tag
    BY <2>1 DEF ReplyInv, MatchInv
  <2>6. gen[raw[g].of] = gen[r] => raw[g].of = r
    BY <2>3, <2>4, <2>5 DEF MatchInv
  <2>7. \A q \in resultCh'[r] : q = raw[g].of
    BY <2>1, <2>3 DEF TypeInv, TypeOK
  <2>8. Given'
    BY <2>1, <2>2, <2>3, <2>4, <2>6, <2>7 DEF MatchInv, Given, TypeInv, TypeOK
  <2>9. \A h \in Gens : \A q \in target'[h] : tag'[q] = raw'[h].tag
    BY <2>2 DEF MatchInv, None, TypeInv, TypeOK
  <2> QED
    BY <2>2, <2>8, <2>9 DEF MatchInv, Answers, AnswersNext
<1> QED
  BY <1>1, <1>2, <1>3, <1>4 DEF Loop

\* Every step keeps replies and calls matched.
LEMMA MatchNext ==
  TypeInv /\ ReplyInv /\ MatchInv /\ [Next]_vars => MatchInv'
<1> SUFFICES ASSUME TypeInv, ReplyInv, MatchInv, [Next]_vars PROVE MatchInv'
  OBVIOUS
<1>1. CASE Close \/ Reader \/ UNCHANGED vars
  <2>1. UNCHANGED <<seq, gen, tag, tdOut, raw, target, resultCh, pc>>
    BY <1>1 DEF Close, Reader, Listen, TakeUpdate, GiveUpListening, vars
  <2>2. \A h \in Gens : \A r \in target'[h] : tag[r] = raw[h].tag
    BY <2>1 DEF MatchInv
  <2> QED
    BY <2>1, <2>2, MatchOther
<1>2. CASE TDLib
  <2>1. /\ UNCHANGED <<seq, gen, tag, raw, target, resultCh, pc>>
        /\ tdOut \in Seq(Event) /\ tag \in [Requests -> Nat]
    BY <1>2 DEF TDLib, TdUpdate, TdReply, TypeInv, TypeOK
  <2>2. PICK e \in Event : tdOut' = Append(tdOut, e) /\ Answers(e)
    <3>1. CASE TdUpdate
      <4>1. [tag |-> 0, id |-> emitted + 1] \in Event
        BY DEF Event, Update, TypeInv, TypeOK
      <4> QED
        BY <3>1, <4>1 DEF TdUpdate, Answers
    <3>2. ASSUME NEW r \in Requests, TdReply(r)
          PROVE  \E e \in Event : tdOut' = Append(tdOut, e) /\ Answers(e)
      <4>1. pc[r] # "idle" /\ tag[r] \in Nat \ {0}
        BY <3>2 DEF TdReply, TypeInv, TypeOK
      <4>2. [tag |-> tag[r], of |-> r] \in Event
        BY <4>1 DEF Event, Reply
      <4> QED
        BY <3>2, <4>1, <4>2 DEF TdReply, Answers
    <3> QED
      BY <1>2, <3>1, <3>2 DEF TDLib
  <2>3. \A i \in DOMAIN tdOut' : AnswersNext(tdOut'[i])
    <3>1. \A i \in DOMAIN tdOut' :
            tdOut'[i] = e \/ (i \in DOMAIN tdOut /\ tdOut'[i] = tdOut[i])
      BY <2>1, <2>2, AppendProperties, LenProperties
    <3> QED
      BY <2>1, <2>2, <3>1 DEF MatchInv, Answers, AnswersNext
  <2> QED
    BY <2>1, <2>3 DEF MatchInv, Answers, AnswersNext, Given
<1> QED
  BY <1>1, <1>2, MatchCall, MatchLoop DEF Next

\* A call is never given the reply to another call of its dispatcher, however
\* late replies come and however many calls time out.
THEOREM RepliesMatchCalls == Spec => []OwnReply
<1>1. MatchInv => OwnReply
  BY DEF MatchInv, Given, OwnReply
<1> QED
  BY <1>1, InitType, TypeNext, InitReply, ReplyNext, InitMatch, MatchNext, PTL
  DEF Spec

-----------------------------------------------------------------------------
(* Updates.                                                                *)

\* Every id of the one set is below every id of the other.
Before(X, Y) == \A x \in X : \A y \in Y : x < y

LEMMA BeforeDisjoint ==
  ASSUME NEW X \in SUBSET Nat, NEW Y, Before(X, Y)
  PROVE  X \cap Y = {}
<1>1. ASSUME NEW x \in X, x \in Y PROVE FALSE
  <2>1. x < x /\ x \in Nat
    BY <1>1 DEF Before
  <2> QED
    BY <2>1
<1> QED
  BY <1>1

\* An empty sequence, and one with an event more at its end, or less at its start.
LEMMA IdsEmpty == IdsOf(<<>>) = {} /\ InOrder(<<>>)
  BY DEF IdsOf, InOrder

LEMMA IdsType ==
  ASSUME NEW s \in Seq(Event)
  PROVE  IdsOf(s) \subseteq Nat
<1>1. ASSUME NEW i \in DOMAIN s, s[i].tag = 0 PROVE s[i].id \in Nat
  <2>1. s[i] \in Event
    BY ElementOfSeq, LenProperties
  <2> QED
    BY <1>1, <2>1 DEF Event, Update, Reply
<1> QED
  BY <1>1 DEF IdsOf

\* The ids of one event.
IdsOfOne(e) == IF e.tag = 0 THEN {e.id} ELSE {}

LEMMA IdsOne ==
  ASSUME NEW e \in Event
  PROVE  /\ <<e>> \in Seq(Event)
         /\ IdsOf(<<e>>) = IdsOfOne(e)
         /\ InOrder(<<e>>)
<1>1. <<e>> \in Seq(Event) /\ DOMAIN <<e>> = {1} /\ <<e>>[1] = e
  OBVIOUS
<1> QED
  BY <1>1 DEF IdsOf, IdsOfOne, InOrder

\* Sequences one after the other.
LEMMA IdsConcat ==
  ASSUME NEW s \in Seq(Event), NEW t \in Seq(Event)
  PROVE  /\ s \o t \in Seq(Event)
         /\ IdsOf(s \o t) = IdsOf(s) \union IdsOf(t)
         /\ InOrder(s) /\ InOrder(t) /\ Before(IdsOf(s), IdsOf(t))
              => InOrder(s \o t)
<1> DEFINE u == s \o t
           m == Len(s)
           n == Len(t)
<1>1. /\ u \in Seq(Event) /\ m \in Nat /\ n \in Nat
      /\ DOMAIN s = 1..m /\ DOMAIN t = 1..n /\ DOMAIN u = 1..(m + n)
      /\ \A i \in 1..(m + n) : u[i] = IF i <= m THEN s[i] ELSE t[i - m]
  BY ConcatProperties, LenProperties
<1> HIDE DEF u, m, n
<1>2. ASSUME NEW i \in DOMAIN u
      PROVE  \/ i \in DOMAIN s /\ u[i] = s[i]
             \/ \E j \in DOMAIN t : i = m + j /\ u[i] = t[j]
  <2>1. CASE i <= m
    BY <1>1, <2>1
  <2>2. CASE ~(i <= m)
    <3>1. i - m \in 1..n /\ i = m + (i - m)
      BY <1>1, <2>2
    <3> QED
      BY <1>1, <2>2, <3>1
  <2> QED
    BY <2>1, <2>2
<1>3. /\ \A i \in DOMAIN s : i \in DOMAIN u /\ u[i] = s[i]
      /\ \A j \in DOMAIN t : m + j \in DOMAIN u /\ u[m + j] = t[j]
  BY <1>1
<1>4. IdsOf(u) = IdsOf(s) \union IdsOf(t)
  BY <1>2, <1>3 DEF IdsOf
<1>5. ASSUME InOrder(s), InOrder(t), Before(IdsOf(s), IdsOf(t)),
             NEW i \in DOMAIN u, NEW j \in DOMAIN u, i < j,
             u[i].tag = 0, u[j].tag = 0
      PROVE  u[i].id < u[j].id
  <2>1. CASE i \in DOMAIN s /\ u[i] = s[i] /\ j \in DOMAIN s /\ u[j] = s[j]
    BY <1>5, <2>1 DEF InOrder
  <2>2. ASSUME i \in DOMAIN s, u[i] = s[i], NEW k \in DOMAIN t, u[j] = t[k]
        PROVE  u[i].id < u[j].id
    <3>1. u[i].id \in IdsOf(s) /\ u[j].id \in IdsOf(t)
      BY <1>5, <2>2 DEF IdsOf
    <3> QED
      BY <1>5, <3>1 DEF Before
  <2>3. ASSUME NEW h \in DOMAIN t, i = m + h, u[i] = t[h],
               NEW k \in DOMAIN t, j = m + k, u[j] = t[k]
        PROVE  u[i].id < u[j].id
    <3>1. h < k
      BY <1>1, <1>5, <2>3
    <3> QED
      BY <1>5, <2>3, <3>1 DEF InOrder
  <2>4. ASSUME NEW h \in DOMAIN t, i = m + h, j \in DOMAIN s PROVE FALSE
    BY <1>1, <1>5, <2>4
  <2> QED
    BY <1>2, <2>1, <2>2, <2>3, <2>4
<1>6. InOrder(s) /\ InOrder(t) /\ Before(IdsOf(s), IdsOf(t)) => InOrder(u)
  <2> SUFFICES ASSUME InOrder(s), InOrder(t), Before(IdsOf(s), IdsOf(t))
               PROVE  InOrder(u)
    OBVIOUS
  <2> QED
    BY <1>5 DEF InOrder
<1> QED
  BY <1>1, <1>4, <1>6 DEF u

\* An event more at the end.
LEMMA IdsAppend ==
  ASSUME NEW s \in Seq(Event), NEW e \in Event
  PROVE  /\ IdsOf(Append(s, e)) = IdsOf(s) \union IdsOfOne(e)
         /\ InOrder(s) /\ Before(IdsOf(s), IdsOfOne(e)) => InOrder(Append(s, e))
<1>1. Append(s, e) = s \o <<e>>
  BY AppendIsConcat
<1> QED
  BY <1>1, IdsOne, IdsConcat

\* An event less at the start.
LEMMA IdsTail ==
  ASSUME NEW s \in Seq(Event), s # <<>>
  PROVE  /\ Head(s) \in Event
         /\ IdsOf(s) = IdsOfOne(Head(s)) \union IdsOf(Tail(s))
         /\ InOrder(s) => /\ InOrder(Tail(s))
                          /\ Before(IdsOfOne(Head(s)), IdsOf(Tail(s)))
<1> DEFINE t == Tail(s)
           n == Len(s)
<1>1. /\ n \in Nat /\ n # 0 /\ DOMAIN s = 1..n
      /\ Head(s) = s[1] /\ Head(s) \in Event
      /\ DOMAIN t = 1..(n - 1)
      /\ \A i \in 1..(n - 1) : t[i] = s[i + 1]
  BY HeadTailProperties, LenProperties, EmptySeq
<1> HIDE DEF t, n
<1>2. /\ \A i \in DOMAIN s : i = 1 \/ \E j \in DOMAIN t : i = j + 1 /\ t[j] = s[i]
      /\ \A j \in DOMAIN t : j + 1 \in DOMAIN s /\ t[j] = s[j + 1] /\ 1 < j + 1
      /\ 1 \in DOMAIN s
  <2>1. ASSUME NEW i \in DOMAIN s, i # 1
        PROVE  \E j \in DOMAIN t : i = j + 1 /\ t[j] = s[i]
    <3>1. i - 1 \in 1..(n - 1) /\ i = (i - 1) + 1
      BY <1>1, <2>1
    <3> QED
      BY <1>1, <3>1
  <2> QED
    BY <1>1, <2>1
<1>3. IdsOf(s) = IdsOfOne(s[1]) \union IdsOf(t)
  BY <1>2 DEF IdsOf, IdsOfOne
<1>4. ASSUME InOrder(s) PROVE InOrder(t) /\ Before(IdsOfOne(s[1]), IdsOf(t))
  <2>1. InOrder(t)
    <3>1. \A i, j \in DOMAIN t : i < j => i + 1 < j + 1
      BY <1>1
    <3> QED
      BY <1>2, <1>4, <3>1 DEF InOrder
  <2>2. Before(IdsOfOne(s[1]), IdsOf(t))
    BY <1>2, <1>4 DEF InOrder, Before, IdsOf, IdsOfOne
  <2> QED
    BY <2>1, <2>2
<1> QED
  BY <1>1, <1>3, <1>4 DEF t

\* There is one dispatcher, or there will be.
Sole == made = 0 \/ (made = 1 /\ current = 1)

\* The parts of the line of updates, for the first dispatcher: given to the
\* reader, in the channel, with the loop, with TDLib, and dropped.
Given1   == IdsOf(delivered)
Queued1  == IdsOf(updates[1])
Held1    == IF loop[1] \in {"route", "evict", "retry"} THEN IdsOfOne(raw[1]) ELSE {}
Coming1  == IdsOf(tdOut)
Dropped1 == {n \in Nat : [tag |-> 0, id |-> n] \in evicted}

\* While there is one dispatcher, each part of the line is in order and comes
\* before the next, what was dropped comes before all that is still in the
\* dispatcher, and together they are what TDLib emitted.  The loop finds room
\* when it pushes again, which is why it never drops the newest.
LineInOrder ==
  /\ InOrder(delivered) /\ InOrder(updates[1]) /\ InOrder(tdOut)
  /\ Before(Given1, Queued1) /\ Before(Given1, Held1) /\ Before(Given1, Coming1)
  /\ Before(Queued1, Held1) /\ Before(Queued1, Coming1)
  /\ Before(Held1, Coming1)

DroppedIsOldest ==
  /\ Before(Dropped1, Queued1) /\ Before(Dropped1, Held1)
  /\ Before(Dropped1, Coming1)
  /\ Dropped1 \cap Given1 = {}

NoneLost == Given1 \union Queued1 \union Held1 \union Coming1 \union Dropped1 = 1..emitted

LineInv ==
  /\ listening <= made
  /\ Sole /\ 1 \in Gens =>
       /\ LineInOrder
       /\ DroppedIsOldest
       /\ NoneLost
       /\ loop[1] = "retry" => Len(updates[1]) < UpdatesCap

\* Nothing was emitted at first.
LEMMA InitLine == Init => LineInv
<1> SUFFICES ASSUME Init PROVE LineInv
  OBVIOUS
<1>1. listening <= made
  BY DEF Init
<1>2. ASSUME 1 \in Gens
      PROVE  /\ Given1 = {} /\ Queued1 = {} /\ Held1 = {} /\ Coming1 = {}
             /\ Dropped1 = {}
             /\ InOrder(delivered) /\ InOrder(updates[1]) /\ InOrder(tdOut)
             /\ loop[1] = "none" /\ emitted = 0
  BY <1>2, IdsEmpty DEF Init, Given1, Queued1, Held1, Coming1, Dropped1
<1> QED
  BY <1>1, <1>2
  DEF Init, LineInv, LineInOrder, DroppedIsOldest, NoneLost, Before

\* What is known of the line while there is one dispatcher.
LEMMA LineTypes ==
  ASSUME TypeInv, 1 \in Gens
  PROVE  /\ delivered \in Seq(Event) /\ updates[1] \in Seq(Event)
         /\ tdOut \in Seq(Event) /\ raw[1] \in Event
         /\ Given1 \subseteq Nat /\ Queued1 \subseteq Nat
         /\ Held1 \subseteq Nat /\ Coming1 \subseteq Nat /\ Dropped1 \subseteq Nat
         /\ emitted \in Nat
<1>1. /\ delivered \in Seq(Event) /\ updates[1] \in Seq(Event)
      /\ tdOut \in Seq(Event) /\ raw[1] \in Event /\ emitted \in Nat
  BY DEF TypeInv, TypeOK
<1>2. IdsOfOne(raw[1]) \subseteq Nat
  BY <1>1 DEF IdsOfOne, Event, Reply, Update
<1> QED
  BY <1>1, <1>2, IdsType DEF Given1, Queued1, Held1, Coming1, Dropped1

\* A step that leaves the parts of the line alone leaves the invariant alone.
LEMMA LineFrame ==
  ASSUME LineInv, Sole' => Sole, listening' <= made',
         UNCHANGED <<delivered, tdOut, emitted, evicted>>,
         1 \in Gens => UNCHANGED <<updates[1], Held1>>,
         loop'[1] = "retry" => loop[1] = "retry"
  PROVE  LineInv'
<1>1. ASSUME Sole', 1 \in Gens
      PROVE  /\ LineInOrder' /\ DroppedIsOldest' /\ NoneLost'
             /\ loop'[1] = "retry" => Len(updates'[1]) < UpdatesCap
  <2>1. UNCHANGED <<Given1, Queued1, Held1, Coming1, Dropped1, updates[1]>>
    BY <1>1 DEF Given1, Queued1, Coming1, Dropped1
  <2>2. /\ LineInOrder /\ DroppedIsOldest /\ NoneLost
        /\ loop[1] = "retry" => Len(updates[1]) < UpdatesCap
    BY <1>1 DEF LineInv
  <2> QED
    BY <2>1, <2>2 DEF LineInOrder, DroppedIsOldest, NoneLost
<1> QED
  BY <1>1 DEF LineInv

\* Making a dispatcher does not move the line.
LEMMA LineDispatcher ==
  ASSUME TypeInv, NEW d \in Gens, DispatcherFor(d), UNCHANGED raw
  PROVE  /\ Sole' => Sole
         /\ d <= made' /\ made <= made'
         /\ 1 \in Gens => UNCHANGED Held1
         /\ loop'[1] = "retry" => loop[1] = "retry"
<1>1. /\ made \in 0..MaxGen /\ current \in 0..made /\ MaxGen \in Nat
      /\ loop \in [Gens -> LoopStates]
      /\ \A g \in Gens : g > made => loop[g] = "none"
  BY DispatcherAssumption DEF TypeInv, TypeOK
<1>2. CASE UNCHANGED <<made, current, loop>> /\ d = current
  BY <1>1, <1>2 DEF Sole, Held1
<1>3. CASE /\ current = 0 /\ d = made + 1 /\ made' = d /\ current' = d
           /\ loop' = [loop EXCEPT ![d] = "check"]
  <2>1. loop[d] = "none"
    BY <1>1, <1>3
  <2>2. Sole' => Sole
    BY <1>1, <1>3 DEF Sole
  <2>3. 1 \in Gens => UNCHANGED Held1
    BY <1>1, <1>3, <2>1 DEF Held1
  <2>4. loop'[1] = "retry" => loop[1] = "retry"
    BY <1>1, <1>3
  <2> QED
    BY <1>1, <1>3, <2>2, <2>3, <2>4
<1> QED
  BY <1>2, <1>3 DEF DispatcherFor

\* The only loop that runs is that of the first dispatcher.
LEMMA SoleLoop ==
  ASSUME TypeInv, Sole, NEW g \in Gens, loop[g] # "none"
  PROVE  g = 1
<1>1. g \in Nat /\ g >= 1 /\ ~(g > made)
  BY DEF TypeInv, Gens
<1> QED
  BY <1>1 DEF Sole, TypeInv, TypeOK

\* TDLib's events join the end of the line.
LEMMA LineEmit ==
  ASSUME TypeInv, LineInv, TDLib
  PROVE  LineInv'
<1>1. CASE TdUpdate
  <2> DEFINE e == [tag |-> 0, id |-> emitted + 1]
  <2>1. /\ UNCHANGED <<made, current, loop, raw, updates, evicted, listening,
                       delivered>>
        /\ tdOut' = Append(tdOut, e) /\ emitted' = emitted + 1
    BY <1>1 DEF TdUpdate
  <2>2. ASSUME Sole, 1 \in Gens
        PROVE  LineInOrder' /\ DroppedIsOldest' /\ NoneLost'
    <3>1. /\ LineInOrder /\ DroppedIsOldest /\ NoneLost
          /\ tdOut \in Seq(Event) /\ emitted \in Nat
      BY <2>2, LineTypes DEF LineInv
    <3>2. e \in Event /\ IdsOfOne(e) = {emitted + 1}
      BY <3>1 DEF Event, Update, IdsOfOne
    <3>3. \A n \in 1..emitted : n < emitted + 1
      BY <3>1
    <3>4. /\ Before(Given1, IdsOfOne(e)) /\ Before(Queued1, IdsOfOne(e))
          /\ Before(Held1, IdsOfOne(e)) /\ Before(Coming1, IdsOfOne(e))
          /\ Before(Dropped1, IdsOfOne(e))
      BY <3>1, <3>2, <3>3 DEF NoneLost, Before
    <3>5. /\ Coming1' = Coming1 \union IdsOfOne(e)
          /\ InOrder(tdOut')
      BY <2>1, <3>1, <3>2, <3>4, IdsAppend DEF Coming1, LineInOrder
    <3>6. UNCHANGED <<Given1, Queued1, Held1, Dropped1, delivered, updates>>
      BY <2>1 DEF Given1, Queued1, Held1, Dropped1
    <3>7. 1..(emitted + 1) = 1..emitted \union {emitted + 1}
      BY <3>1
    <3>8. NoneLost'
      BY <2>1, <3>1, <3>2, <3>5, <3>6, <3>7 DEF NoneLost
    <3>9. LineInOrder' /\ DroppedIsOldest'
      BY <3>1, <3>4, <3>5, <3>6 DEF LineInOrder, DroppedIsOldest, Before
    <3> QED
      BY <3>8, <3>9
  <2> QED
    BY <2>1, <2>2 DEF LineInv, Sole
<1>2. ASSUME NEW r \in Requests, TdReply(r)
      PROVE  LineInv'
  <2> DEFINE e == [tag |-> tag[r], of |-> r]
  <2>1. /\ UNCHANGED <<made, current, loop, raw, updates, evicted, listening,
                       delivered, emitted>>
        /\ tdOut' = Append(tdOut, e)
    BY <1>2 DEF TdReply
  <2>2. tag[r] \in Nat /\ tag[r] # 0 /\ tdOut \in Seq(Event)
    BY <1>2 DEF TypeInv, TypeOK, TdReply
  <2>3. e \in Event /\ IdsOfOne(e) = {}
    BY <2>2 DEF Event, Reply, IdsOfOne
  <2>4. /\ Coming1' = Coming1
        /\ InOrder(tdOut) => InOrder(tdOut')
    BY <2>1, <2>2, <2>3, IdsAppend DEF Coming1, Before
  <2>5. UNCHANGED <<Given1, Queued1, Held1, Dropped1, delivered, updates, loop,
                    emitted, Sole, listening, made>>
    BY <2>1 DEF Given1, Queued1, Held1, Dropped1, Sole
  <2>6. LineInOrder /\ DroppedIsOldest /\ NoneLost
        => LineInOrder' /\ DroppedIsOldest' /\ NoneLost'
    BY <2>4, <2>5 DEF LineInOrder, DroppedIsOldest, NoneLost
  <2> QED
    BY <2>5, <2>6 DEF LineInv
<1> QED
  BY <1>1, <1>2 DEF TDLib

\* The loop takes the head of the line into its hands.
LEMMA LineReceive ==
  ASSUME TypeInv, LineInv, NEW g \in Gens, LoopReceive(g)
  PROVE  LineInv'
<1>1. /\ UNCHANGED <<made, current, updates, evicted, listening, delivered,
                     emitted, Sole>>
      /\ loop[g] = "receive"
  BY DEF LoopReceive, Sole
<1>2. ASSUME Sole, 1 \in Gens
      PROVE  /\ LineInOrder' /\ DroppedIsOldest' /\ NoneLost'
             /\ loop'[1] # "retry"
  <2>1. g = 1 /\ loop \in [Gens -> LoopStates] /\ raw \in [Gens -> Event]
    BY <1>1, <1>2, SoleLoop DEF TypeInv, TypeOK
  <2>2. /\ LineInOrder /\ DroppedIsOldest /\ NoneLost
        /\ tdOut \in Seq(Event)
    BY <1>2, LineTypes DEF LineInv
  <2>3. UNCHANGED <<Given1, Queued1, Dropped1>> /\ Held1 = {}
    BY <1>1, <2>1 DEF Given1, Queued1, Dropped1, Held1
  <2>4. CASE /\ tdOut # <<>>
             /\ raw' = [raw EXCEPT ![g] = Head(tdOut)]
             /\ tdOut' = Tail(tdOut)
             /\ LoopMove(g, "receive", "route")
    <3>1. /\ Held1' = IdsOfOne(Head(tdOut)) /\ loop'[1] = "route"
      BY <2>1, <2>4 DEF Held1
    <3>2. /\ Coming1 = Held1' \union Coming1'
          /\ InOrder(tdOut') /\ Before(Held1', Coming1')
      BY <2>2, <2>4, <3>1, IdsTail DEF Coming1, LineInOrder
    <3>3. LineInOrder'
      BY <1>1, <2>2, <2>3, <3>2 DEF LineInOrder, Before
    <3>4. DroppedIsOldest' /\ NoneLost'
      BY <1>1, <2>2, <2>3, <3>2 DEF DroppedIsOldest, NoneLost, Before
    <3> QED
      BY <3>1, <3>3, <3>4
  <2>5. CASE tdOut = <<>> /\ LoopMove(g, "receive", "check") /\ UNCHANGED <<raw, tdOut>>
    <3>1. loop'[1] = "check" /\ Held1' = {} /\ UNCHANGED Coming1
      BY <2>1, <2>5 DEF Held1, Coming1
    <3> QED
      BY <1>1, <2>2, <2>3, <2>5, <3>1
      DEF LineInOrder, DroppedIsOldest, NoneLost
  <2> QED
    BY <2>4, <2>5 DEF LoopReceive
<1> QED
  BY <1>1, <1>2 DEF LineInv

\* What the loop holds goes to the end of the channel, which has room for it.
LEMMA LinePush ==
  ASSUME TypeInv, LineInv, NEW g \in Gens, PushUpdate(g),
         loop[g] \in {"route", "evict", "retry"}, loop' = [loop EXCEPT ![g] = "check"],
         UNCHANGED <<made, current, raw, tdOut, listening, delivered, emitted>>
  PROVE  LineInv'
<1>1. UNCHANGED Sole
  BY DEF Sole
<1>2. ASSUME Sole, 1 \in Gens
      PROVE  /\ LineInOrder' /\ DroppedIsOldest' /\ NoneLost'
             /\ loop'[1] # "retry"
  <2>1. g = 1 /\ loop \in [Gens -> LoopStates] /\ updates \in [Gens -> Seq(Event)]
    BY <1>2, SoleLoop DEF TypeInv, TypeOK
  <2>2. /\ LineInOrder /\ DroppedIsOldest /\ NoneLost
        /\ updates[1] \in Seq(Event) /\ raw[1] \in Event
    BY <1>2, LineTypes DEF LineInv
  <2>3. /\ updates'[1] = Append(updates[1], raw[1]) /\ UNCHANGED evicted
        /\ loop'[1] = "check" /\ Held1 = IdsOfOne(raw[1]) /\ Held1' = {}
    BY <2>1 DEF PushUpdate, Held1
  <2>4. /\ Queued1' = Queued1 \union Held1
        /\ InOrder(updates'[1])
    BY <2>2, <2>3, IdsAppend DEF Queued1, LineInOrder
  <2>5. UNCHANGED <<Given1, Coming1, Dropped1>>
    BY <2>3 DEF Given1, Coming1, Dropped1
  <2>6. LineInOrder'
    BY <2>2, <2>3, <2>4, <2>5 DEF LineInOrder, Before
  <2>7. DroppedIsOldest' /\ NoneLost'
    BY <2>2, <2>3, <2>4, <2>5 DEF DroppedIsOldest, NoneLost, Before
  <2> QED
    BY <2>3, <2>6, <2>7
<1> QED
  BY <1>1, <1>2 DEF LineInv

\* A reply leaves the loop's hands: it is no update.
LEMMA LineReply ==
  ASSUME TypeInv, LineInv, NEW g \in Gens, RouteReply(g)
  PROVE  LineInv'
<1>1. PICK r \in Requests : Match(g, r)
  BY DEF RouteReply
<1>2. raw[g].tag # 0 /\ loop[g] = "route" /\ loop' = [loop EXCEPT ![g] = "hand"]
  BY <1>1 DEF Waiting
<1>3. UNCHANGED Sole
  BY <1>1 DEF Sole
<1>4. ASSUME 1 \in Gens PROVE UNCHANGED Held1
  <2>1. CASE g = 1
    BY <1>1, <1>2, <1>4, <2>1 DEF Held1, IdsOfOne, TypeInv, TypeOK
  <2>2. CASE g # 1
    BY <1>1, <1>2, <1>4, <2>2 DEF Held1, TypeInv, TypeOK
  <2> QED
    BY <2>1, <2>2
<1>5. loop'[1] = "retry" => loop[1] = "retry"
  BY <1>2 DEF TypeInv, TypeOK
<1> QED
  BY <1>1, <1>3, <1>4, <1>5, LineFrame DEF LineInv

\* The oldest update of a channel leaves it for the dropped ones, and the loop
\* then finds room.
LEMMA LineEvict ==
  ASSUME TypeInv, LineInv, NEW g \in Gens, EvictOldest(g)
  PROVE  LineInv'
<1>1. /\ UNCHANGED <<made, current, raw, tdOut, listening, delivered, emitted, Sole>>
      /\ loop[g] = "evict" /\ loop' = [loop EXCEPT ![g] = "retry"]
  BY DEF EvictOldest, Sole
<1>2. ASSUME Sole, 1 \in Gens
      PROVE  /\ LineInOrder' /\ DroppedIsOldest' /\ NoneLost'
             /\ Len(updates'[1]) < UpdatesCap
  <2>1. g = 1 /\ loop \in [Gens -> LoopStates] /\ updates \in [Gens -> Seq(Event)]
    BY <1>1, <1>2, SoleLoop DEF TypeInv, TypeOK
  <2>2. /\ LineInOrder /\ DroppedIsOldest /\ NoneLost
        /\ updates[1] \in Seq(Event) /\ Len(updates[1]) <= UpdatesCap
    BY <1>2, LineTypes DEF LineInv, TypeInv, TypeOK
  <2>3. UNCHANGED <<Given1, Held1, Coming1>>
    BY <1>1, <2>1 DEF Given1, Held1, Coming1
  <2>4. CASE /\ updates[1] # <<>>
             /\ updates' = [updates EXCEPT ![1] = Tail(@)]
             /\ evicted' = evicted \union {Head(updates[1])}
    <3> DEFINE h == Head(updates[1])
    <3>1. /\ h \in Event /\ updates'[1] = Tail(updates[1])
          /\ Queued1 = IdsOfOne(h) \union Queued1'
          /\ InOrder(updates'[1]) /\ Before(IdsOfOne(h), Queued1')
      BY <2>1, <2>2, <2>4, IdsTail DEF Queued1, LineInOrder
    <3>2. Dropped1' = Dropped1 \union IdsOfOne(h)
      <4>1. CASE h.tag = 0
        <5>1. h = [tag |-> 0, id |-> h.id] /\ h.id \in Nat
          BY <3>1, <4>1 DEF Event, Reply, Update
        <5>2. \A n \in Nat : [tag |-> 0, id |-> n] = h <=> n = h.id
          BY <5>1
        <5> QED
          BY <2>4, <4>1, <5>1, <5>2 DEF Dropped1, IdsOfOne
      <4>2. CASE h.tag # 0
        <5>1. \A n \in Nat : [tag |-> 0, id |-> n] # h
          BY <4>2
        <5> QED
          BY <2>4, <4>2, <5>1 DEF Dropped1, IdsOfOne
      <4> QED
        BY <4>1, <4>2
    <3>3. Len(updates'[1]) < UpdatesCap
      <4>1. Len(updates'[1]) = Len(updates[1]) - 1 /\ Len(updates[1]) \in Nat
        BY <2>2, <2>4, <3>1, HeadTailProperties, LenProperties
      <4> QED
        BY <2>2, <4>1, DispatcherAssumption
    <3>4. Given1 \cap IdsOfOne(h) = {}
      <4>1. Before(Given1, IdsOfOne(h)) /\ Given1 \subseteq Nat
        BY <1>2, <2>2, <3>1, LineTypes DEF LineInOrder, Before
      <4> QED
        BY <4>1, BeforeDisjoint
    <3>5. LineInOrder'
      BY <1>1, <2>2, <2>3, <3>1 DEF LineInOrder, Before
    <3>6. Before(Dropped1', Queued1') /\ Before(Dropped1', Held1')
          /\ Before(Dropped1', Coming1')
      BY <2>2, <2>3, <3>1, <3>2 DEF LineInOrder, DroppedIsOldest, Before
    <3>7. Dropped1' \cap Given1' = {}
      BY <2>2, <2>3, <3>2, <3>4 DEF DroppedIsOldest
    <3>8. NoneLost'
      BY <1>1, <2>2, <2>3, <3>1, <3>2 DEF NoneLost
    <3> QED
      BY <3>3, <3>5, <3>6, <3>7, <3>8 DEF DroppedIsOldest
  <2>5. CASE updates[1] = <<>> /\ UNCHANGED queue
    <3>1. UNCHANGED <<Queued1, Dropped1, updates>>
      BY <2>5 DEF Queued1, Dropped1
    <3>2. Len(updates'[1]) < UpdatesCap
      BY <2>5, DispatcherAssumption
    <3> QED
      BY <1>1, <2>2, <2>3, <3>1, <3>2 DEF LineInOrder, DroppedIsOldest, NoneLost
  <2> QED
    BY <2>1, <2>4, <2>5 DEF EvictOldest
<1> QED
  BY <1>1, <1>2 DEF LineInv

\* The loops' steps keep the line.
LEMMA LineLoop == ASSUME TypeInv, LineInv, NEW g \in Gens, Loop(g) PROVE LineInv'
<1>1. loop \in [Gens -> LoopStates]
  BY DEF TypeInv, TypeOK
<1>2. ASSUME loop[g] \notin {"route", "evict", "retry"},
             NEW to \in LoopStates \ {"route", "evict", "retry"}, LoopMove(g, loop[g], to),
             UNCHANGED <<raw, tdOut, updates, evicted>>
      PROVE  LineInv'
  <2>1. 1 \in Gens => UNCHANGED Held1
    BY <1>1, <1>2 DEF Held1
  <2>2. (loop'[1] = "retry" => loop[1] = "retry") /\ (Sole' => Sole)
    BY <1>1, <1>2 DEF Sole
  <2> QED
    BY <1>2, <2>1, <2>2, LineFrame DEF LineInv
<1>3. CASE LoopCheck(g)
  BY <1>2, <1>3 DEF LoopCheck, LoopStates
<1>4. CASE LoopLock(g)
  BY <1>2, <1>4 DEF LoopLock, LoopStates
<1>5. CASE LoopReceive(g)
  BY <1>5, LineReceive
<1>6. CASE RouteReply(g)
  BY <1>6, LineReply
<1>7. CASE HandReply(g)
  BY <1>2, <1>7 DEF HandReply, LoopStates
<1>8. CASE RouteUpdate(g)
  <2>1. CASE NoMatch(g, "check") /\ PushUpdate(g)
    BY <2>1, LinePush
  <2>2. CASE NoMatch(g, "evict") /\ UNCHANGED queue
    <3>1. (1 \in Gens => UNCHANGED Held1) /\ (loop'[1] = "retry" => loop[1] = "retry")
          /\ (Sole' => Sole)
      BY <1>1, <2>2 DEF Held1, Sole
    <3> QED
      BY <2>2, <3>1, LineFrame DEF LineInv
  <2> QED
    BY <1>8, <2>1, <2>2 DEF RouteUpdate
<1>9. CASE EvictOldest(g)
  BY <1>9, LineEvict
<1>10. CASE RetryPush(g)
  <2>1. CASE PushUpdate(g)
    BY <1>10, <2>1, LinePush DEF RetryPush
  <2>2. CASE DropNewest(g)
    <3>1. loop[g] = "retry" /\ Len(updates[g]) = UpdatesCap
          /\ UNCHANGED <<made, current, listening>>
      BY <1>10, <2>2 DEF RetryPush
    <3>2. ~Sole
      BY <3>1, SoleLoop, DispatcherAssumption DEF LineInv
    <3> QED
      BY <3>1, <3>2 DEF LineInv, Sole
  <2> QED
    BY <1>10, <2>1, <2>2 DEF RetryPush
<1> QED
  BY <1>3, <1>4, <1>5, <1>6, <1>7, <1>8, <1>9, <1>10 DEF Loop

\* The reader's steps keep the line: what it takes was the oldest in the channel.
LEMMA LineReader == ASSUME TypeInv, LineInv, Reader PROVE LineInv'
<1>1. CASE Listen
  <2>1. PICK d \in Gens : DispatcherFor(d) /\ listening' = d
    BY <1>1 DEF Listen
  <2>2. UNCHANGED <<raw, delivered, tdOut, emitted, evicted, updates>>
    BY <1>1 DEF Listen
  <2> QED
    BY <2>1, <2>2, LineDispatcher, LineFrame
<1>2. CASE TakeUpdate
  <2>1. /\ UNCHANGED <<made, current, loop, raw, tdOut, evicted, emitted, Sole>>
        /\ listening' = 0 /\ made \in Nat /\ listening \in Gens
    BY <1>2 DEF TakeUpdate, Sole, TypeInv, TypeOK, Gens
  <2>2. ASSUME Sole, 1 \in Gens
        PROVE  /\ LineInOrder' /\ DroppedIsOldest' /\ NoneLost'
               /\ loop'[1] = "retry" => Len(updates'[1]) < UpdatesCap
    <3>1. /\ LineInOrder /\ DroppedIsOldest /\ NoneLost
          /\ updates[1] \in Seq(Event) /\ delivered \in Seq(Event)
      BY <2>2, LineTypes DEF LineInv
    <3>2. listening = 1
      BY <1>2, <2>1, <2>2 DEF LineInv, Sole, Gens
    <3> DEFINE h == Head(updates[1])
    <3>3. /\ updates'[1] = Tail(updates[1]) /\ updates[1] # <<>>
          /\ delivered' = Append(delivered, h)
      BY <1>2, <2>2, <3>2 DEF TakeUpdate, TypeInv, TypeOK
    <3>4. /\ h \in Event
          /\ Queued1 = IdsOfOne(h) \union Queued1'
          /\ InOrder(updates'[1]) /\ Before(IdsOfOne(h), Queued1')
      BY <3>1, <3>3, IdsTail DEF Queued1, LineInOrder
    <3>5. /\ Given1' = Given1 \union IdsOfOne(h)
          /\ InOrder(delivered')
      <4>1. Before(Given1, IdsOfOne(h))
        BY <3>1, <3>4 DEF LineInOrder, Before
      <4> QED
        BY <3>1, <3>3, <3>4, <4>1, IdsAppend DEF Given1, LineInOrder
    <3>6. UNCHANGED <<Held1, Coming1, Dropped1>>
      BY <2>1 DEF Held1, Coming1, Dropped1
    <3>7. Dropped1 \cap IdsOfOne(h) = {}
      <4>1. Before(Dropped1, IdsOfOne(h)) /\ Dropped1 \subseteq Nat
        BY <2>2, <3>1, <3>4, LineTypes DEF DroppedIsOldest, Before
      <4> QED
        BY <4>1, BeforeDisjoint
    <3>8. LineInOrder'
      BY <2>1, <3>1, <3>4, <3>5, <3>6 DEF LineInOrder, Before
    <3>9. DroppedIsOldest'
      BY <2>1, <3>1, <3>4, <3>5, <3>6, <3>7 DEF DroppedIsOldest, Before
    <3>10. NoneLost'
      BY <2>1, <3>1, <3>4, <3>5, <3>6 DEF NoneLost
    <3>11. ASSUME loop[1] = "retry" PROVE Len(updates'[1]) < UpdatesCap
      <4>1. Len(updates[1]) < UpdatesCap
        BY <2>2, <3>11 DEF LineInv
      <4>2. Len(updates'[1]) = Len(updates[1]) - 1 /\ Len(updates[1]) \in Nat
        BY <3>1, <3>3, HeadTailProperties, LenProperties
      <4> QED
        BY <4>1, <4>2, DispatcherAssumption
    <3> QED
      BY <2>1, <3>8, <3>9, <3>10, <3>11
  <2> QED
    BY <2>1, <2>2 DEF LineInv
<1>3. CASE GiveUpListening
  <2>1. /\ UNCHANGED <<made, current, loop, raw, delivered, tdOut, emitted, evicted,
                       updates, Held1>>
        /\ listening' <= made' /\ (Sole' => Sole)
    BY <1>3 DEF GiveUpListening, Held1, Sole, TypeInv, TypeOK
  <2> QED
    BY <2>1, LineFrame
<1> QED
  BY <1>1, <1>2, <1>3 DEF Reader

\* Calls do not touch it, except that one may make the dispatcher.
LEMMA LineCall == ASSUME TypeInv, LineInv, NEW r \in Requests, Call(r) PROVE LineInv'
<1>1. CASE Register(r)
  <2>1. PICK d \in Gens : TakeTag(r, d, seq[d] + 1)
    BY <1>1 DEF Register
  <2>2. /\ made' >= made
        /\ listening' <= made'
    <3>1. made <= made' /\ made' \in 0..MaxGen
      BY <2>1, LineDispatcher, DispatcherForFacts
    <3>2. made \in 0..MaxGen /\ listening \in 0..MaxGen /\ listening' = listening
      BY <2>1 DEF TypeInv, TypeOK
    <3> QED
      BY <3>1, <3>2, DispatcherAssumption DEF LineInv
  <2> QED
    BY <2>1, <2>2, LineDispatcher, LineFrame
<1>2. CASE ~Register(r)
  <2>1. /\ UNCHANGED <<made, current, loop, raw, delivered, tdOut, emitted, evicted,
                       updates, listening, Held1>>
        /\ (Sole' => Sole)
    BY <1>2 DEF Call, Send, GotReply, TimedOut, SawStop, Return, Unregister, Held1, Sole
  <2> QED
    BY <2>1, LineFrame DEF LineInv
<1> QED
  BY <1>1, <1>2

\* Every step keeps the line.
LEMMA NextLine == TypeInv /\ LineInv /\ [Next]_vars => LineInv'
<1> SUFFICES ASSUME TypeInv, LineInv, [Next]_vars PROVE LineInv'
  OBVIOUS
<1>1. CASE Close
  <2>1. /\ UNCHANGED <<made, loop, raw, delivered, tdOut, emitted, evicted,
                       updates, listening, Held1>>
        /\ (Sole' => Sole)
    BY <1>1 DEF Close, Held1, Sole
  <2> QED
    BY <2>1, LineFrame DEF LineInv
<1>2. CASE UNCHANGED vars
  <2>1. /\ UNCHANGED <<made, loop, raw, delivered, tdOut, emitted, evicted,
                       updates, listening, Held1>>
        /\ (Sole' => Sole)
    BY <1>2 DEF vars, Held1, Sole
  <2> QED
    BY <2>1, LineFrame DEF LineInv
<1> QED
  BY <1>1, <1>2, LineCall, LineLoop, LineReader, LineEmit DEF Next

\* The line, put together.
LEMMA LineParts ==
  ASSUME TypeInv, LineInv
  PROVE  UpdatesComplete /\ OldestDropped
<1> SUFFICES ASSUME made = 1, current = 1, 1 \in Gens
             PROVE  UpdatesComplete /\ OldestDropped
  <2>1. ASSUME NEW g \in Gens, current = g, made = 1
        PROVE  current = 1 /\ 1 \in Gens
    BY <2>1, DispatcherAssumption DEF TypeInv, TypeOK, Gens
  <2> QED
    BY <2>1 DEF UpdatesComplete, OldestDropped
<1> DEFINE q == updates[1]
           h == Held(1)
<1>1. /\ LineInOrder /\ DroppedIsOldest /\ NoneLost
      /\ delivered \in Seq(Event) /\ q \in Seq(Event) /\ tdOut \in Seq(Event)
      /\ raw[1] \in Event /\ emitted \in Nat
  BY LineTypes DEF LineInv, Sole
<1>2. <<>> \in Seq(Event)
  OBVIOUS
<1>3. h \in Seq(Event) /\ IdsOf(h) = Held1 /\ InOrder(h)
  BY <1>1, <1>2, IdsOne, IdsEmpty DEF Held, Held1
<1> HIDE DEF h
<1> DEFINE a == delivered \o q
           b == a \o h
           c == b \o tdOut
<1>4. /\ a \in Seq(Event) /\ IdsOf(a) = Given1 \union Queued1 /\ InOrder(a)
  BY <1>1, IdsConcat DEF LineInOrder, Given1, Queued1
<1>5. /\ b \in Seq(Event) /\ IdsOf(b) = Given1 \union Queued1 \union Held1
      /\ InOrder(b)
  <2>1. Before(IdsOf(a), IdsOf(h))
    BY <1>1, <1>3, <1>4 DEF LineInOrder, Before
  <2> HIDE DEF a
  <2> QED
    BY <1>3, <1>4, <2>1, IdsConcat
<1>6. /\ IdsOf(c) = Given1 \union Queued1 \union Held1 \union Coming1
      /\ InOrder(c)
  <2>1. Before(IdsOf(b), IdsOf(tdOut))
    BY <1>1, <1>5 DEF LineInOrder, Before, Coming1
  <2> HIDE DEF b
  <2> QED
    BY <1>1, <1>5, <2>1, IdsConcat DEF Coming1, LineInOrder
<1>7. IdsOf(c) = {n \in 1..emitted : [tag |-> 0, id |-> n] \notin evicted}
  <2>1. \A x \in Given1 \union Queued1 \union Held1 \union Coming1 :
          x \in Nat /\ x \notin Dropped1
    <3>1. \A x \in Queued1 \union Held1 \union Coming1 : x \notin Dropped1
      <4>1. \A x \in Dropped1 : \A y \in Queued1 \union Held1 \union Coming1 : x < y
        BY <1>1 DEF DroppedIsOldest, Before
      <4>2. Queued1 \union Held1 \union Coming1 \subseteq Nat
        BY LineTypes
      <4> QED
        BY <4>1, <4>2
    <3>2. \A x \in Given1 : x \notin Dropped1
      BY <1>1 DEF DroppedIsOldest
    <3> QED
      BY <3>1, <3>2, LineTypes
  <2>2. \A n \in 1..emitted : n \in Dropped1 <=> [tag |-> 0, id |-> n] \in evicted
    BY DEF Dropped1
  <2> HIDE DEF c
  <2> QED
    BY <1>1, <1>6, <2>1, <2>2 DEF NoneLost
<1>8. \A g \in Gens : current = g => g = 1
  OBVIOUS
<1>9. UpdatesComplete
  BY <1>6, <1>7, <1>8 DEF UpdatesComplete, h
<1> DEFINE k == q \o h
           l == k \o tdOut
<1>10. IdsOf(l) = Queued1 \union Held1 \union Coming1
  <2>1. k \in Seq(Event) /\ IdsOf(k) = Queued1 \union Held1
    BY <1>1, <1>3, IdsConcat DEF Queued1
  <2> HIDE DEF k
  <2> QED
    BY <1>1, <2>1, IdsConcat DEF Coming1
<1>11. ASSUME NEW e \in evicted, e.tag = 0, NEW n \in IdsOf(l)
       PROVE  e.id < n
  <2>1. e \in Update
    BY <1>11 DEF TypeInv, TypeOK, Event, Reply
  <2>2. e.id \in Dropped1
    BY <1>11, <2>1 DEF Dropped1, Update
  <2> QED
    BY <1>1, <1>10, <1>11, <2>2 DEF DroppedIsOldest, Before
<1>12. OldestDropped
  BY <1>8, <1>11 DEF OldestDropped, h
<1> QED
  BY <1>9, <1>12

\* In every behaviour, while one dispatcher serves the process, every update TDLib
\* emitted is with the reader, on its way to it, or dropped by the full channel.
THEOREM UpdatesAllArrive == Spec => []UpdatesComplete
<1>1. TypeInv /\ LineInv => UpdatesComplete
  BY LineParts
<1> QED
  BY <1>1, InitType, TypeNext, InitLine, NextLine, PTL DEF Spec

\* In every behaviour what the full channel drops is older than all it keeps and
\* all still to come.
THEOREM OldestIsDropped == Spec => []OldestDropped
<1>1. TypeInv /\ LineInv => OldestDropped
  BY LineParts
<1> QED
  BY <1>1, InitType, TypeNext, InitLine, NextLine, PTL DEF Spec
=============================================================================
