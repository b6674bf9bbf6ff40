------------------------ MODULE HubRefinementProofs ------------------------
(***************************************************************************)
(* The streams of the hub's subscribers, and that the hub implements       *)
(* MessageRouter, for any numbers of users, transports and connections and *)
(* any channel capacities.                                                 *)
(***************************************************************************)
EXTENDS HubRefinement, HubProofs

USE DEF shared, notFeed, notCons, notAsk, notSub, askKept, LetGo, Answer,
        AnswerDone, Turn, Put, Full, AskMove, SubMove

-----------------------------------------------------------------------------
(* Lines and logs.                                                         *)

\* Concatenation is associative.
LEMMA Associative ==
  ASSUME NEW p \in Seq(Nat), NEW q \in Seq(Nat), NEW r \in Seq(Nat)
  PROVE  (p \o q) \o r = p \o (q \o r)
  BY ConcatAssociative, SMTT(20)

\* An event more at the end of a line.
LEMMA LineAppend ==
  ASSUME NEW r \in Seq(Nat), NEW b \in Seq(Nat), NEW n \in Nat
  PROVE  r \o Append(b, n) = Append(r \o b, n)
<1>1. <<n>> \in Seq(Nat) /\ r \o b \in Seq(Nat)
  BY ConcatProperties
<1>2. Append(b, n) = b \o <<n>> /\ Append(r \o b, n) = (r \o b) \o <<n>>
  BY <1>1, AppendIsConcat
<1> QED
  BY <1>1, <1>2, Associative

\* An event that moves from the channel to the client stays in its place.
LEMMA LineMove ==
  ASSUME NEW r \in Seq(Nat), NEW b \in Seq(Nat), b # <<>>
  PROVE  Append(r, Head(b)) \o Tail(b) = r \o b
<1>1. Head(b) \in Nat /\ Tail(b) \in Seq(Nat) /\ <<Head(b)>> \in Seq(Nat)
  BY HeadTailProperties
<1>2. b = <<Head(b)>> \o Tail(b)
  <2>1. /\ Len(Tail(b)) = Len(b) - 1 /\ Len(b) \in Nat /\ Len(b) # 0
        /\ \A i \in 1..Len(Tail(b)) : Tail(b)[i] = b[i + 1]
        /\ Head(b) = b[1]
    BY HeadTailProperties, LenProperties, EmptySeq
  <2> DEFINE c == <<Head(b)>> \o Tail(b)
  <2>2. Len(<<Head(b)>>) = 1 /\ <<Head(b)>>[1] = Head(b)
    OBVIOUS
  <2>3. /\ c \in Seq(Nat) /\ Len(c) = 1 + Len(Tail(b))
        /\ \A i \in 1..(1 + Len(Tail(b))) :
             c[i] = IF i <= 1 THEN Head(b) ELSE Tail(b)[i - 1]
    BY <1>1, <2>2, ConcatProperties
  <2> HIDE DEF c
  <2>4. Len(c) = Len(b)
    BY <2>1, <2>3
  <2>5. ASSUME NEW i \in 1..Len(b) PROVE b[i] = c[i]
    <3>1. CASE i = 1
      BY <2>1, <2>3, <3>1
    <3>2. CASE i # 1
      <4>1. i - 1 \in 1..Len(Tail(b)) /\ (i - 1) + 1 = i /\ ~(i <= 1)
            /\ i \in 1..(1 + Len(Tail(b)))
        BY <2>1, <3>2
      <4> QED
        BY <2>1, <2>3, <4>1
    <3> QED
      BY <3>1, <3>2
  <2>6. b = c
    BY <2>3, <2>4, <2>5, SeqEqual
  <2> QED
    BY <2>6 DEF c
<1>3. Append(r, Head(b)) = r \o <<Head(b)>>
  BY <1>1, AppendIsConcat
<1>4. (r \o <<Head(b)>>) \o Tail(b) = r \o (<<Head(b)>> \o Tail(b))
  BY <1>1, Associative
<1> QED
  BY <1>2, <1>3, <1>4

LEMMA AppendLast ==
  ASSUME NEW r \in Seq(Nat), NEW n \in Nat
  PROVE  Append(r, n) # <<>> /\ Last(Append(r, n)) = n
  BY AppendProperties DEF Last

\* The last event a client was given, and the next it will be given.
LEMMA LinePlaces ==
  ASSUME NEW r \in Seq(Nat), NEW b \in Seq(Nat)
  PROVE  /\ Len(r) \in Nat
         /\ r # <<>> => Len(r) \in DOMAIN (r \o b) /\ (r \o b)[Len(r)] = Last(r)
         /\ b # <<>> => Len(r) + 1 \in DOMAIN (r \o b) /\ (r \o b)[Len(r) + 1] = Head(b)
<1> DEFINE l == r \o b
           m == Len(r)
           n == Len(b)
<1>1. /\ m \in Nat /\ n \in Nat
      /\ l \in Seq(Nat) /\ Len(l) = m + n
      /\ \A i \in 1..(m + n) : l[i] = IF i <= m THEN r[i] ELSE b[i - m]
  BY ConcatProperties, LenProperties
<1>2. DOMAIN l = 1..(m + n)
  BY <1>1, LenProperties
<1>3. (r # <<>> => m # 0) /\ (b # <<>> => n # 0 /\ Head(b) = b[1])
  BY EmptySeq
<1>4. Last(r) = r[m]
  BY DEF Last
<1> HIDE DEF l, m, n
<1>5. r # <<>> => m \in 1..(m + n) /\ m <= m
  BY <1>1, <1>3
<1>6. b # <<>> => m + 1 \in 1..(m + n) /\ ~(m + 1 <= m) /\ (m + 1) - m = 1
  BY <1>1, <1>3
<1>7. r # <<>> => m \in DOMAIN l /\ l[m] = Last(r)
  BY <1>1, <1>2, <1>4, <1>5
<1>8. b # <<>> => m + 1 \in DOMAIN l /\ l[m + 1] = Head(b)
  BY <1>1, <1>2, <1>3, <1>6
<1> QED
  BY <1>1, <1>7, <1>8 DEF l, m

\* Places past m, when there are n more of them.
LEMMA Shift ==
  ASSUME NEW i \in Nat, NEW m \in Nat, NEW n \in Nat, m < i, i <= m + n
  PROVE  /\ i - m \in 1..n /\ (i - m) + 1 = (i + 1) - m
         /\ i + 1 \in 1..(m + (n + 1)) /\ ~(i + 1 <= m)
  OBVIOUS

\* An event that is thrown away leaves the others in order.
LEMMA LineSkip ==
  ASSUME NEW r \in Seq(Nat), NEW b \in Seq(Nat), b # <<>>, NEW log
  PROVE  /\ ToSet(r \o Tail(b)) \subseteq ToSet(r \o b)
         /\ InOrder(r \o b, log) => InOrder(r \o Tail(b), log)
<1> DEFINE l == r \o b
           s == r \o Tail(b)
           m == Len(r)
           n == Len(Tail(b))
           At(i) == IF i <= m THEN i ELSE i + 1
<1>1. /\ Tail(b) \in Seq(Nat) /\ Len(b) = n + 1 /\ n \in Nat /\ m \in Nat
      /\ \A i \in 1..n : Tail(b)[i] = b[i + 1]
  BY HeadTailProperties, LenProperties
<1>2. /\ DOMAIN l = 1..(m + Len(b)) /\ DOMAIN s = 1..(m + n)
      /\ \A i \in 1..(m + Len(b)) : l[i] = IF i <= m THEN r[i] ELSE b[i - m]
      /\ \A i \in 1..(m + n) : s[i] = IF i <= m THEN r[i] ELSE Tail(b)[i - m]
  BY <1>1, ConcatProperties, LenProperties
<1> HIDE DEF l, s, m, n
<1>3. ASSUME NEW i \in DOMAIN s PROVE At(i) \in DOMAIN l /\ s[i] = l[At(i)]
  <2>1. CASE i <= m
    <3>1. i \in 1..(m + n) /\ i \in 1..(m + Len(b))
      BY <1>1, <1>2
    <3>2. s[i] = r[i] /\ l[i] = r[i]
      BY <1>2, <2>1, <3>1
    <3> QED
      BY <1>2, <2>1, <3>1, <3>2
  <2>2. CASE ~(i <= m)
    <3>1. /\ i - m \in 1..n /\ (i - m) + 1 = (i + 1) - m
          /\ i + 1 \in 1..(m + Len(b)) /\ ~(i + 1 <= m)
      <4>1. i \in Nat /\ 1 <= i /\ i <= m + n /\ m < i
        BY <1>1, <1>2, <2>2
      <4>2. n \in Nat /\ m \in Nat
        BY <1>1
      <4>3. /\ i - m \in 1..n /\ (i - m) + 1 = (i + 1) - m
            /\ i + 1 \in 1..(m + (n + 1)) /\ ~(i + 1 <= m)
        BY <4>1, <4>2, Shift
      <4> QED
        BY <1>1, <4>3
    <3>2. s[i] = b[(i - m) + 1]
      BY <1>1, <1>2, <2>2, <3>1
    <3>3. l[i + 1] = b[(i + 1) - m]
      BY <1>2, <3>1
    <3> QED
      BY <1>2, <2>2, <3>1, <3>2, <3>3
  <2> QED
    BY <2>1, <2>2
<1>4. \A i, j \in DOMAIN s : i < j => At(i) < At(j)
  BY <1>1, <1>2
<1> HIDE DEF At
<1>5. ToSet(s) \subseteq ToSet(l)
  BY <1>3 DEF ToSet
<1>6. InOrder(l, log) => InOrder(s, log)
  BY <1>3, <1>4 DEF InOrder
<1> QED
  BY <1>5, <1>6 DEF l, s

\* The last event of the log joins a line it is not in.
LEMMA LineTakes ==
  ASSUME NEW s \in Seq(Nat), NEW log \in Seq(Nat), NEW n \in Nat
  PROVE  /\ ToSet(Append(s, n)) = ToSet(s) \union {n}
         /\ InOrder(s, log) /\ n \notin ToSet(s)
            /\ (\A k \in DOMAIN log : log[k] = n => k = Len(log))
              => InOrder(Append(s, n), log)
<1> DEFINE t == Append(s, n)
           m == Len(s)
<1>1. /\ m \in Nat /\ DOMAIN s = 1..m /\ DOMAIN t = 1..(m + 1)
      /\ \A i \in 1..m : t[i] = s[i]
      /\ t[m + 1] = n
  BY AppendProperties, LenProperties
<1>2. DOMAIN log = 1..Len(log) /\ Len(log) \in Nat
  BY LenProperties
<1> HIDE DEF t
<1>3. ToSet(t) = ToSet(s) \union {n}
  <2>1. ASSUME NEW i \in 1..(m + 1) PROVE t[i] \in ToSet(s) \union {n}
    <3>1. i \in 1..m \/ i = m + 1
      BY <1>1
    <3> QED
      BY <1>1, <3>1 DEF ToSet
  <2>2. ASSUME NEW i \in 1..m PROVE i \in 1..(m + 1) /\ s[i] = t[i]
    BY <1>1
  <2>3. m + 1 \in 1..(m + 1)
    BY <1>1
  <2> QED
    BY <1>1, <2>1, <2>2, <2>3 DEF ToSet
<1>4. ASSUME InOrder(s, log), n \notin ToSet(s),
             \A k \in DOMAIN log : log[k] = n => k = Len(log),
             NEW i \in DOMAIN t, NEW j \in DOMAIN t,
             NEW k \in DOMAIN log, NEW l \in DOMAIN log,
             i < j, t[i] = log[k], t[j] = log[l]
      PROVE  k < l
  <2>1. i \in DOMAIN s /\ t[i] = s[i]
    BY <1>1, <1>4
  <2>2. CASE j = m + 1
    <3>1. l = Len(log) /\ k # Len(log)
      BY <1>1, <1>4, <2>1, <2>2 DEF ToSet
    <3> QED
      BY <1>2, <3>1
  <2>3. CASE j # m + 1
    <3>1. j \in DOMAIN s /\ t[j] = s[j]
      BY <1>1, <2>3
    <3> QED
      BY <1>4, <2>1, <3>1 DEF InOrder
  <2> QED
    BY <2>2, <2>3
<1>5. InOrder(s, log) /\ n \notin ToSet(s)
      /\ (\A k \in DOMAIN log : log[k] = n => k = Len(log)) => InOrder(t, log)
  BY <1>4 DEF InOrder
<1> QED
  BY <1>3, <1>5 DEF t

\* The log goes on with an event that is not in the line.
LEMMA LogGrows ==
  ASSUME NEW s, NEW log \in Seq(Nat), NEW n \in Nat, InOrder(s, log),
         n \notin ToSet(s)
  PROVE  InOrder(s, Append(log, n))
<1> DEFINE t == Append(log, n)
           m == Len(log)
<1>1. /\ m \in Nat /\ DOMAIN log = 1..m /\ DOMAIN t = 1..(m + 1)
      /\ \A i \in 1..m : t[i] = log[i]
      /\ t[m + 1] = n
  BY AppendProperties, LenProperties
<1> HIDE DEF t
<1>2. \A i \in DOMAIN s : \A k \in DOMAIN t :
        s[i] = t[k] => k \in DOMAIN log /\ s[i] = log[k]
  BY <1>1 DEF ToSet
<1>3. InOrder(s, t)
  BY <1>2 DEF InOrder
<1> QED
  BY <1>3 DEF t

-----------------------------------------------------------------------------
(* Streams.                                                                *)

\* Who is broadcast to: a channel is registered as long as its handler runs, and
\* the running broadcast has the last event of the log still to push to channels
\* that joined before it and have not dropped it.
CastInv ==
  /\ NoStaleSubscriber
  /\ \A s \in Subs : subPc[s] \in {"serving", "leaving"} => s \in subscribers[subRole[s]]
  /\ \A s \in Subs : subPc[s] = "idle" =>
       received[s] = <<>> /\ buf[s] = <<>> /\ missed[s] = {}
  /\ fanout # {} => consumer = "broadcast"
  /\ consumer = "broadcast" => published # <<>> /\ published[Len(published)] = cur.id
  /\ \A s \in Subs : joinedAt[s] <= Len(published)
  /\ \A s \in fanout :
       subPc[s] # "idle" /\ joinedAt[s] < Len(published) /\ cur.id \notin missed[s]
  /\ \A s \in Subs : missed[s] \subseteq ToSet(published)

\* What the line of a subscriber holds: due events in their order, and all of
\* them as long as it is served.
DueIds(s) == {published[k] : k \in {k \in Since(s) : Due(s, published[k])}}

Stream(s) ==
  /\ InOrder(Line(s), published)
  /\ ToSet(Line(s)) \subseteq DueIds(s)
  /\ subPc[s] = "serving" => DueIds(s) \subseteq ToSet(Line(s))

LineInv == CastInv /\ \A s \in Subs : Stream(s)

\* Nothing is broadcast at first.
LEMMA InitLine == Init => LineInv
<1> SUFFICES ASSUME Init PROVE LineInv
  OBVIOUS
<1>1. /\ published = <<>> /\ Len(published) = 0 /\ DOMAIN published = {}
      /\ \A s \in Subs : /\ received[s] = <<>> /\ buf[s] = <<>> /\ missed[s] = {}
                         /\ joinedAt[s] = 0 /\ subPc[s] = "idle"
      /\ \A r \in Roles : subscribers[r] = {}
      /\ fanout = {} /\ consumer = "idle"
  BY DEF Init
<1>2. ASSUME NEW s \in Subs PROVE Stream(s)
  <2>1. Line(s) = <<>> /\ DOMAIN Line(s) = {}
    <3>1. <<>> \in Seq(Nat)
      OBVIOUS
    <3>2. <<>> \o <<>> = <<>>
      BY <3>1, ConcatEmptySeq
    <3> QED
      BY <1>1, <3>2 DEF Line
  <2>2. Since(s) = {}
    BY <1>1 DEF Since
  <2> QED
    BY <1>1, <2>1, <2>2 DEF Stream, InOrder, ToSet, DueIds
<1>3. CastInv
  BY <1>1 DEF CastInv, NoStaleSubscriber, ToSet
<1> QED
  BY <1>2, <1>3 DEF LineInv

\* A step that leaves a line and what is due to it alone leaves the stream alone.
LEMMA StreamKept ==
  ASSUME NEW s \in Subs, Stream(s),
         UNCHANGED <<published, joinedAt[s], missed[s], received[s], buf[s]>>,
         s \in fanout' <=> s \in fanout,
         s \in fanout => UNCHANGED cur,
         subPc'[s] = "serving" => subPc[s] = "serving"
  PROVE  Stream(s)'
<1>1. UNCHANGED <<Line(s), Since(s)>>
  BY DEF Line, Since
<1>2. \A n : Due(s, n)' <=> Due(s, n)
  BY DEF Due
<1>3. DueIds(s)' = DueIds(s)
  BY <1>1, <1>2 DEF DueIds
<1> QED
  BY <1>1, <1>3 DEF Stream

\* Steps that broadcast nothing and move no event.
LEMMA LineFrame ==
  ASSUME LineInv,
         UNCHANGED <<subPc, subRole, received, joinedAt, published, missed,
                     subscribers, buf, fanout>>,
         \/ UNCHANGED <<consumer, cur>>
         \/ fanout = {} /\ consumer' # "broadcast"
  PROVE  LineInv'
<1>1. \A s \in Subs : Stream(s)'
  <2>1. fanout # {} => UNCHANGED cur
    OBVIOUS
  <2> QED
    BY <2>1, StreamKept DEF LineInv
<1>2. CastInv'
  BY DEF LineInv, CastInv, NoStaleSubscriber
<1> QED
  BY <1>1, <1>2 DEF LineInv

\* A broadcast begins: every registered channel is due the event, and no channel
\* that is served is not registered.
LEMMA LineSnapshot ==
  ASSUME TypeOK, RealIds, FateInv, LineInv, Snapshot
  PROVE  LineInv'
<1>1. /\ consumer = "deliver" /\ consumer' = "broadcast"
      /\ fanout' = UNION {subscribers[r] : r \in Roles}
      /\ published' = Append(published, cur.id)
      /\ UNCHANGED <<cur, missed, subPc, subRole, received, joinedAt, subscribers, buf>>
      /\ fanout = {}
      /\ cur.id \in Nat \ {0} /\ published \in Seq(Nat)
  BY DEF Snapshot, subVars, TypeOK, Message, RealIds, LineInv, CastInv
<1>2. /\ Len(published) \in Nat /\ DOMAIN published = 1..Len(published)
      /\ DOMAIN published' = 1..(Len(published) + 1)
      /\ Len(published') = Len(published) + 1
      /\ \A i \in 1..Len(published) : published'[i] = published[i]
      /\ published'[Len(published) + 1] = cur.id
      /\ published' # <<>>
  BY <1>1, AppendProperties, LenProperties
<1>3. cur.id \notin ToSet(published) /\ \A k \in DOMAIN published : published[k] # cur.id
  BY <1>1 DEF FateInv, AtConsumer, Published, ToSet
<1>4. ASSUME NEW s \in Subs
      PROVE  /\ joinedAt[s] \in Nat /\ joinedAt[s] <= Len(published)
             /\ missed[s] \subseteq ToSet(published)
             /\ s \in fanout' => subPc[s] # "idle"
             /\ subPc[s] = "serving" => s \in fanout'
  BY <1>1 DEF LineInv, CastInv, NoStaleSubscriber, TypeOK
<1>5. ToSet(published) \subseteq ToSet(published')
  BY <1>2 DEF ToSet
<1>6. CastInv'
  <2>1. \A s \in Subs : joinedAt[s] < Len(published')
    BY <1>2, <1>4
  <2>2. \A s \in fanout' : s \in Subs
    BY <1>1 DEF TypeOK
  <2>3. /\ NoStaleSubscriber
        /\ \A s \in Subs : subPc[s] \in {"serving", "leaving"} => s \in subscribers[subRole[s]]
        /\ \A s \in Subs : subPc[s] = "idle" =>
             received[s] = <<>> /\ buf[s] = <<>> /\ missed[s] = {}
    BY DEF LineInv, CastInv
  <2>4. /\ NoStaleSubscriber'
        /\ \A s \in Subs : subPc'[s] \in {"serving", "leaving"} => s \in subscribers'[subRole'[s]]
        /\ \A s \in Subs : subPc'[s] = "idle" =>
             received'[s] = <<>> /\ buf'[s] = <<>> /\ missed'[s] = {}
    BY <1>1, <2>3 DEF NoStaleSubscriber
  <2>5. \A s \in Subs : missed'[s] \subseteq ToSet(published')
    BY <1>1, <1>4, <1>5
  <2>6. \A s \in Subs : joinedAt'[s] <= Len(published')
    BY <1>1, <1>2, <2>1, <1>4
  <2>7. \A s \in fanout' :
          subPc'[s] # "idle" /\ joinedAt'[s] < Len(published') /\ cur'.id \notin missed'[s]
    BY <1>1, <1>3, <1>4, <2>1, <2>2
  <2>8. published' # <<>> /\ published'[Len(published')] = cur'.id
    BY <1>1, <1>2
  <2> QED
    BY <1>1, <2>4, <2>5, <2>6, <2>7, <2>8 DEF CastInv
<1>7. ASSUME NEW s \in Subs PROVE Stream(s)'
  <2>1. /\ Stream(s) /\ UNCHANGED Line(s)
        /\ \A n : Due(s, n) <=> n \notin missed[s]
        /\ Due(s, cur.id)' <=> s \notin fanout'
        /\ \A n : n # cur.id => (Due(s, n)' <=> Due(s, n))
    BY <1>1, <1>3, <1>4 DEF LineInv, Line, Due
  <2>2. Since(s)' = Since(s) \union {Len(published) + 1}
    BY <1>1, <1>2, <1>4 DEF Since
  <2>3. \A k \in Since(s) : k \in DOMAIN published
    BY <1>2, <1>4 DEF Since
  <2>4. DueIds(s)' = DueIds(s) \union (IF s \in fanout' THEN {} ELSE {cur.id})
    <3> DEFINE last == Len(published) + 1
               DueNow(n) == n \notin missed'[s] /\ ~(s \in fanout' /\ n = cur'.id)
    <3>1. \A k \in Since(s) : published'[k] = published[k] /\ published[k] # cur.id
      BY <1>2, <1>3, <2>3
    <3>2. DueIds(s)' = {published'[k] : k \in {k \in Since(s)' : DueNow(published'[k])}}
      BY DEF DueIds, Due
    <3>3. \A n : n # cur.id => (DueNow(n) <=> Due(s, n))
      BY <1>1 DEF Due
    <3>4. published'[last] = cur.id /\ (DueNow(cur.id) <=> s \notin fanout')
      BY <1>1, <1>2, <1>3, <1>4
    <3> HIDE DEF last, DueNow
    <3> QED
      BY <2>2, <3>1, <3>2, <3>3, <3>4 DEF DueIds, last
  <2>5. cur.id \notin ToSet(Line(s))
    BY <1>3, <2>1, <2>3 DEF Stream, DueIds
  <2>6. InOrder(Line(s), published)'
    BY <1>1, <2>1, <2>5, LogGrows DEF Stream
  <2> QED
    BY <1>1, <1>4, <2>1, <2>4, <2>6 DEF Stream
<1> QED
  BY <1>6, <1>7 DEF LineInv

\* The broadcast comes to a channel: it takes the event, or drops it.
LEMMA LinePush ==
  ASSUME TypeOK, FateInv, LineInv, NEW s \in Subs, PushEvent(s)
  PROVE  LineInv'
<1>1. /\ consumer = "broadcast" /\ s \in fanout /\ fanout' = fanout \ {s}
      /\ UNCHANGED <<consumer, cur, published, subPc, subRole, received, joinedAt,
                     subscribers>>
      /\ cur.id \in Nat /\ published \in Seq(Nat)
      /\ buf \in [Subs -> Seq(Nat)] /\ received \in [Subs -> Seq(Nat)]
      /\ missed \in [Subs -> SUBSET Nat] /\ joinedAt \in [Subs -> Nat]
  BY DEF PushEvent, subVars, TypeOK, Message
<1>2. /\ published # <<>> /\ published[Len(published)] = cur.id
      /\ joinedAt[s] < Len(published) /\ cur.id \notin missed[s]
      /\ subPc[s] # "idle"
  BY <1>1 DEF LineInv, CastInv
<1>3. Len(published) \in Nat /\ Len(published) # 0 /\ DOMAIN published = 1..Len(published)
  BY <1>1, <1>2, LenProperties, EmptySeq
<1>4. \A k \in DOMAIN published : published[k] = cur.id => k = Len(published)
  BY <1>2, <1>3 DEF FateInv, OneFate
<1>5. \/ buf' = [buf EXCEPT ![s] = Append(buf[s], cur.id)] /\ UNCHANGED missed
      \/ missed' = [missed EXCEPT ![s] = missed[s] \union {cur.id}] /\ UNCHANGED buf
  BY DEF PushEvent
<1>6. \A t \in Subs : t # s => UNCHANGED <<buf[t], missed[t]>>
  BY <1>1, <1>5
<1>7. cur.id \in ToSet(published)
  BY <1>2, <1>3 DEF ToSet
<1>8. CastInv'
  <2>1. \A t \in Subs : missed'[t] \subseteq ToSet(published)
    <3>1. \A t \in Subs : missed'[t] \subseteq missed[t] \union {cur.id}
      BY <1>1, <1>5
    <3> QED
      BY <1>7, <3>1 DEF LineInv, CastInv
  <2>2. \A t \in Subs : subPc[t] = "idle" =>
          received[t] = <<>> /\ buf'[t] = <<>> /\ missed'[t] = {}
    BY <1>2, <1>6 DEF LineInv, CastInv
  <2>3. \A t \in fanout' : t \in fanout /\ t \in Subs /\ t # s
    BY <1>1 DEF TypeOK
  <2>4. \A t \in fanout' : cur.id \notin missed'[t]
    BY <1>6, <2>3 DEF LineInv, CastInv
  <2> QED
    BY <1>1, <1>2, <2>1, <2>2, <2>3, <2>4 DEF LineInv, CastInv, NoStaleSubscriber
<1>9. ASSUME NEW t \in Subs, t # s PROVE Stream(t)'
  BY <1>1, <1>6, <1>9, StreamKept DEF LineInv
<1>10. Stream(s)'
  <2>1. /\ Stream(s) /\ UNCHANGED Since(s)
        /\ \A n : Due(s, n) <=> n \notin missed[s] /\ n # cur.id
        /\ \A n : Due(s, n)' <=> n \notin missed'[s]
    BY <1>1 DEF LineInv, Since, Due
  <2>2. CASE buf' = [buf EXCEPT ![s] = Append(buf[s], cur.id)] /\ UNCHANGED missed
    <3>1. /\ Line(s)' = Append(Line(s), cur.id) /\ Line(s) \in Seq(Nat)
      <4>1. received[s] \in Seq(Nat) /\ buf[s] \in Seq(Nat)
        BY <1>1
      <4>2. received'[s] = received[s] /\ buf'[s] = Append(buf[s], cur.id)
        BY <1>1, <2>2
      <4>3. received[s] \o buf[s] \in Seq(Nat)
        BY <4>1, ConcatProperties
      <4>4. received[s] \o Append(buf[s], cur.id) = Append(received[s] \o buf[s], cur.id)
        BY <1>1, <4>1, LineAppend
      <4> QED
        BY <4>2, <4>3, <4>4 DEF Line
    <3>2. DueIds(s)' = DueIds(s) \union {cur.id}
      <4>1. Len(published) \in Since(s)
        BY <1>1, <1>2, <1>3 DEF Since
      <4>2. \A n : Due(s, n)' <=> Due(s, n) \/ n = cur.id
        BY <1>2, <2>1, <2>2
      <4> QED
        BY <1>1, <1>2, <2>1, <4>1, <4>2 DEF DueIds
    <3>3. cur.id \notin ToSet(Line(s))
      BY <2>1 DEF Stream, DueIds
    <3>4. ToSet(Line(s))' = ToSet(Line(s)) \union {cur.id} /\ InOrder(Line(s), published)'
      BY <1>1, <1>4, <2>1, <3>1, <3>3, LineTakes DEF Stream
    <3> QED
      BY <1>1, <2>1, <3>2, <3>4 DEF Stream
  <2>3. CASE missed' = [missed EXCEPT ![s] = missed[s] \union {cur.id}] /\ UNCHANGED buf
    <3>1. \A n : Due(s, n)' <=> Due(s, n)
      BY <1>1, <2>1, <2>3
    <3>2. UNCHANGED <<Line(s), DueIds(s)>>
      BY <1>1, <2>1, <2>3, <3>1 DEF Line, DueIds
    <3> QED
      BY <1>1, <2>1, <3>2 DEF Stream
  <2> QED
    BY <1>5, <2>2, <2>3
<1> QED
  BY <1>8, <1>9, <1>10 DEF LineInv

\* A subscriber that joins is due nothing yet.
LEMMA LineSubscribe ==
  ASSUME TypeOK, LineInv, NoStaleSubscriber', NEW s \in Subs, NEW r \in Roles,
         Subscribe(s, r)
  PROVE  LineInv'
<1>1. /\ subPc[s] = "idle" /\ subPc' = [subPc EXCEPT ![s] = "serving"]
      /\ subRole' = [subRole EXCEPT ![s] = r]
      /\ subscribers' = [subscribers EXCEPT ![r] = @ \union {s}]
      /\ joinedAt' = [joinedAt EXCEPT ![s] = Len(published)]
      /\ UNCHANGED <<received, buf, missed, fanout, cur, consumer, published>>
      /\ subPc \in [Subs -> SubStates] /\ subRole \in [Subs -> Roles]
      /\ subscribers \in [Roles -> SUBSET Subs] /\ joinedAt \in [Subs -> Nat]
      /\ published \in Seq(Nat)
  BY DEF Subscribe, routeVars, consVars, TypeOK
<1>2. Len(published) \in Nat
  BY <1>1, LenProperties
<1>3. /\ received[s] = <<>> /\ buf[s] = <<>> /\ missed[s] = {} /\ s \notin fanout
  BY <1>1 DEF LineInv, CastInv
<1>4. ASSUME NEW t \in Subs, t # s PROVE Stream(t)'
  <2>1. UNCHANGED <<joinedAt[t], subPc[t]>>
    BY <1>1, <1>4
  <2> QED
    BY <1>1, <2>1, StreamKept DEF LineInv
<1>5. Stream(s)'
  <2>1. Stream(s) /\ UNCHANGED Line(s)
    BY <1>1 DEF LineInv, Line
  <2>2. Since(s)' = {} /\ DueIds(s)' = {}
    BY <1>1, <1>2 DEF Since, DueIds
  <2>3. Line(s) = <<>> /\ DOMAIN Line(s) = {}
    <3>1. <<>> \in Seq(Nat)
      OBVIOUS
    <3>2. <<>> \o <<>> = <<>>
      BY <3>1, ConcatEmptySeq
    <3> QED
      BY <1>3, <3>2 DEF Line
  <2> QED
    BY <1>1, <2>1, <2>2, <2>3 DEF Stream, ToSet
<1>6. CastInv'
  <2>1. \A t \in Subs : subPc'[t] \in {"serving", "leaving"} => t \in subscribers'[subRole'[t]]
    <3>1. ASSUME NEW t \in Subs, t # s, subPc[t] \in {"serving", "leaving"}
          PROVE  t \in subscribers[subRole[t]]
      BY <3>1 DEF LineInv, CastInv
    <3> QED
      BY <1>1, <3>1
  <2>2. \A t \in Subs : subPc'[t] = "idle" =>
          received'[t] = <<>> /\ buf'[t] = <<>> /\ missed'[t] = {}
    BY <1>1 DEF LineInv, CastInv
  <2>3. \A t \in Subs : joinedAt'[t] <= Len(published)
    BY <1>1, <1>2 DEF LineInv, CastInv
  <2>4. \A t \in fanout : t \in Subs /\ t # s
    BY <1>1, <1>3 DEF TypeOK
  <2>5. \A t \in fanout : subPc'[t] = subPc[t] /\ joinedAt'[t] = joinedAt[t]
    BY <1>1, <2>4
  <2>6. \A t \in fanout' :
          subPc'[t] # "idle" /\ joinedAt'[t] < Len(published') /\ cur'.id \notin missed'[t]
    BY <1>1, <2>5 DEF LineInv, CastInv
  <2>7. /\ fanout # {} => consumer = "broadcast"
        /\ consumer = "broadcast" => published # <<>> /\ published[Len(published)] = cur.id
        /\ \A t \in Subs : missed[t] \subseteq ToSet(published)
    BY DEF LineInv, CastInv
  <2> QED
    BY <1>1, <2>1, <2>2, <2>3, <2>6, <2>7 DEF CastInv
<1> QED
  BY <1>4, <1>5, <1>6 DEF LineInv

\* What remains of the registration when a handler moves on in its code.
LEMMA CastMove ==
  ASSUME TypeOK, LineInv, NoStaleSubscriber', NEW s \in Subs,
         subPc[s] # "idle",
         subPc' = [subPc EXCEPT ![s] = subPc'[s]],
         subPc'[s] \in {"serving", "leaving"} =>
           subscribers' = subscribers /\ subPc[s] \in {"serving", "leaving"},
         \A r \in Roles : \A t \in Subs :
           t # s => (t \in subscribers'[r] <=> t \in subscribers[r]),
         subPc'[s] # "idle",
         \A t \in Subs : t # s => UNCHANGED <<received[t], buf[t]>>,
         UNCHANGED <<subRole, joinedAt, missed, fanout, cur, consumer, published>>
  PROVE  CastInv'
<1>1. subPc \in [Subs -> SubStates] /\ subRole \in [Subs -> Roles]
  BY DEF TypeOK
<1>2. \A t \in Subs : t # s => subPc'[t] = subPc[t]
  BY <1>1
<1>3. \A t \in Subs : subPc'[t] \in {"serving", "leaving"} => t \in subscribers'[subRole'[t]]
  BY <1>1, <1>2 DEF LineInv, CastInv
<1>4. \A t \in Subs : subPc'[t] = "idle" =>
        received'[t] = <<>> /\ buf'[t] = <<>> /\ missed'[t] = {}
  BY <1>2 DEF LineInv, CastInv
<1>5. \A t \in fanout : subPc'[t] # "idle"
  BY <1>2 DEF LineInv, CastInv, TypeOK
<1> QED
  BY <1>3, <1>4, <1>5 DEF LineInv, CastInv

\* An event goes to the client, or is lost with the connection, after which the
\* subscriber is no longer served.
LEMMA LineWrite ==
  ASSUME TypeOK, LineInv, NoStaleSubscriber', NEW s \in Subs, WriteEvent(s)
  PROVE  LineInv'
<1>1. /\ subPc[s] = "serving" /\ buf[s] # <<>>
      /\ buf' = [buf EXCEPT ![s] = Tail(buf[s])]
      /\ UNCHANGED <<subRole, joinedAt, missed, fanout, cur, consumer, published,
                     subscribers>>
      /\ buf \in [Subs -> Seq(Nat)] /\ received \in [Subs -> Seq(Nat)]
      /\ subPc \in [Subs -> SubStates]
  BY DEF WriteEvent, routeVars, consVars, TypeOK
<1>2. \/ /\ received' = [received EXCEPT ![s] = Append(received[s], Head(buf[s]))]
         /\ UNCHANGED subPc
      \/ /\ subPc' = [subPc EXCEPT ![s] = "leaving"]
         /\ UNCHANGED received
  BY DEF WriteEvent
<1>3. \A t \in Subs : t # s => UNCHANGED <<received[t], buf[t], subPc[t]>>
  BY <1>1, <1>2
<1>4. ASSUME NEW t \in Subs, t # s PROVE Stream(t)'
  BY <1>1, <1>3, <1>4, StreamKept DEF LineInv
<1>5. DueIds(s)' = DueIds(s) /\ Stream(s)
  BY <1>1 DEF DueIds, Since, Due, LineInv
<1>6. Stream(s)'
  <2>1. CASE received' = [received EXCEPT ![s] = Append(received[s], Head(buf[s]))]
             /\ UNCHANGED subPc
    <3>1. UNCHANGED Line(s)
      BY <1>1, <2>1, LineMove DEF Line
    <3> QED
      BY <1>1, <1>5, <2>1, <3>1 DEF Stream
  <2>2. CASE subPc' = [subPc EXCEPT ![s] = "leaving"] /\ UNCHANGED received
    <3>1. /\ ToSet(Line(s)') \subseteq ToSet(Line(s))
          /\ InOrder(Line(s), published) => InOrder(Line(s)', published)
      BY <1>1, <2>2, LineSkip DEF Line
    <3>2. subPc'[s] = "leaving"
      BY <1>1, <2>2
    <3> QED
      BY <1>1, <1>5, <3>1, <3>2 DEF Stream
  <2> QED
    BY <1>2, <2>1, <2>2
<1>7. subPc' = [subPc EXCEPT ![s] = subPc'[s]] /\ subPc'[s] \in {"serving", "leaving"}
  BY <1>1, <1>2
<1>8. CastInv'
  BY <1>1, <1>3, <1>7, CastMove
<1> QED
  BY <1>4, <1>6, <1>8 DEF LineInv

\* The end of a handler.
LEMMA LineLeave ==
  ASSUME TypeOK, LineInv, NoStaleSubscriber', NEW s \in Subs,
         SeeDone(s) \/ RemoveSubscriber(s)
  PROVE  LineInv'
<1>1. /\ subPc[s] \in {"serving", "leaving"}
      /\ UNCHANGED <<subRole, received, joinedAt, buf, missed, fanout, cur, consumer,
                     published>>
      /\ subPc \in [Subs -> SubStates] /\ subscribers \in [Roles -> SUBSET Subs]
      /\ subRole \in [Subs -> Roles]
  BY DEF SeeDone, RemoveSubscriber, routeVars, consVars, TypeOK
<1>2. \/ subPc' = [subPc EXCEPT ![s] = "leaving"] /\ UNCHANGED subscribers
      \/ /\ subPc' = [subPc EXCEPT ![s] = "gone"]
         /\ subscribers' = [subscribers EXCEPT ![subRole[s]] = @ \ {s}]
  BY DEF SeeDone, RemoveSubscriber
<1>3. subPc'[s] # "serving" /\ subPc'[s] # "idle" /\ subPc' = [subPc EXCEPT ![s] = subPc'[s]]
  BY <1>1, <1>2
<1>4. \A t \in Subs : subPc'[t] = "serving" => subPc[t] = "serving"
  BY <1>1, <1>2
<1>5. \A t \in Subs : Stream(t)'
  BY <1>1, <1>4, StreamKept DEF LineInv
<1>6. subPc'[s] \in {"serving", "leaving"} => UNCHANGED subscribers
  BY <1>1, <1>2
<1>7. \A r \in Roles : \A t \in Subs : t # s => (t \in subscribers'[r] <=> t \in subscribers[r])
  BY <1>1, <1>2
<1>8. CastInv'
  BY <1>1, <1>3, <1>6, <1>7, CastMove
<1> QED
  BY <1>5, <1>8 DEF LineInv

\* Every step keeps the streams.
LEMMA NextLine ==
  TypeOK /\ RealIds /\ FateInv /\ LineInv /\ [Next]_vars => LineInv'
<1> SUFFICES ASSUME TypeOK, RealIds, FateInv, LineInv, [Next]_vars PROVE LineInv'
  OBVIOUS
<1>1. NoStaleSubscriber'
  BY NextSubscriber DEF LineInv, CastInv
<1>2. CASE Feed
  BY <1>2, LineFrame DEF Feed, Receive, PushInbound, DropInbound, consVars, subVars,
     routeVars
<1>3. CASE Consumer
  <2>1. CASE Take
    <3>1. consumer = "idle" /\ fanout = {} /\ consumer' # "broadcast"
      BY <2>1 DEF Take, LineInv, CastInv
    <3> QED
      BY <2>1, <3>1, LineFrame DEF Take, subVars, routeVars
  <2>2. CASE ResolvePendingAsk
    <3>1. fanout = {} /\ consumer' # "broadcast"
      BY <2>2 DEF ResolvePendingAsk, LineInv, CastInv
    <3> QED
      BY <2>2, <3>1, LineFrame DEF ResolvePendingAsk, subVars
  <2>3. ASSUME NEW a \in Askers, SendReply(a) PROVE LineInv'
    <3>1. fanout = {} /\ consumer' # "broadcast"
      BY <2>3 DEF SendReply, LineInv, CastInv
    <3> QED
      BY <2>3, <3>1, LineFrame DEF SendReply, subVars, routeVars
  <2>4. CASE Broadcasted
    BY <2>4, LineFrame DEF Broadcasted, subVars, routeVars
  <2> QED
    BY <1>3, <2>1, <2>2, <2>3, <2>4, LineSnapshot, LinePush DEF Consumer
<1>4. ASSUME NEW a \in Askers, AskHandler(a) \/ AskClientLeaves(a)
      PROVE  LineInv'
  BY <1>4, LineFrame DEF AskHandler, AskResolve, AskSend, AskListen, AskFail,
     AskRegister, AskReply, AskGone, RemovePending, AskClientLeaves, consVars,
     subVars, routeVars
<1>5. ASSUME NEW s \in Subs, SubHandler(s) \/ SubClientLeaves(s)
      PROVE  LineInv'
  <2>1. CASE SubClientLeaves(s)
    BY <2>1, LineFrame DEF SubClientLeaves, consVars, routeVars
  <2> QED
    BY <1>1, <1>5, <2>1, LineSubscribe, LineWrite, LineLeave DEF SubHandler
<1>6. CASE UNCHANGED vars
  BY <1>6, LineFrame DEF vars, consVars, subVars, routeVars
<1> QED
  BY <1>2, <1>3, <1>4, <1>5, <1>6 DEF Next

\* subscribe.go:65: whenever a subscriber joined and however slowly it reads,
\* what it was given and what waits for it is all that was broadcast since, less
\* what did not fit, in the order of the broadcasts.
THEOREM StreamsComplete == Spec => []StreamComplete
<1>1. LineInv => StreamComplete
  BY DEF LineInv, Stream, StreamComplete, DueIds
<1> QED
  BY <1>1, InitLine, InitFate, InitWaiter, NextLine, NextFate, NextWaiter, TypeCorrect,
     PTL DEF Spec, WaiterInv

-----------------------------------------------------------------------------
(* Undecided messages, by who has them.                                    *)

HeldIds   == {holding[t].id : t \in {t \in Transports : holding[t].id # 0}}
QueuedIds == {inbound[i].id : i \in DOMAIN inbound}
ConsIds   == IF consumer = "deliver" THEN {cur.id} ELSE {}

LEMMA UndecidedParts == Undecided = HeldIds \union QueuedIds \union ConsIds
  BY DEF Undecided, HeldIds, QueuedIds, ConsIds

\* A new message is undecided.
LEMMA ReceiveDecides ==
  ASSUME TypeOK, NEW t \in Transports, NEW u \in Users, Receive(t, u)
  PROVE  Undecided' = Undecided \union {nextId}
<1>1. /\ holding[t].id = 0 /\ nextId # 0
      /\ holding'[t].id = nextId
      /\ \A s \in Transports : s # t => holding'[s] = holding[s]
      /\ UNCHANGED <<inbound, consumer, cur>>
  BY DEF Receive, consVars, TypeOK
<1>2. HeldIds' = HeldIds \union {nextId} /\ UNCHANGED <<QueuedIds, ConsIds>>
  BY <1>1 DEF HeldIds, QueuedIds, ConsIds
<1> QED
  BY <1>2 DEF Undecided, HeldIds, QueuedIds, ConsIds

\* In the channel it still is.
LEMMA PushDecides ==
  ASSUME TypeOK, NEW t \in Transports, PushInbound(t)
  PROVE  UNCHANGED Undecided
<1> DEFINE m == holding[t]
<1>1. /\ m.id # 0 /\ m \in Message
      /\ inbound' = Append(inbound, m)
      /\ holding' = [holding EXCEPT ![t] = NoMsg]
      /\ UNCHANGED <<consumer, cur>>
      /\ inbound \in Seq(Message)
  BY DEF PushInbound, consVars, TypeOK
<1>2. /\ holding'[t].id = 0
      /\ \A s \in Transports : s # t => holding'[s] = holding[s]
  BY <1>1, NoMsgType DEF TypeOK
<1>3. /\ DOMAIN inbound = 1..Len(inbound) /\ Len(inbound) \in Nat
      /\ DOMAIN inbound' = 1..(Len(inbound) + 1)
      /\ \A i \in 1..Len(inbound) : inbound'[i] = inbound[i]
      /\ inbound'[Len(inbound) + 1] = m
  BY <1>1, AppendProperties, LenProperties
<1>4. HeldIds = HeldIds' \union {m.id}
  BY <1>1, <1>2 DEF HeldIds
<1>5. QueuedIds' = QueuedIds \union {m.id}
  <2> HIDE DEF m
  <2> QED
    BY <1>3 DEF QueuedIds
<1>6. UNCHANGED ConsIds
  BY <1>1 DEF ConsIds
<1> QED
  BY <1>4, <1>5, <1>6 DEF Undecided, HeldIds, QueuedIds, ConsIds

\* Dropped it is no more.
LEMMA DropDecides ==
  ASSUME TypeOK, RealIds, FateInv, NEW t \in Transports, DropInbound(t)
  PROVE  holding[t].id \in Undecided /\ Undecided' = Undecided \ {holding[t].id}
<1> DEFINE n == holding[t].id
<1>1. /\ n # 0 /\ n \in Nat
      /\ holding' = [holding EXCEPT ![t] = NoMsg]
      /\ UNCHANGED <<inbound, consumer, cur>>
  BY DEF DropInbound, consVars, TypeOK, Message
<1>2. /\ holding'[t].id = 0
      /\ \A s \in Transports : s # t => holding'[s] = holding[s]
  BY <1>1, NoMsgType DEF TypeOK
<1>3. \A s \in Transports : s # t => holding[s].id # n
  BY <1>1 DEF FateInv
<1>4. Held(n) /\ ~InChannel(n) /\ ~AtConsumer(n)
  BY <1>1 DEF FateInv, Held
<1>5. n \in HeldIds /\ HeldIds' = HeldIds \ {n}
  BY <1>1, <1>2, <1>3 DEF HeldIds
<1>6. n \notin QueuedIds /\ n \notin ConsIds /\ UNCHANGED <<QueuedIds, ConsIds>>
  BY <1>1, <1>4 DEF QueuedIds, ConsIds, InChannel, AtConsumer
<1> QED
  BY <1>5, <1>6 DEF Undecided, HeldIds, QueuedIds, ConsIds

\* With the consumer it still is undecided.
LEMMA TakeDecides ==
  ASSUME TypeOK, Take
  PROVE  UNCHANGED Undecided
<1>1. /\ inbound \in Seq(Message) /\ inbound # <<>>
      /\ cur' = Head(inbound) /\ inbound' = Tail(inbound)
      /\ consumer = "idle" /\ consumer' = "deliver"
      /\ UNCHANGED holding
  BY DEF Take, TypeOK
<1>2. /\ DOMAIN inbound = 1..Len(inbound)
      /\ Len(inbound) \in Nat /\ Len(inbound) # 0
      /\ cur' = inbound[1]
      /\ DOMAIN inbound' = 1..(Len(inbound) - 1)
      /\ \A i \in 1..(Len(inbound) - 1) : inbound'[i] = inbound[i + 1]
  BY <1>1, HeadTailProperties, LenProperties, EmptySeq
<1>3. QueuedIds = QueuedIds' \union {cur'.id}
  <2>1. ASSUME NEW i \in DOMAIN inbound, i # 1
        PROVE  inbound[i].id \in QueuedIds'
    <3>1. i - 1 \in 1..(Len(inbound) - 1) /\ (i - 1) + 1 = i
      BY <1>2, <2>1
    <3> QED
      BY <1>2, <3>1 DEF QueuedIds
  <2>2. ASSUME NEW i \in DOMAIN inbound'
        PROVE  inbound'[i].id \in QueuedIds
    <3>1. i + 1 \in DOMAIN inbound /\ inbound'[i] = inbound[i + 1]
      BY <1>2
    <3> QED
      BY <3>1 DEF QueuedIds
  <2>3. 1 \in DOMAIN inbound
    BY <1>2
  <2> QED
    BY <1>2, <2>1, <2>2, <2>3 DEF QueuedIds
<1>4. ConsIds = {} /\ ConsIds' = {cur'.id} /\ UNCHANGED HeldIds
  BY <1>1 DEF ConsIds, HeldIds
<1> QED
  BY <1>3, <1>4 DEF Undecided, HeldIds, QueuedIds, ConsIds

\* The consumer decides what it has.
LEMMA ConsumerDecides ==
  ASSUME TypeOK, RealIds, FateInv, consumer = "deliver", consumer' # "deliver",
         UNCHANGED <<holding, inbound>>
  PROVE  cur.id \in Undecided /\ Undecided' = Undecided \ {cur.id}
<1>1. cur.id \in Nat \ {0}
  BY DEF TypeOK, RealIds, Message
<1>2. AtConsumer(cur.id) /\ ~Held(cur.id) /\ ~InChannel(cur.id)
  BY <1>1 DEF FateInv, AtConsumer
<1>3. cur.id \notin HeldIds /\ cur.id \notin QueuedIds
  BY <1>2 DEF HeldIds, QueuedIds, Held, InChannel
<1>4. ConsIds = {cur.id} /\ ConsIds' = {} /\ UNCHANGED <<HeldIds, QueuedIds>>
  BY DEF ConsIds, HeldIds, QueuedIds
<1> QED
  BY <1>3, <1>4 DEF Undecided, HeldIds, QueuedIds, ConsIds

-----------------------------------------------------------------------------
(* How far a reader has got.                                               *)

\* The last event a client was given stands in one place of the log, and it was
\* broadcast after the client joined.
LEMMA LastReadPlace ==
  ASSUME TypeOK, OneFate, NEW s \in Subs, Stream(s), received[s] # <<>>
  PROVE  /\ LastRead(s) \in Since(s) /\ LastRead(s) \in DOMAIN published
         /\ published[LastRead(s)] = Last(received[s])
         /\ \A k \in DOMAIN published :
              published[k] = Last(received[s]) => k = LastRead(s)
<1> DEFINE n == Last(received[s])
           m == Len(received[s])
<1>1. /\ received[s] \in Seq(Nat) /\ buf[s] \in Seq(Nat) /\ published \in Seq(Nat)
      /\ joinedAt[s] \in Nat
  BY DEF TypeOK
<1>2. m \in Nat /\ m # 0 /\ n = received[s][m]
  BY <1>1, LenProperties, EmptySeq DEF Last
<1>3. m \in DOMAIN Line(s) /\ Line(s)[m] = n
  BY <1>1, LinePlaces DEF Line
<1>4. n \in DueIds(s)
  BY <1>3 DEF Stream, ToSet
<1>5. PICK k \in Since(s) : published[k] = n
  BY <1>4 DEF DueIds
<1>6. k \in DOMAIN published
  BY <1>1, LenProperties DEF Since
<1>7. \A l \in DOMAIN published : published[l] = n => l = k
  BY <1>5, <1>6 DEF OneFate
<1> HIDE DEF n
<1>8. (CHOOSE i \in DOMAIN published : published[i] = n) = k
  BY <1>5, <1>6, <1>7
<1>9. LastRead(s) = k
  BY <1>8 DEF LastRead, n
<1> QED
  BY <1>5, <1>6, <1>7, <1>9 DEF n

\* The log goes on behind it.
LEMMA SnapshotReads ==
  ASSUME TypeOK, RealIds, FateInv, LineInv, Snapshot, NEW s \in Subs
  PROVE  LastRead(s)' = LastRead(s)
<1>1. /\ published' = Append(published, cur.id) /\ UNCHANGED <<received, joinedAt>>
      /\ published \in Seq(Nat) /\ cur.id \in Nat \ {0} /\ consumer = "deliver"
  BY DEF Snapshot, subVars, TypeOK, RealIds, Message
<1>2. CASE received[s] = <<>>
  BY <1>1, <1>2 DEF LastRead
<1>3. CASE received[s] # <<>>
  <2> DEFINE n == Last(received[s])
             p == LastRead(s)
  <2>1. /\ p \in DOMAIN published /\ published[p] = n
        /\ \A k \in DOMAIN published : published[k] = n => k = p
    BY <1>3, LastReadPlace DEF LineInv, FateInv
  <2>2. /\ Len(published) \in Nat /\ DOMAIN published = 1..Len(published)
        /\ DOMAIN published' = 1..(Len(published) + 1)
        /\ \A i \in 1..Len(published) : published'[i] = published[i]
        /\ published'[Len(published) + 1] = cur.id
    BY <1>1, AppendProperties, LenProperties
  <2>3. n # cur.id
    BY <1>1, <2>1 DEF FateInv, AtConsumer, Published
  <2> HIDE DEF n, p
  <2>4. /\ p \in DOMAIN published' /\ published'[p] = n
        /\ \A k \in DOMAIN published' : published'[k] = n => k = p
    BY <2>1, <2>2, <2>3
  <2>5. (CHOOSE i \in DOMAIN published' : published'[i] = n) = p
    BY <2>4
  <2> QED
    BY <1>1, <1>3, <2>5 DEF LastRead, n, p
<1> QED
  BY <1>2, <1>3

\* Given the next event a reader moves forward, to its place in the log.
LEMMA WriteReads ==
  ASSUME TypeOK, FateInv, LineInv, NEW s \in Subs, buf[s] # <<>>,
         received' = [received EXCEPT ![s] = Append(received[s], Head(buf[s]))],
         UNCHANGED <<published, joinedAt>>
  PROVE  LastRead(s)' \in (LastRead(s) + 1)..Len(published)
<1> DEFINE n == Head(buf[s])
           m == Len(received[s])
<1>1. /\ received[s] \in Seq(Nat) /\ buf[s] \in Seq(Nat) /\ published \in Seq(Nat)
      /\ joinedAt[s] \in Nat /\ OneFate /\ Stream(s)
  BY DEF TypeOK, FateInv, LineInv
<1>2. /\ m \in Nat /\ Len(buf[s]) \in Nat /\ Len(buf[s]) # 0 /\ n = buf[s][1]
      /\ n \in Nat /\ DOMAIN received[s] = 1..m
  BY <1>1, LenProperties, EmptySeq, HeadTailProperties
<1>3. m + 1 \in DOMAIN Line(s) /\ Line(s)[m + 1] = n
  BY <1>1, LinePlaces DEF Line
<1>4. n \in DueIds(s)
  BY <1>1, <1>3 DEF Stream, ToSet
<1>5. PICK k \in Since(s) : published[k] = n
  BY <1>4 DEF DueIds
<1>6. k \in DOMAIN published /\ k \in (joinedAt[s] + 1)..Len(published)
  BY <1>1, LenProperties DEF Since
<1>7. \A l \in DOMAIN published : published[l] = n => l = k
  BY <1>1, <1>5, <1>6 DEF OneFate
<1>8. LastRead(s)' = k
  <2>1. received'[s] = Append(received[s], n)
    BY DEF TypeOK
  <2>2. received'[s] # <<>> /\ Last(received'[s]) = n
    BY <1>1, <1>2, <2>1, AppendLast
  <2> HIDE DEF n
  <2>3. (CHOOSE i \in DOMAIN published : published[i] = n) = k
    BY <1>5, <1>6, <1>7
  <2> QED
    BY <2>2, <2>3 DEF LastRead
<1>9. CASE received[s] = <<>>
  BY <1>6, <1>8, <1>9 DEF LastRead
<1>10. CASE received[s] # <<>>
  <2>1. m \in DOMAIN Line(s) /\ Line(s)[m] = Last(received[s])
    BY <1>1, <1>10, LinePlaces DEF Line
  <2>2. /\ LastRead(s) \in DOMAIN published
        /\ published[LastRead(s)] = Last(received[s])
    BY <1>1, <1>10, LastReadPlace
  <2>3. LastRead(s) < k
    <3>1. m < m + 1
      BY <1>2
    <3> HIDE DEF m
    <3> QED
      BY <1>1, <1>3, <1>5, <1>6, <2>1, <2>2, <3>1 DEF Stream, InOrder
  <2>4. LastRead(s) \in Nat /\ Len(published) \in Nat
    BY <1>1, <2>2, LenProperties
  <2> QED
    BY <1>6, <1>8, <2>3, <2>4
<1> QED
  BY <1>9, <1>10

-----------------------------------------------------------------------------
(* The refinement.                                                         *)

\* What is known of the hub in every state.
HubInv == TypeOK /\ WaiterInv /\ FateInv /\ LineInv

LEMMA InitHub == Init => HubInv
  BY InitType, InitWaiter, InitFate, InitLine DEF HubInv

LEMMA NextHub == HubInv /\ [Next]_vars => HubInv'
<1>1. WaiterInv => RealIds
  BY DEF WaiterInv
<1> QED
  BY <1>1, NextType, NextWaiter, NextFate, NextLine DEF HubInv

\* The readers' cursors.
Cursor == [s \in Subs |-> LastRead(s)]

LEMMA CursorKept ==
  ASSUME \A s \in Subs : LastRead(s)' = LastRead(s)
  PROVE  UNCHANGED Cursor
  BY DEF Cursor

\* Nothing is accepted, decided or read at first.
LEMMA InitMaps == Init => Router!Init
<1> SUFFICES ASSUME Init PROVE Router!Init
  OBVIOUS
<1>1. nextId = 1 /\ answer = [a \in Askers |-> 0] /\ published = <<>>
  BY DEF Init
<1>2. Undecided = {}
  BY NoMsgType DEF Init, Undecided
<1>3. \A s \in Subs : LastRead(s) = 0
  BY DEF Init, LastRead
<1> QED
  BY <1>1, <1>2, <1>3 DEF Router!Init

\* Steps that the router does not see.
LEMMA Unseen ==
  ASSUME UNCHANGED <<nextId, answer, published, received, joinedAt>>,
         UNCHANGED Undecided
  PROVE  UNCHANGED Router!vars
<1>1. UNCHANGED Cursor
  BY CursorKept DEF LastRead
<1> QED
  BY <1>1 DEF Router!vars, Cursor

\* Nor those that move no message and give no client anything.
LEMMA Hidden ==
  ASSUME UNCHANGED <<nextId, holding, inbound, answer, published, received, joinedAt>>,
         consumer = "deliver" \/ consumer' = "deliver" => UNCHANGED <<consumer, cur>>
  PROVE  UNCHANGED Router!vars
<1>1. UNCHANGED Undecided
  BY DEF Undecided
<1> QED
  BY <1>1, Unseen

\* The receive loops accept messages and lose them.
LEMMA FeedMaps == ASSUME HubInv, Feed PROVE [Router!Next]_Router!vars
<1>1. TypeOK /\ RealIds /\ FateInv
  BY DEF HubInv, WaiterInv
<1>2. UNCHANGED <<answer, published, received, joinedAt>>
  BY DEF Feed, Receive, PushInbound, DropInbound, subVars, routeVars
<1>3. UNCHANGED Cursor
  BY <1>2, CursorKept DEF LastRead
<1>4. ASSUME NEW t \in Transports, NEW u \in Users, Receive(t, u)
      PROVE  Router!Accept
  <2>1. Undecided' = Undecided \union {nextId} /\ nextId' = nextId + 1
    BY <1>1, <1>4, ReceiveDecides DEF Receive
  <2> QED
    BY <1>2, <1>3, <2>1 DEF Router!Accept, Cursor
<1>5. ASSUME NEW t \in Transports, PushInbound(t)
      PROVE  UNCHANGED Router!vars
  <2>1. UNCHANGED <<nextId, Undecided>>
    BY <1>1, <1>5, PushDecides DEF PushInbound
  <2> QED
    BY <1>2, <2>1, Unseen
<1>6. ASSUME NEW t \in Transports, DropInbound(t)
      PROVE  \E n \in Undecided : Router!Lose(n)
  <2>1. /\ holding[t].id \in Undecided /\ Undecided' = Undecided \ {holding[t].id}
        /\ UNCHANGED nextId
    BY <1>1, <1>6, DropDecides DEF DropInbound
  <2> QED
    BY <1>2, <1>3, <2>1 DEF Router!Lose, Cursor
<1> QED
  BY <1>4, <1>5, <1>6 DEF Feed, Router!Next

\* The consumer decides messages.
LEMMA ConsumerMaps == ASSUME HubInv, Consumer PROVE [Router!Next]_Router!vars
<1>1. TypeOK /\ RealIds /\ FateInv /\ WaiterInv /\ LineInv
  BY DEF HubInv, WaiterInv
<1>2. UNCHANGED <<nextId, received, joinedAt>>
  BY DEF Consumer, Take, ResolvePendingAsk, SendReply, Snapshot, PushEvent, Broadcasted,
     subVars, feedVars
<1>3. CASE Take
  BY <1>1, <1>2, <1>3, TakeDecides, Unseen DEF Take, routeVars
<1>4. CASE ResolvePendingAsk
  <2> DEFINE w == Head(pendingAsk[cur.from])
  <2>1. /\ consumer = "deliver" /\ consumer' = "answer"
        /\ answer' = [answer EXCEPT ![w] = cur.id]
        /\ UNCHANGED <<holding, inbound, published>>
    BY <1>4 DEF ResolvePendingAsk, feedVars
  <2>2. w \in Askers /\ answer[w] = 0
    <3>1. /\ pendingAsk[cur.from] \in Seq(Askers) /\ pendingAsk[cur.from] # <<>>
          /\ cur.from \in Users
      BY <1>1, <1>4 DEF ResolvePendingAsk, CanAnswer, TypeOK, Message
    <3>2. w = pendingAsk[cur.from][1] /\ 1 \in DOMAIN pendingAsk[cur.from] /\ w \in Askers
      BY <3>1, HeadTailProperties, LenProperties, EmptySeq
    <3> QED
      BY <1>1, <3>1, <3>2 DEF WaiterInv, QueuesExact, Owed
  <2>3. cur.id \in Undecided /\ Undecided' = Undecided \ {cur.id}
    BY <1>1, <2>1, ConsumerDecides
  <2>4. UNCHANGED Cursor
    BY <1>2, <2>1, CursorKept DEF LastRead
  <2> HIDE DEF w
  <2>5. Router!Answer(cur.id, w)
    BY <1>2, <2>1, <2>2, <2>3, <2>4 DEF Router!Answer, Cursor
  <2> QED
    BY <2>2, <2>3, <2>5 DEF Router!Next
<1>5. CASE Snapshot
  <2>1. /\ consumer = "deliver" /\ consumer' = "broadcast"
        /\ published' = Append(published, cur.id)
        /\ UNCHANGED <<holding, inbound, answer>>
    BY <1>5 DEF Snapshot, feedVars
  <2>2. cur.id \in Undecided /\ Undecided' = Undecided \ {cur.id}
    BY <1>1, <2>1, ConsumerDecides
  <2>3. UNCHANGED Cursor
    BY <1>1, <1>5, SnapshotReads, CursorKept
  <2>4. Router!Publish(cur.id)
    BY <1>2, <2>1, <2>2, <2>3 DEF Router!Publish, Cursor
  <2> QED
    BY <2>2, <2>4 DEF Router!Next
<1>6. ASSUME NEW a \in Askers, SendReply(a) PROVE UNCHANGED Router!vars
  BY <1>2, <1>6, Hidden DEF SendReply, feedVars, routeVars
<1>7. ASSUME NEW s \in Subs, PushEvent(s) PROVE UNCHANGED Router!vars
  BY <1>2, <1>7, Hidden DEF PushEvent, feedVars
<1>8. CASE Broadcasted
  BY <1>2, <1>8, Hidden DEF Broadcasted, feedVars, routeVars
<1> QED
  BY <1>3, <1>4, <1>5, <1>6, <1>7, <1>8 DEF Consumer

\* Subscribers join and read.
LEMMA SubMaps ==
  ASSUME HubInv, NEW s \in Subs, SubHandler(s) \/ SubClientLeaves(s)
  PROVE  [Router!Next]_Router!vars
<1>1. TypeOK /\ FateInv /\ LineInv
  BY DEF HubInv
<1>2. UNCHANGED <<nextId, holding, inbound, consumer, cur, answer, published, Undecided>>
  BY DEF SubHandler, Subscribe, WriteEvent, SeeDone, RemoveSubscriber, SubClientLeaves,
     feedVars, consVars, routeVars, Undecided
<1>3. ASSUME NEW r \in Roles, Subscribe(s, r) PROVE Router!Join(s)
  <2>1. /\ joinedAt' = [joinedAt EXCEPT ![s] = Len(published)]
        /\ UNCHANGED received /\ received[s] = <<>> /\ joinedAt \in [Subs -> Nat]
    BY <1>1, <1>3 DEF Subscribe, LineInv, CastInv, TypeOK
  <2>2. \A t \in Subs : LastRead(t)' = IF t = s THEN Len(published) ELSE LastRead(t)
    BY <1>2, <2>1 DEF LastRead
  <2>3. Cursor' = [Cursor EXCEPT ![s] = Len(published)]
    BY <2>2 DEF Cursor
  <2> QED
    BY <1>2, <2>3 DEF Router!Join, Cursor
<1>4. CASE WriteEvent(s)
  <2>1. CASE subConn[s]
    <3>1. /\ buf[s] # <<>>
          /\ received' = [received EXCEPT ![s] = Append(received[s], Head(buf[s]))]
          /\ UNCHANGED joinedAt /\ received \in [Subs -> Seq(Nat)]
      BY <1>1, <1>4, <2>1 DEF WriteEvent, TypeOK
    <3>2. LastRead(s)' \in (LastRead(s) + 1)..Len(published)
      BY <1>1, <1>2, <3>1, WriteReads
    <3>3. \A t \in Subs : t # s => LastRead(t)' = LastRead(t)
      BY <1>2, <3>1 DEF LastRead
    <3>4. Cursor' = [Cursor EXCEPT ![s] = LastRead(s)']
      BY <3>3 DEF Cursor
    <3>5. Cursor[s] = LastRead(s)
      BY DEF Cursor
    <3>6. Router!Read(s)
      BY <1>2, <3>2, <3>4, <3>5 DEF Router!Read, Cursor
    <3> QED
      BY <3>6 DEF Router!Next
  <2>2. CASE ~subConn[s]
    <3>1. UNCHANGED <<received, joinedAt>>
      BY <1>4, <2>2 DEF WriteEvent
    <3> QED
      BY <1>2, <3>1, Unseen
  <2> QED
    BY <2>1, <2>2
<1>5. CASE SeeDone(s) \/ RemoveSubscriber(s) \/ SubClientLeaves(s)
  <2>1. UNCHANGED <<received, joinedAt>>
    BY <1>5 DEF SeeDone, RemoveSubscriber, SubClientLeaves
  <2> QED
    BY <1>2, <2>1, Unseen
<1> QED
  BY <1>3, <1>4, <1>5 DEF SubHandler, Router!Next

\* Each step of the hub is a step of the router or one it does not see.
LEMMA NextMaps == HubInv /\ [Next]_vars => [Router!Next]_Router!vars
<1> SUFFICES ASSUME HubInv, [Next]_vars PROVE [Router!Next]_Router!vars
  OBVIOUS
<1>1. ASSUME NEW a \in Askers, AskHandler(a) \/ AskClientLeaves(a)
      PROVE  UNCHANGED Router!vars
  <2>1. UNCHANGED <<nextId, holding, inbound, consumer, cur, answer, published, received,
                    joinedAt>>
    BY <1>1 DEF AskHandler, AskResolve, AskSend, AskListen, AskFail, AskRegister,
       AskReply, AskGone, RemovePending, AskClientLeaves, feedVars, consVars, subVars,
       routeVars
  <2> QED
    BY <2>1, Hidden
<1>2. CASE UNCHANGED vars
  BY <1>2, Hidden DEF vars, feedVars, consVars, subVars, routeVars
<1> QED
  BY <1>1, <1>2, FeedMaps, ConsumerMaps, SubMaps DEF Next

\* The hub keeps what MessageRouter promises: every accepted message is decided
\* once, no ask is answered twice, and no subscriber is given an event from before
\* it joined or from before one it was given.
THEOREM HubImplementsRouter == Spec => ImplementsRouter
  BY InitHub, NextHub, InitMaps, NextMaps, PTL
  DEF Spec, ImplementsRouter, Router!Spec
=============================================================================
