-------------------------- MODULE InstagramProofs --------------------------
(***************************************************************************)
(* Proofs about Instagram, for any connector actions, any number of logins *)
(* and messages, and every capacity of the inbound channel.                *)
(***************************************************************************)
EXTENDS Instagram, SequenceTheorems, TLAPS

\* The groups of variables and the parts that several actions share.
USE DEF account, sidecar, platform, work, poll, messages, elsewhere, Move,
        Local, Call, PollStep, Skip, EmitNext, SetRow, Answer, NewSession

-----------------------------------------------------------------------------
(* Types.                                                                  *)

\* What the constants' assumption says of the sets built from them.
LEMMA Bounds ==
  /\ MaxSessions \in Nat /\ MaxMsgs \in Nat /\ InboundCap \in Nat \ {0}
  /\ 0 \in Sessions /\ Starter \in Procs
  /\ \A p \in Procs : Done(p) \in {"tick", "idle"}
  BY InstagramAssumption DEF Sessions, Procs, Done

\* An answer of the sidecar is one of the statuses.
LEMMA TypeAnswer ==
  ASSUME TypeOK, NEW p \in Procs, NEW from, NEW answer \in Statuses,
         Answer(p, from, answer)
  PROVE  /\ pc' \in [Procs -> Places]
         /\ result' \in [Procs -> Statuses]
         /\ UNCHANGED <<account, poll, messages, held>>
  BY DEF TypeOK, Places, Statuses

\* A new session is one more.
LEMMA TypeNewSession ==
  ASSUME TypeOK, NewSession
  PROVE  /\ session' \in Sessions
         /\ logins' \in Sessions
         /\ live' \subseteq 1..logins'
  BY Bounds DEF TypeOK, Sessions

\* The goroutines' own steps on the account keep the types.
LEMMA TypeAccount ==
  ASSUME TypeOK, NEW p \in Procs, Account(p)
  PROVE  TypeOK'
<1> USE Bounds DEF TypeOK, Places
<1>1. CASE Load(p)
  <2>1. pc' \in [Procs -> Places]
    BY <1>1 DEF Load
  <2>2. held' \in [Procs -> Sessions]
    BY <1>1 DEF Load
  <2>3. UNCHANGED <<account, result, sidecar, platform, poll, messages>>
    BY <1>1 DEF Load
  <2> QED
    BY <2>1, <2>2, <2>3
<1>2. CASE Restore(p)
  <2>1. CASE /\ Call(p, "restore", "apply")
             /\ session' = held[p]
             /\ result' = [result EXCEPT ![p] = "connected"]
    BY <1>2, <2>1 DEF Restore, Statuses
  <2>2. CASE /\ Call(p, "restore", "login")
             /\ session' \in {session, held[p]}
             /\ UNCHANGED result
    BY <1>2, <2>2 DEF Restore
  <2> QED
    BY <1>2, <2>1, <2>2 DEF Restore
<1>3. CASE Unconfigured(p)
  BY <1>3 DEF Unconfigured, Statuses
<1>4. CASE Unreached(p)
  BY <1>4 DEF Unreached, Statuses
<1>5. CASE BeginLogin(p)
  BY <1>5 DEF BeginLogin
<1>6. CASE BeginVerify(p)
  BY <1>6 DEF BeginVerify
<1>7. CASE EndLogin(p)
  <2>1. PICK answer \in Statuses : Answer(p, "loggingIn", answer)
    BY <1>7 DEF EndLogin, Statuses
  <2>2. /\ session' \in Sessions /\ logins' \in Sessions
        /\ live' \subseteq 1..logins'
    BY <1>7, TypeNewSession DEF EndLogin
  <2>3. pending' \in TwoSteps \union {"none"}
    BY <1>7 DEF EndLogin
  <2> QED
    BY <2>1, <2>2, <2>3, TypeAnswer
<1>8. CASE EndVerify(p)
  <2>1. PICK from \in Places, answer \in Statuses : Answer(p, from, answer)
    BY <1>8 DEF EndVerify, Statuses, TwoSteps
  <2>2. /\ session' \in Sessions /\ logins' \in Sessions
        /\ live' \subseteq 1..logins'
    BY <1>8, TypeNewSession DEF EndVerify
  <2>3. pending' \in TwoSteps \union {"none"}
    BY <1>8 DEF EndVerify, TwoSteps
  <2> QED
    BY <2>1, <2>2, <2>3, TypeAnswer
<1>9. CASE Apply(p)
  <2>1. pc' \in [Procs -> Places]
    BY <1>9 DEF Apply
  <2>2. status' \in Statuses /\ result' \in [Procs -> Statuses]
    BY <1>9 DEF Apply, Statuses
  <2>3. UNCHANGED <<blob, held, sidecar, platform, poll, messages>>
    BY <1>9 DEF Apply
  <2> QED
    BY <2>1, <2>2, <2>3
<1>10. CASE Dump(p)
  <2>1. pc' \in [Procs -> Places]
    BY <1>10 DEF Dump
  <2>2. held' \in [Procs -> Sessions]
    BY <1>10 DEF Dump
  <2>3. UNCHANGED <<account, result, sidecar, platform, poll, messages>>
    BY <1>10 DEF Dump
  <2> QED
    BY <2>1, <2>2, <2>3
<1>11. CASE Save(p)
  BY <1>11 DEF Save
<1>12. CASE Logout(p)
  BY <1>12 DEF Logout
<1>13. CASE Clear(p)
  BY <1>13 DEF Clear
<1>14. CASE Down(p)
  BY <1>14 DEF Down, Statuses
<1> QED
  BY <1>1, <1>2, <1>3, <1>4, <1>5, <1>6, <1>7, <1>8, <1>9, <1>10, <1>11, <1>12,
     <1>13, <1>14 DEF Account

\* The poll keeps the types.
LEMMA TypePoll == ASSUME TypeOK, Poll PROVE TypeOK'
<1> USE Bounds DEF TypeOK, Places
<1>1. CASE Tick
  BY <1>1 DEF Tick
<1>2. CASE FetchAnswered
  <2>1. fetched' \subseteq 1..arrived /\ UNCHANGED arrived
    BY <1>2 DEF FetchAnswered, Shown
  <2>2. pc' \in [Procs -> Places]
    BY <1>2 DEF FetchAnswered
  <2> QED
    BY <1>2, <2>1, <2>2 DEF FetchAnswered
<1>3. CASE FetchFailed
  BY <1>3 DEF FetchFailed
<1>4. CASE Lapse
  BY <1>4 DEF Lapse, Statuses
<1>5. ASSUME NEW m \in Msgs, Store(m) PROVE TypeOK'
  <2>1. m \in 1..arrived /\ arrived \in Nat
    BY <1>5 DEF Store
  <2>2. row' \in [Msgs -> {"none", "unread", "read"}]
    BY <1>5 DEF Store
  <2>3. pc' \in [Procs -> Places]
    BY <1>5 DEF Store
  <2>4. cur' \in 0..arrived
    BY <1>5, <2>1 DEF Store
  <2> QED
    BY <1>5, <2>1, <2>2, <2>3, <2>4 DEF Store
<1>6. ASSUME NEW m \in Msgs, NotStored(m) PROVE TypeOK'
  <2>1. pc' \in [Procs -> Places] /\ fetched' \subseteq 1..arrived
    BY <1>6 DEF NotStored
  <2> QED
    BY <1>6, <2>1 DEF NotStored
<1>7. CASE Scanned
  BY <1>7 DEF Scanned
<1>8. CASE Emit
  <2>1. arrived \in Nat /\ 0 \in 0..arrived /\ cur \in Nat
    OBVIOUS
  <2>2. /\ inbound' \in Seq(Nat) /\ Len(inbound') <= InboundCap
        /\ pushed' \in Seq(Nat)
    <3>1. CASE /\ Len(inbound) < InboundCap
               /\ inbound' = Append(inbound, cur)
               /\ pushed' = Append(pushed, cur)
      <4>1. /\ inbound' \in Seq(Nat) /\ pushed' \in Seq(Nat)
            /\ Len(inbound') = Len(inbound) + 1
            /\ Len(inbound) \in Nat
        BY <2>1, <3>1, AppendProperties, LenProperties
      <4> QED
        BY <3>1, <4>1
    <3>2. CASE UNCHANGED <<inbound, pushed>>
      BY <3>2
    <3> QED
      BY <1>8, <3>1, <3>2 DEF Emit
  <2> QED
    BY <1>8, <2>1, <2>2 DEF Emit
<1> QED
  BY <1>1, <1>2, <1>3, <1>4, <1>5, <1>6, <1>7, <1>8 DEF Poll

\* The world's steps keep the types.
LEMMA TypeWorld == ASSUME TypeOK, World PROVE TypeOK'
<1> USE Bounds DEF TypeOK
<1>1. CASE Send
  <2>1. arrived' \in 0..MaxMsgs /\ 1..arrived \subseteq 1..arrived'
    BY <1>1 DEF Send
  <2>2. fetched \subseteq 1..arrived' /\ cur \in 0..arrived'
    BY <1>1 DEF Send
  <2>3. mine' \subseteq 1..arrived' /\ sending' \subseteq mine'
    BY <1>1, <2>1 DEF Send
  <2> QED
    BY <1>1, <2>1, <2>2, <2>3 DEF Send
<1>2. ASSUME NEW m \in Msgs, StoreSent(m) PROVE TypeOK'
  BY <1>2 DEF StoreSent
<1>3. ASSUME NEW m \in Msgs, MarkRead(m) PROVE TypeOK'
  BY <1>3 DEF MarkRead
<1>4. CASE HubTakes
  <2>1. inbound' \in Seq(Nat) /\ Len(inbound') <= InboundCap
    <3>1. /\ inbound # <<>> /\ inbound \in Seq(Nat)
          /\ inbound' = Tail(inbound)
      BY <1>4 DEF HubTakes
    <3>2. /\ Tail(inbound) \in Seq(Nat)
          /\ Len(Tail(inbound)) = Len(inbound) - 1
          /\ Len(inbound) \in Nat
      BY <3>1, HeadTailProperties, LenProperties
    <3> QED
      BY <3>1, <3>2
  <2> QED
    BY <1>4, <2>1 DEF HubTakes
<1>5. CASE Arrive
  <2>1. arrived' \in 0..MaxMsgs /\ 1..arrived \subseteq 1..arrived'
    BY <1>5 DEF Arrive
  <2> QED
    BY <1>5, <2>1 DEF Arrive
<1>6. ASSUME NEW s \in Sessions, Expire(s) PROVE TypeOK'
  BY <1>6 DEF Expire
<1>7. CASE SidecarRestarts
  BY <1>7 DEF SidecarRestarts
<1>8. CASE DaemonRestarts
  <2>1. <<>> \in Seq(Nat) /\ Len(<<>>) = 0
    BY EmptySeq
  <2> QED
    BY <1>8, <2>1 DEF DaemonRestarts, Places, Statuses
<1> QED
  BY <1>1, <1>2, <1>3, <1>4, <1>5, <1>6, <1>7, <1>8 DEF World

\* The initial state has its types, and every step keeps them.
LEMMA InitType == Init => TypeOK
  BY Bounds DEF Init, TypeOK, Places, Statuses, Sessions

LEMMA TypeNext == TypeOK /\ [Next]_vars => TypeOK'
<1> SUFFICES ASSUME TypeOK, [Next]_vars PROVE TypeOK'
  OBVIOUS
<1>1. CASE Start
  BY <1>1, Bounds DEF Start, TypeOK, Places, Statuses
<1>2. ASSUME NEW a \in Actions, Action(a) PROVE TypeOK'
  BY <1>2, Bounds DEF Action, TypeOK, Places, Procs
<1>3. CASE UNCHANGED vars
  BY <1>3 DEF vars, TypeOK
<1> QED
  BY <1>1, <1>2, <1>3, TypeAccount, TypePoll, TypeWorld DEF Next

\* In every behaviour every variable has its type and the inbound channel holds
\* no more than it may.
THEOREM TypeCorrect == Spec => []TypeOK
  BY InitType, TypeNext, PTL DEF Spec

-----------------------------------------------------------------------------
(* One push per message.                                                   *)

\* SurfacedOnce is not inductive by itself: a message sent later must not be one
\* already pushed, so what was pushed has arrived; and the message being emitted
\* is another's, has its row, and was not pushed before.  The row outlives a
\* restart of the daemon, the message being emitted does not.
Surfaceable(m) == m \in 1..arrived /\ m \notin mine /\ row[m] # "none"

SurfacedInv ==
  /\ \A i \in DOMAIN pushed : Surfaceable(pushed[i])
  /\ \A i, j \in DOMAIN pushed : pushed[i] = pushed[j] => i = j
  /\ pc[Starter] = "emit" =>
       Surfaceable(cur) /\ \A i \in DOMAIN pushed : pushed[i] # cur

\* Nothing is pushed at first, and then what the invariant says is the property.
LEMMA InitSurfaced == Init => SurfacedInv
  BY Bounds DEF Init, SurfacedInv

LEMMA SurfacedSuffices == TypeOK /\ SurfacedInv => SurfacedOnce
<1> SUFFICES ASSUME TypeOK, SurfacedInv PROVE SurfacedOnce
  OBVIOUS
<1>1. 1..arrived \subseteq Msgs
  BY Bounds DEF TypeOK, Msgs
<1> QED
  BY <1>1 DEF SurfacedInv, Surfaceable, SurfacedOnce

\* A step that takes no message back and starts no emission keeps the invariant.
LEMMA SurfacedKept ==
  ASSUME TypeOK, SurfacedInv, UNCHANGED pushed,
         \A m \in 1..arrived : Surfaceable(m) => Surfaceable(m)',
         pc'[Starter] = "emit" => pc[Starter] = "emit" /\ UNCHANGED cur
  PROVE  SurfacedInv'
<1>1. \A m : Surfaceable(m) => Surfaceable(m)'
  BY DEF Surfaceable
<1> QED
  BY <1>1 DEF SurfacedInv

\* No step on the account begins an emission.
LEMMA AccountNoEmit ==
  ASSUME TypeOK, NEW p \in Procs, Account(p)
  PROVE  /\ UNCHANGED <<poll, messages>>
         /\ pc'[Starter] = "emit" => pc[Starter] = "emit"
<1>1. PICK from \in Places, to \in Places \ {"emit"} :
        /\ pc[p] = from /\ pc' = [pc EXCEPT ![p] = to]
        /\ UNCHANGED <<poll, messages>>
  <2> USE Bounds DEF Places
  <2>1. CASE Load(p) \/ Restore(p) \/ Unconfigured(p) \/ Unreached(p)
    BY <2>1 DEF Load, Restore, Unconfigured, Unreached
  <2>2. CASE BeginLogin(p) \/ BeginVerify(p) \/ EndLogin(p) \/ EndVerify(p)
    BY <2>2 DEF BeginLogin, BeginVerify, EndLogin, EndVerify
  <2>3. CASE Apply(p) \/ Dump(p) \/ Save(p)
    BY <2>3 DEF Apply, Dump, Save
  <2>4. CASE Logout(p) \/ Clear(p) \/ Down(p)
    BY <2>4 DEF Logout, Clear, Down
  <2> QED
    BY <2>1, <2>2, <2>3, <2>4 DEF Account
<1> QED
  BY <1>1, Bounds DEF TypeOK

\* The poll keeps the invariant: it emits only a message it has just stored, and
\* a message without a row was never pushed.
LEMMA SurfacedPoll ==
  ASSUME TypeOK, TypeOK', SurfacedInv, Poll
  PROVE  SurfacedInv'
<1> USE Bounds
<1>1. CASE Tick \/ FetchAnswered \/ FetchFailed \/ Lapse \/ Scanned
  <2>1. /\ UNCHANGED <<pushed, row, arrived, mine>>
        /\ pc'[Starter] # "emit"
    BY <1>1 DEF Tick, FetchAnswered, FetchFailed, Lapse, Scanned, TypeOK
  <2> QED
    BY <2>1, SurfacedKept DEF Surfaceable
<1>2. ASSUME NEW m \in Msgs, NotStored(m) PROVE SurfacedInv'
  <2>1. /\ UNCHANGED <<pushed, row, arrived, mine>>
        /\ pc'[Starter] # "emit"
    BY <1>2 DEF NotStored, TypeOK
  <2> QED
    BY <2>1, SurfacedKept DEF Surfaceable
<1>3. ASSUME NEW m \in Msgs, Store(m) PROVE SurfacedInv'
  <2>1. /\ UNCHANGED <<pushed, arrived, mine>>
        /\ m \in 1..arrived /\ row[m] = "none" /\ row'[m] # "none"
        /\ \A n \in Msgs : n # m => row'[n] = row[n]
        /\ 1..arrived \subseteq Msgs
    BY <1>3 DEF Store, TypeOK, Msgs
  <2>2. \A n \in 1..arrived : Surfaceable(n) => Surfaceable(n)'
    BY <2>1 DEF Surfaceable
  <2>3. CASE m \in mine /\ Skip(m)
    <3>1. pc'[Starter] # "emit"
      BY <2>3 DEF TypeOK
    <3> QED
      BY <2>1, <2>2, <3>1, SurfacedKept
  <2>4. CASE m \notin mine /\ EmitNext(m)
    <3>1. cur' = m /\ Surfaceable(m)'
      BY <2>1, <2>4 DEF Surfaceable
    <3>2. \A i \in DOMAIN pushed : pushed[i] # m
      BY <2>1 DEF SurfacedInv, Surfaceable
    <3>3. \A n : Surfaceable(n) => Surfaceable(n)'
      BY <2>2 DEF Surfaceable
    <3> QED
      BY <2>1, <3>1, <3>2, <3>3 DEF SurfacedInv
  <2> QED
    BY <1>3, <2>3, <2>4 DEF Store
<1>4. CASE Emit
  <2>1. /\ UNCHANGED <<row, arrived, mine>>
        /\ pc[Starter] = "emit" /\ pc'[Starter] # "emit"
    BY <1>4 DEF Emit, TypeOK
  <2>2. CASE pushed' = Append(pushed, cur)
    <3>1. pushed \in Seq(Nat) /\ cur \in Nat
      BY DEF TypeOK
    <3>2. /\ DOMAIN pushed' = 1..(Len(pushed) + 1)
          /\ DOMAIN pushed = 1..Len(pushed) /\ Len(pushed) \in Nat
          /\ \A i \in 1..Len(pushed) : pushed'[i] = pushed[i]
          /\ pushed'[Len(pushed) + 1] = cur
      BY <2>2, <3>1, AppendProperties, LenProperties
    <3>3. \A i \in DOMAIN pushed' : i \in DOMAIN pushed \/ i = Len(pushed) + 1
      BY <3>2
    <3>4. \A n : Surfaceable(n) <=> Surfaceable(n)'
      BY <2>1 DEF Surfaceable
    <3>5. Surfaceable(cur) /\ \A i \in DOMAIN pushed : pushed[i] # cur
      BY <2>1 DEF SurfacedInv
    <3>6. \A i \in DOMAIN pushed' : Surfaceable(pushed'[i])
      BY <3>2, <3>3, <3>5 DEF SurfacedInv
    <3>7. \A i, j \in DOMAIN pushed' : pushed'[i] = pushed'[j] => i = j
      BY <3>2, <3>3, <3>5 DEF SurfacedInv
    <3> QED
      BY <2>1, <3>4, <3>6, <3>7 DEF SurfacedInv
  <2>3. CASE UNCHANGED pushed
    BY <2>1, <2>3, SurfacedKept DEF Surfaceable
  <2> QED
    BY <1>4, <2>2, <2>3 DEF Emit
<1> QED
  BY <1>1, <1>2, <1>3, <1>4 DEF Poll

\* The world keeps it: a message sent is a new one, and no row is taken away.
LEMMA SurfacedWorld ==
  ASSUME TypeOK, TypeOK', SurfacedInv, World
  PROVE  SurfacedInv'
<1> USE Bounds
<1>1. CASE Send \/ Arrive
  <2>1. /\ UNCHANGED <<pushed, row, pc, cur>>
        /\ arrived \in Nat /\ arrived' = arrived + 1
        /\ mine' \subseteq mine \union {arrived + 1}
    BY <1>1 DEF Send, Arrive, TypeOK
  <2>2. \A m \in 1..arrived : m \in 1..arrived' /\ m # arrived + 1
    BY <2>1
  <2>3. \A m \in 1..arrived : Surfaceable(m) => Surfaceable(m)'
    BY <2>1, <2>2 DEF Surfaceable
  <2> QED
    BY <2>1, <2>3, SurfacedKept
<1>2. ASSUME NEW m \in Msgs, StoreSent(m) \/ MarkRead(m) PROVE SurfacedInv'
  <2>1. /\ UNCHANGED <<pushed, arrived, mine, pc, cur>>
        /\ \A n \in Msgs : row[n] # "none" => row'[n] # "none"
        /\ 1..arrived \subseteq Msgs
    BY <1>2 DEF StoreSent, MarkRead, TypeOK, Msgs
  <2>2. \A n \in 1..arrived : Surfaceable(n) => Surfaceable(n)'
    BY <2>1 DEF Surfaceable
  <2> QED
    BY <2>1, <2>2, SurfacedKept
<1>3. CASE HubTakes \/ SidecarRestarts \/ \E s \in Sessions : Expire(s)
  <2>1. UNCHANGED <<pushed, row, arrived, mine, pc, cur>>
    BY <1>3 DEF HubTakes, SidecarRestarts, Expire
  <2> QED
    BY <2>1, SurfacedKept DEF Surfaceable
<1>4. CASE DaemonRestarts
  <2>1. UNCHANGED <<pushed, row, arrived, mine>> /\ pc'[Starter] # "emit"
    BY <1>4 DEF DaemonRestarts
  <2> QED
    BY <2>1, SurfacedKept DEF Surfaceable
<1> QED
  BY <1>1, <1>2, <1>3, <1>4 DEF World

LEMMA SurfacedNext ==
  TypeOK /\ TypeOK' /\ SurfacedInv /\ [Next]_vars => SurfacedInv'
<1> SUFFICES ASSUME TypeOK, TypeOK', SurfacedInv, [Next]_vars
             PROVE  SurfacedInv'
  OBVIOUS
<1>1. ASSUME Start \/ \E a \in Actions : Action(a) PROVE SurfacedInv'
  <2>1. UNCHANGED <<pushed, row, arrived, mine, cur>>
    BY <1>1 DEF Start, Action
  <2>2. pc'[Starter] = "emit" => pc[Starter] = "emit"
    BY <1>1, Bounds DEF Start, Action, TypeOK, Procs
  <2> QED
    BY <2>1, <2>2, SurfacedKept DEF Surfaceable
<1>2. ASSUME NEW p \in Procs, Account(p) PROVE SurfacedInv'
  <2>1. /\ UNCHANGED <<pushed, row, arrived, mine, cur>>
        /\ pc'[Starter] = "emit" => pc[Starter] = "emit"
    BY <1>2, AccountNoEmit
  <2> QED
    BY <2>1, SurfacedKept DEF Surfaceable
<1>3. CASE UNCHANGED vars
  <2>1. UNCHANGED <<pushed, row, arrived, mine, pc, cur>>
    BY <1>3 DEF vars
  <2> QED
    BY <2>1, SurfacedKept DEF Surfaceable
<1> QED
  BY <1>1, <1>2, <1>3, SurfacedPoll, SurfacedWorld DEF Next

\* Over any number of polls and restarts, a message is pushed to the hub at most
\* once, after it was stored, and the account's own messages never.
THEOREM MessagesSurfaceOnce == Spec => []SurfacedOnce
<1>1. Spec => []SurfacedInv
  BY InitSurfaced, SurfacedNext, TypeCorrect, PTL DEF Spec
<1> QED
  BY <1>1, TypeCorrect, SurfacedSuffices, PTL

-----------------------------------------------------------------------------
(* The flags of the store.                                                 *)

\* A step never takes the read flag away.
LEMMA ReadKept ==
  TypeOK /\ [Next]_vars => \A m \in Msgs : row[m] = "read" => row'[m] = "read"
<1> SUFFICES ASSUME TypeOK, [Next]_vars, NEW m \in Msgs, row[m] = "read"
             PROVE  row'[m] = "read"
  OBVIOUS
<1>1. CASE Start \/ \E a \in Actions : Action(a)
  BY <1>1 DEF Start, Action
<1>2. ASSUME NEW p \in Procs, Account(p) PROVE UNCHANGED row
  BY <1>2, AccountNoEmit
<1>3. CASE Poll
  <2>1. CASE \E n \in Msgs : Store(n)
    BY <2>1 DEF Store, TypeOK
  <2>2. CASE Tick \/ FetchAnswered \/ FetchFailed \/ Lapse \/ Scanned \/ Emit
             \/ \E n \in Msgs : NotStored(n)
    BY <2>2 DEF Tick, FetchAnswered, FetchFailed, Lapse, Scanned, Emit, NotStored
  <2> QED
    BY <1>3, <2>1, <2>2 DEF Poll
<1>4. CASE World
  <2>1. CASE \E n \in Msgs : StoreSent(n) \/ MarkRead(n)
    BY <2>1 DEF StoreSent, MarkRead, TypeOK
  <2>2. CASE Send \/ HubTakes \/ Arrive \/ SidecarRestarts \/ DaemonRestarts
             \/ \E s \in Sessions : Expire(s)
    BY <2>2 DEF Send, HubTakes, Arrive, SidecarRestarts, DaemonRestarts, Expire
  <2> QED
    BY <1>4, <2>1, <2>2 DEF World
<1>5. CASE UNCHANGED vars
  BY <1>5 DEF vars
<1> QED
  BY <1>1, <1>2, <1>3, <1>4, <1>5 DEF Next

\* A message that was read never comes up as unread again, whatever polls, sends
\* and restarts do to the store.
THEOREM ReadForGood == Spec => ReadStaysRead
<1>1. TypeOK /\ [Next]_vars
        => [\A m \in Msgs : row[m] = "read" => row'[m] = "read"]_vars
  BY ReadKept
<1> QED
  BY <1>1, TypeCorrect, PTL DEF Spec, ReadStaysRead

=============================================================================
