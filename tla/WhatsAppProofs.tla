--------------------------- MODULE WhatsAppProofs ---------------------------
(***************************************************************************)
(* Proofs about the WhatsApp transport: its messages (WhatsAppMessages),   *)
(* its link (WhatsAppLink) and both together (WhatsApp), for any messages, *)
(* authors, attachments and names of documents, any capacity of the        *)
(* inbound channel, and any callers, QR channels and events.               *)
(***************************************************************************)
EXTENDS WhatsApp, TLAPS

\* The groups of variables of the messages.
USE DEF handler, files

-----------------------------------------------------------------------------
(* Types of the messages.                                                  *)

\* A message's file has one of the names.
LEMMA FileNameIsName ==
  ASSUME NEW m \in Msgs
  PROVE  FileName(m) \in Names
  BY DEF FileName, Names

\* Between two deliveries there is none.
LEMMA NoDeliveryIsNone == NoDelivery \notin Delivery
  BY DEF NoDelivery, Delivery, Keys

\* An insert keeps the types of the store.
LEMMA TypeInsert ==
  ASSUME TypeOK, NEW k \in Keys, NEW m \in Msgs, NEW state \in {"unread", "read"},
         NEW named \in BOOLEAN, Insert(k, m, state, named)
  PROVE  /\ row' \in [Keys -> [Msgs -> {"none", "unread", "read"}]]
         /\ hasFile' \subseteq Keys \X Msgs
<1>1. row[k] \in [Msgs -> {"none", "unread", "read"}]
  BY DEF TypeOK
<1>2. [row[k] EXCEPT ![m] = state] \in [Msgs -> {"none", "unread", "read"}]
  BY <1>1
<1> QED
  BY <1>2 DEF TypeOK, Insert

\* The steps of the handler keep the types.
LEMMA TypeHandle ==
  ASSUME TypeOK, Handle
  PROVE  TypeOK'
<1>1. CASE \E m \in Msgs, server \in Keys, alternative \in {"phone", "none"} :
             Deliver(m, ChatKey(server, alternative))
  <2>1. PICK m \in Msgs, k \in Keys : Deliver(m, k)
    BY <1>1 DEF ChatKey, Keys
  <2>2. cur' \in Delivery
    BY <2>1 DEF Deliver, Delivery
  <2>3. step' \in {"download", "store"}
    BY <2>1 DEF Deliver
  <2> QED
    BY <2>1, <2>2, <2>3 DEF Deliver, TypeOK
<1>2. CASE Download
  <2>1. cur \in Delivery /\ cur' = cur /\ step' \in {"write", "store"}
    BY <1>2 DEF Download, TypeOK
  <2>2. disk' \in [Names -> Msgs \union {NoOne, Partial}]
    BY <1>2, <2>1, FileNameIsName DEF Download, TypeOK, Delivery
  <2> QED
    BY <1>2, <2>1, <2>2 DEF Download, TypeOK
<1>3. CASE WriteFile
  <2>1. cur \in Delivery /\ cur' = cur /\ step' = "store"
    BY <1>3 DEF WriteFile, WriteStep, TypeOK
  <2>2. disk' \in [Names -> Msgs \union {NoOne, Partial}]
    BY <1>3, <2>1, FileNameIsName DEF WriteFile, TypeOK, Delivery
  <2>3. fetched' \in BOOLEAN
    BY <1>3 DEF WriteFile, TypeOK
  <2> QED
    BY <1>3, <2>1, <2>2, <2>3 DEF WriteFile, WriteStep, TypeOK
<1>4. CASE Store
  <2>1. cur \in Delivery /\ cur' = cur /\ step' = "emit"
    BY <1>4 DEF Store, StoreStep, TypeOK
  <2>2. /\ row' \in [Keys -> [Msgs -> {"none", "unread", "read"}]]
        /\ hasFile' \subseteq Keys \X Msgs
    <3>1. CASE NotInserted
      BY <3>1 DEF NotInserted, TypeOK
    <3>2. CASE Insert(cur.key, cur.msg, Unread(cur.msg), fetched)
      <4>1. cur.key \in Keys /\ cur.msg \in Msgs
        BY <2>1 DEF Delivery
      <4>2. Unread(cur.msg) \in {"unread", "read"}
        BY DEF Unread
      <4>3. fetched \in BOOLEAN
        BY DEF TypeOK
      <4> QED
        BY <3>2, <4>1, <4>2, <4>3, TypeInsert
    <3> QED
      BY <1>4, <3>1, <3>2 DEF Store
  <2> QED
    BY <1>4, <2>1, <2>2 DEF Store, StoreStep, TypeOK
<1>5. CASE Emit
  <2>1. inbound' \in 0..InboundCap
    BY <1>5, MessagesAssumption DEF Emit, TypeOK
  <2>2. cur' \notin Delivery /\ cur' = NoDelivery /\ step' = "idle"
    BY <1>5, NoDeliveryIsNone DEF Emit, EmitStep
  <2>3. fetched' = FALSE /\ UNCHANGED <<row, files, sending>>
    BY <1>5 DEF Emit, EmitStep
  <2> QED
    BY <2>1, <2>2, <2>3 DEF TypeOK
<1> QED
  BY <1>1, <1>2, <1>3, <1>4, <1>5 DEF Handle

\* The operations of the hub keep the types.
LEMMA TypeOperation ==
  ASSUME TypeOK, Operation
  PROVE  TypeOK'
<1>1. CASE \E m \in Msgs, k \in Keys : Send(m, k)
  <2>1. PICK m \in Msgs, k \in Keys : Send(m, k)
    BY <1>1
  <2>2. sending' \subseteq Delivery
    BY <2>1 DEF Send, Delivery, TypeOK
  <2> QED
    BY <2>1, <2>2 DEF Send, TypeOK
<1>2. CASE \E s \in sending : StoreSent(s)
  <2>1. PICK s \in sending : StoreSent(s)
    BY <1>2
  <2>2. s.key \in Keys /\ s.msg \in Msgs
    BY <2>1 DEF TypeOK, Delivery
  <2>3. /\ row' \in [Keys -> [Msgs -> {"none", "unread", "read"}]]
        /\ hasFile' \subseteq Keys \X Msgs
    <3>1. CASE NotInserted
      BY <3>1 DEF NotInserted, TypeOK
    <3>2. CASE Insert(s.key, s.msg, "read", FALSE)
      BY <3>2, <2>2, TypeInsert
    <3> QED
      BY <2>1, <3>1, <3>2 DEF StoreSent
  <2>4. sending' \subseteq Delivery
    BY <2>1 DEF StoreSent, TypeOK
  <2> QED
    BY <2>1, <2>3, <2>4 DEF StoreSent, TypeOK
<1>3. CASE \E k \in Keys, ms \in SUBSET Msgs : MarkRead(k, ms)
  <2>1. PICK k \in Keys, ms \in SUBSET Msgs : MarkRead(k, ms)
    BY <1>3
  <2>2. row' \in [Keys -> [Msgs -> {"none", "unread", "read"}]]
    BY <2>1 DEF MarkRead, TypeOK
  <2> QED
    BY <2>1, <2>2 DEF MarkRead, TypeOK
<1> QED
  BY <1>1, <1>2, <1>3 DEF Operation

\* Every step keeps the types.
LEMMA TypeNext ==
  ASSUME TypeOK, [Next]_vars
  PROVE  TypeOK'
<1>1. CASE Handle
  BY <1>1, TypeHandle
<1>2. CASE \E m \in Msgs : Receipt(m)
  <2>1. PICK m \in Msgs : Receipt(m)
    BY <1>2
  <2>2. ASSUME NEW k \in Keys
        PROVE  [row[k] EXCEPT ![m] = IF @ = "unread" THEN "read" ELSE @]
                 \in [Msgs -> {"none", "unread", "read"}]
    BY <2>2 DEF TypeOK
  <2>3. row' \in [Keys -> [Msgs -> {"none", "unread", "read"}]]
    BY <2>1, <2>2 DEF Receipt
  <2> QED
    BY <2>1, <2>3 DEF Receipt, TypeOK
<1>3. CASE Operation
  BY <1>3, TypeOperation
<1>4. CASE HubTakes
  <2>1. inbound' \in 0..InboundCap
    BY <1>4, MessagesAssumption DEF HubTakes, TypeOK
  <2> QED
    BY <1>4, <2>1 DEF HubTakes, TypeOK
<1>5. CASE Restart
  <2>1. cur' \notin Delivery /\ cur' = NoDelivery /\ step' = "idle"
    BY <1>5, NoDeliveryIsNone DEF Restart
  <2>2. inbound' \in 0..InboundCap
    BY <1>5, MessagesAssumption DEF Restart
  <2> QED
    BY <1>5, <2>1, <2>2 DEF Restart, TypeOK
<1>6. CASE UNCHANGED vars
  BY <1>6 DEF TypeOK, vars
<1> QED
  BY <1>1, <1>2, <1>3, <1>4, <1>5, <1>6 DEF Next

\* No delivery is handled, nothing stored, and the channel is empty.
LEMMA TypeInit ==
  ASSUME Init
  PROVE  TypeOK
<1>1. cur \notin Delivery /\ cur = NoDelivery /\ step = "idle"
  BY NoDeliveryIsNone DEF Init
<1>2. inbound \in 0..InboundCap
  BY MessagesAssumption DEF Init
<1> QED
  BY <1>1, <1>2 DEF Init, TypeOK

\* transport.go:42-64, store.go:16-42: every variable keeps its type, and the
\* hub's channel its capacity.
THEOREM TypeCorrect == Spec => []TypeOK
  BY TypeInit, TypeNext, PTL DEF Spec

-----------------------------------------------------------------------------
(* What was read stays read.                                               *)

\* An insert finds no row, so it changes none that was read.
LEMMA InsertKeepsRead ==
  ASSUME TypeOK, NEW k \in Keys, NEW m \in Msgs, NEW state, NEW named,
         Insert(k, m, state, named),
         NEW l \in Keys, NEW n \in Msgs, row[l][n] = "read"
  PROVE  row'[l][n] = "read"
<1>1. row[k] \in [Msgs -> {"none", "unread", "read"}]
  BY DEF TypeOK
<1>2. row' = [row EXCEPT ![k][m] = state] /\ row[k][m] = "none"
  BY DEF Insert
<1>3. CASE l = k /\ n = m
  BY <1>2, <1>3
<1>4. CASE l # k
  BY <1>2, <1>4 DEF TypeOK
<1>5. CASE l = k /\ n # m
  BY <1>1, <1>2, <1>5 DEF TypeOK
<1> QED
  BY <1>3, <1>4, <1>5

\* No step makes a read row anything else.
LEMMA ReadKept ==
  ASSUME TypeOK, [Next]_vars, NEW l \in Keys, NEW n \in Msgs, row[l][n] = "read"
  PROVE  row'[l][n] = "read"
<1>1. CASE Handle
  <2>1. CASE UNCHANGED row
    BY <2>1
  <2>2. CASE Store
    <3>1. CASE NotInserted
      BY <3>1 DEF NotInserted
    <3>2. CASE Insert(cur.key, cur.msg, Unread(cur.msg), fetched)
      <4>1. cur \in Delivery
        BY <2>2 DEF Store, StoreStep, TypeOK
      <4>2. cur.key \in Keys /\ cur.msg \in Msgs
        BY <4>1 DEF Delivery
      <4> QED
        BY <3>2, <4>2, InsertKeepsRead
    <3> QED
      BY <2>2, <3>1, <3>2 DEF Store
  <2> QED
    BY <1>1, <2>1, <2>2
    DEF Handle, Deliver, Download, WriteFile, WriteStep, Emit, EmitStep
<1>2. CASE \E m \in Msgs : Receipt(m)
  BY <1>2 DEF Receipt, TypeOK
<1>3. CASE Operation
  <2>1. CASE \E m \in Msgs, k \in Keys : Send(m, k)
    BY <2>1 DEF Send
  <2>2. CASE \E s \in sending : StoreSent(s)
    <3>1. PICK s \in sending : StoreSent(s)
      BY <2>2
    <3>2. s.key \in Keys /\ s.msg \in Msgs
      BY <3>1 DEF TypeOK, Delivery
    <3> QED
      BY <3>1, <3>2, InsertKeepsRead DEF StoreSent, NotInserted
  <2>3. CASE \E k \in Keys, ms \in SUBSET Msgs : MarkRead(k, ms)
    BY <2>3 DEF MarkRead, TypeOK
  <2> QED
    BY <1>3, <2>1, <2>2, <2>3 DEF Operation
<1>4. CASE HubTakes
  BY <1>4 DEF HubTakes
<1>5. CASE Restart
  BY <1>5 DEF Restart
<1>6. CASE UNCHANGED vars
  BY <1>6 DEF vars
<1> QED
  BY <1>1, <1>2, <1>3, <1>4, <1>5, <1>6 DEF Next

\* store.go:38-40, "it never re-surfaces as unread after being read": a row that
\* was read stays read, whatever is delivered again, fails or restarts.
THEOREM ReadRowsStayRead == Spec => ReadStaysRead
<1>1. TypeOK /\ [Next]_vars =>
        [\A k \in Keys, m \in Msgs : row[k][m] = "read" => row'[k][m] = "read"]_vars
  BY ReadKept
<1> QED
  BY <1>1, TypeCorrect, PTL DEF Spec, ReadStaysRead

-----------------------------------------------------------------------------
(* Files are of their own messages.                                        *)

\* A row's file holds what was written under its name, or some of it.
RowNamed(m) ==
  \/ disk[FileName(m)] = Partial
  \/ \E n \in Msgs : disk[FileName(m)] = n /\ FileName(n) = FileName(m)

\* Files are opened and written before something counts as fetched, and what was
\* fetched stays until the delivery it belongs to is handled.
Own ==
  /\ fetched => step \in {"store", "emit"} /\ disk[FileName(cur.msg)] = cur.msg
  /\ \A k \in Keys, m \in Msgs : <<k, m>> \in hasFile => RowNamed(m)

\* A write of the message that is handled, be it whole or not, leaves every row a
\* file of its name.
LEMMA WriteKeepsNames ==
  ASSUME TypeOK, NEW m \in Msgs, RowNamed(m), cur.msg \in Msgs,
         NEW data \in {cur.msg, Partial},
         disk' = [disk EXCEPT ![FileName(cur.msg)] = data]
  PROVE  RowNamed(m)'
<1>1. /\ FileName(m) \in DOMAIN disk
      /\ FileName(m)' = FileName(m)
      /\ \A n \in Msgs : FileName(n)' = FileName(n)
  BY FileNameIsName DEF TypeOK, FileName
<1>2. CASE FileName(m) = FileName(cur.msg)
  <2>1. disk'[FileName(m)] = data
    BY <1>1, <1>2
  <2> QED
    BY <1>1, <1>2, <2>1 DEF RowNamed
<1>3. CASE FileName(m) # FileName(cur.msg)
  <2>1. disk'[FileName(m)] = disk[FileName(m)]
    BY <1>1, <1>3
  <2> QED
    BY <1>1, <2>1 DEF RowNamed
<1> QED
  BY <1>2, <1>3

\* A download that begins finds nothing fetched, and leaves a partial file.
LEMMA DownloadOwn ==
  ASSUME TypeOK, Own, Download
  PROVE  Own'
<1>1. cur.msg \in Msgs /\ ~fetched /\ ~fetched' /\ hasFile' = hasFile
  BY DEF Download, TypeOK, Delivery, Own
<1>2. CASE disk' = [disk EXCEPT ![FileName(cur.msg)] = Partial]
  BY <1>1, <1>2, WriteKeepsNames DEF Own
<1>3. CASE UNCHANGED disk
  BY <1>1, <1>3 DEF Own, RowNamed, FileName
<1> QED
  BY <1>2, <1>3 DEF Download

\* What counts as fetched has been written whole.
LEMMA WriteFileOwn ==
  ASSUME TypeOK, Own, WriteFile
  PROVE  Own'
<1>1. /\ cur \in Delivery /\ cur.msg \in Msgs /\ ~fetched
      /\ cur' = cur /\ step' = "store" /\ hasFile' = hasFile
  BY DEF WriteFile, WriteStep, TypeOK, Delivery, Own
<1>2. CASE fetched' = TRUE /\ disk' = [disk EXCEPT ![FileName(cur.msg)] = cur.msg]
  <2>1. FileName(cur.msg) \in DOMAIN disk /\ FileName(cur.msg)' = FileName(cur.msg)
    BY <1>1, FileNameIsName DEF TypeOK, FileName
  <2>2. disk'[FileName(cur.msg)] = cur.msg
    BY <1>2, <2>1
  <2> QED
    BY <1>1, <1>2, <2>1, <2>2, WriteKeepsNames DEF Own
<1>3. CASE UNCHANGED <<fetched, disk>>
  BY <1>1, <1>3 DEF Own, RowNamed, FileName
<1> QED
  BY <1>2, <1>3 DEF WriteFile

\* Storing gives a row the file that was fetched for it.
LEMMA StoreOwn ==
  ASSUME TypeOK, Own, Store
  PROVE  Own'
<1>1. cur.msg \in Msgs /\ cur.key \in Keys
  BY DEF Store, StoreStep, TypeOK, Delivery
<1>2. cur' = cur /\ step' = "emit" /\ fetched' = fetched /\ disk' = disk
  BY DEF Store, StoreStep
<1>3. fetched' => step' \in {"store", "emit"} /\ disk'[FileName(cur.msg)] = cur'.msg
  BY <1>2 DEF Own
<1>4. ASSUME NEW k \in Keys, NEW m \in Msgs, <<k, m>> \in hasFile'
      PROVE  RowNamed(m)
  <2>1. CASE <<k, m>> \in hasFile
    BY <2>1 DEF Own
  <2>2. CASE <<k, m>> \notin hasFile
    <3>1. Insert(cur.key, cur.msg, Unread(cur.msg), fetched) /\ fetched
      BY <1>4, <2>2 DEF Store, Insert, NotInserted, TypeOK
    <3>2. m = cur.msg
      BY <1>1, <1>4, <2>2, <3>1 DEF Insert
    <3> QED
      BY <3>1, <3>2 DEF Own, RowNamed
  <2> QED
    BY <2>1, <2>2
<1> QED
  BY <1>2, <1>3, <1>4 DEF Own, RowNamed, FileName

\* Every step keeps the files of the rows.
LEMMA OwnNext ==
  ASSUME TypeOK, Own, [Next]_vars
  PROVE  Own'
<1> USE DEF Own, RowNamed, FileName
<1>1. CASE Handle
  <2>1. CASE \E m \in Msgs, server \in Keys, alternative \in {"phone", "none"} :
               Deliver(m, ChatKey(server, alternative))
    BY <2>1 DEF Deliver
  <2>2. CASE Emit
    BY <2>2 DEF Emit, EmitStep
  <2> QED
    BY <1>1, <2>1, <2>2, DownloadOwn, WriteFileOwn, StoreOwn DEF Handle
<1>2. CASE \E m \in Msgs : Receipt(m)
  BY <1>2 DEF Receipt
<1>3. CASE Operation
  <2>1. CASE \E m \in Msgs, k \in Keys : Send(m, k)
    BY <2>1 DEF Send
  <2>2. CASE \E s \in sending : StoreSent(s)
    BY <2>2 DEF StoreSent, Insert, NotInserted
  <2>3. CASE \E k \in Keys, ms \in SUBSET Msgs : MarkRead(k, ms)
    BY <2>3 DEF MarkRead
  <2> QED
    BY <1>3, <2>1, <2>2, <2>3 DEF Operation
<1>4. CASE HubTakes
  BY <1>4 DEF HubTakes
<1>5. CASE Restart
  BY <1>5 DEF Restart
<1>6. CASE UNCHANGED vars
  BY <1>6 DEF vars
<1> QED
  BY <1>1, <1>2, <1>3, <1>4, <1>5, <1>6 DEF Next

\* Two messages have one file name only when they share a name.
LEMMA SameName ==
  ASSUME NEW m \in Msgs, NEW n \in Msgs, m # n, FileName(m) = FileName(n)
  PROVE  Named(n) \cap Named(m) # {}
<1>1. FileName(m) \in {m, DocName[m]} /\ FileName(n) \in {n, DocName[n]}
  BY DEF FileName
<1>2. FileName(m) # NoName
  BY DEF FileName
<1> QED
  BY <1>1, <1>2 DEF Named

\* transport.go:416-470: what is handed on as the file of a message is its own and
\* whole, for any names that authors give their documents and wherever a download
\* breaks off; a row's file holds the attachment of its message or of one with
\* the same name, or what a broken redelivery has left of it.
THEOREM FilesAreOwn == Spec => []FilesOwn
<1>1. Init => Own
  BY DEF Init, Own
<1>2. Own => FilesOwn
  BY SameName DEF Own, RowNamed, FilesOwn
<1> QED
  BY <1>1, <1>2, OwnNext, TypeCorrect, PTL DEF Spec

-----------------------------------------------------------------------------
(* Types of the link.                                                      *)

\* The steps of a goroutine: where it goes, and what it may leave in mine and
\* reading.
LEMMA LinkStep ==
  ASSUME Link!TypeOK, NEW p \in Link!Threads, NEW to \in Link!Places,
         pc' = [pc EXCEPT ![p] = to],
         \/ UNCHANGED mine
         \/ \E f \in Link!Flows \union {0} : mine' = [mine EXCEPT ![p] = f],
         to \in {"join", "consume"} => mine'[p] # 0 /\ flow'[mine'[p]] # "none",
         \/ UNCHANGED reading
         \/ pc[p] = "consume" /\ reading' = reading \union {mine[p]},
         flow' \in [Link!Flows -> Link!FlowStates],
         \A f \in Link!Flows : flow[f] # "none" => flow'[f] # "none",
         status' \in Link!Statuses, qr' \in Link!Flows \union {0},
         client' \in BOOLEAN, db' \in {"unset", "open", "closed"},
         dropping' \in BOOLEAN, paired' \in BOOLEAN, linked' \in BOOLEAN,
         wanted' \in BOOLEAN, events' \subseteq Link!Kinds
  PROVE  Link!TypeOK'
<1>1. pc' \in [Link!Threads -> Link!Places]
  BY DEF Link!TypeOK
<1>2. mine' \in [Link!Threads -> Link!Flows \union {0}]
  BY DEF Link!TypeOK
<1>3. reading' \subseteq {f \in Link!Flows : flow'[f] # "none"}
  BY DEF Link!TypeOK
<1>4. ASSUME NEW q \in Link!Threads, pc'[q] \in {"join", "consume"}
      PROVE  mine'[q] # 0 /\ flow'[mine'[q]] # "none"
  BY <1>4 DEF Link!TypeOK
<1> QED
  BY <1>1, <1>2, <1>3, <1>4 DEF Link!TypeOK

\* The steps that Start, a reconnect and a logout are made of.
LEMMA LinkMoves ==
  ASSUME Link!TypeOK, NEW p \in Link!Threads,
         NEW from \in Link!Places, NEW to \in Link!Places \ {"join", "consume"},
         NEW s \in Link!Statuses
  PROVE  /\ Link!Writes(p, from, to, s) => Link!TypeOK'
         /\ Link!Fails(p, from) => Link!TypeOK'
         /\ Link!Disconnects(p, from, to) => Link!TypeOK'
<1> USE DEF Link!Move, Link!setup, Link!library, Link!shown, Link!SetStatus
<1>1. CASE Link!Writes(p, from, to, s)
  BY <1>1, LinkStep DEF Link!Writes, Link!TypeOK
<1>2. CASE Link!Fails(p, from)
  <2> DEFINE next == IF p = Starter THEN "returned" ELSE "idle"
  <2>1. next \in Link!Places \ {"join", "consume"} /\ "error" \in Link!Statuses
    BY DEF Link!Places, Link!Statuses
  <2>2. db' \in {"unset", "open", "closed"}
    BY <1>2 DEF Link!Fails, Link!TypeOK
  <2>3. pc' = [pc EXCEPT ![p] = next] /\ mine' = [mine EXCEPT ![p] = 0]
    BY <1>2 DEF Link!Fails
  <2> HIDE DEF next
  <2> QED
    BY <1>2, <2>1, <2>2, <2>3, LinkStep DEF Link!Fails, Link!TypeOK
<1>3. CASE Link!Disconnects(p, from, to)
  BY <1>3, LinkStep DEF Link!Disconnects, Link!TypeOK
<1> QED
  BY <1>1, <1>2, <1>3

\* Every step of a goroutine.
LEMMA GoroutineTypes ==
  ASSUME Link!TypeOK, NEW p \in Link!Threads,
         Link!StartPairs \/ Link!Connecting(p) \/ Link!Action(p)
  PROVE  Link!TypeOK'
<1> USE DEF Link!Move, Link!setup, Link!library, Link!shown, Link!work
<1>p. /\ Starter \in Link!Threads
      /\ {"new", "choose", "repair", "renew", "connecting", "arm", "join", "consume",
          "reconnect", "logout", "leave", "down", "idle", "serving",
          "returned"} = Link!Places
      /\ Link!Ready(p) \in {"serving", "idle"}
      /\ {"connecting", "disconnected", "error"} \subseteq Link!Statuses
  BY DEF Link!Threads, Link!Places, Link!Ready, Link!Statuses
<1> HIDE DEF Link!Places
<1>1. ASSUME NEW q \in Link!Threads, NEW from \in Link!Places,
             NEW a \in Link!Places \ {"join", "consume"},
             NEW b \in Link!Places \ {"join", "consume"},
             Link!Looks(q, from, a, b)
      PROVE  Link!TypeOK'
  <2> DEFINE to == IF paired THEN a ELSE b
  <2>1. to \in Link!Places \ {"join", "consume"}
    OBVIOUS
  <2>2. pc' = [pc EXCEPT ![q] = to]
    BY <1>1 DEF Link!Looks
  <2> HIDE DEF to
  <2> QED
    BY <1>1, <2>1, <2>2, LinkStep DEF Link!Looks, Link!TypeOK
<1>2. CASE Link!StartPairs
  BY <1>1, <1>2, <1>p DEF Link!StartPairs
<1>3. CASE Link!Reconnect(p)
  <2>1. CASE Link!Fails(p, "reconnect")
    BY <2>1, <1>p, LinkMoves
  <2>2. CASE ~Link!Fails(p, "reconnect")
    <3>1. pc' = [pc EXCEPT ![p] = Link!Ready(p)]
      BY <1>3, <2>2 DEF Link!Reconnect, Link!Connects
    <3> QED
      BY <1>3, <1>p, <2>2, <3>1, LinkStep DEF Link!Reconnect, Link!Connects, Link!TypeOK
  <2> QED
    BY <2>1, <2>2
<1>4. CASE Link!Arm(p)
  <2>1. CASE Link!Fails(p, "arm")
    BY <2>1, <1>p, LinkMoves
  <2>2. CASE ~Link!Fails(p, "arm")
    <3>1. PICK f \in Link!Flows : /\ flow' = [flow EXCEPT ![f] = "running"]
                                  /\ mine' = [mine EXCEPT ![p] = f]
      BY <1>4, <2>2 DEF Link!Arm
    <3>2. f # 0
      BY WhatsAppAssumption DEF Link!Flows
    <3>3. mine'[p] = f /\ flow'[f] = "running"
      BY <3>1 DEF Link!TypeOK
    <3>4. flow' \in [Link!Flows -> Link!FlowStates]
      BY <3>1 DEF Link!TypeOK, Link!FlowStates
    <3>5. \A g \in Link!Flows : flow[g] # "none" => flow'[g] # "none"
      BY <3>1 DEF Link!TypeOK
    <3>6. /\ pc' = [pc EXCEPT ![p] = "join"]
          /\ UNCHANGED <<status, qr, client, db, reading, dropping, paired, linked,
                         wanted, events>>
      BY <1>4, <2>2 DEF Link!Arm
    <3> QED
      BY <1>p, <3>1, <3>2, <3>3, <3>4, <3>5, <3>6, LinkStep DEF Link!TypeOK
  <2> QED
    BY <2>1, <2>2
<1>5. CASE Link!Join(p)
  <2>1. CASE Link!Fails(p, "join")
    BY <2>1, <1>p, LinkMoves
  <2>2. CASE ~Link!Fails(p, "join")
    <3>1. /\ pc[p] = "join"
          /\ pc' = [pc EXCEPT ![p] = "consume"]
          /\ linked' = TRUE
          /\ wanted' = TRUE
          /\ UNCHANGED <<status, qr, client, db, mine, reading, dropping, paired,
                         flow, events>>
      BY <1>5, <2>2 DEF Link!Join, Link!Connects
    <3>2. mine[p] # 0 /\ flow[mine[p]] # "none"
      BY <3>1 DEF Link!TypeOK
    <3> QED
      BY <1>p, <3>1, <3>2, LinkStep DEF Link!TypeOK
  <2> QED
    BY <2>1, <2>2
<1>6. CASE Link!Consume(p)
  <2>1. pc[p] = "consume" /\ pc' = [pc EXCEPT ![p] = Link!Ready(p)]
    BY <1>6 DEF Link!Consume
  <2> QED
    BY <1>6, <1>p, <2>1, LinkStep DEF Link!Consume, Link!TypeOK
<1>7. CASE Link!Repair(p) \/ Link!Logout(p)
  BY <1>1, <1>7, <1>p DEF Link!Repair, Link!Logout
<1>8. CASE Link!DropLink(p) \/ Link!Leave(p)
  BY <1>8, <1>p, LinkMoves DEF Link!DropLink, Link!Leave
<1>9. CASE Link!ShowConnecting(p) \/ Link!ShowDown(p)
  BY <1>9, <1>p, LinkMoves DEF Link!ShowConnecting, Link!ShowDown
<1>10. CASE Link!SignOut(p)
  <2>1. PICK to \in {"leave", "idle"} : pc' = [pc EXCEPT ![p] = to]
    BY <1>10 DEF Link!SignOut
  <2>2. /\ UNCHANGED <<status, qr, client, db, mine, reading, dropping, flow, events>>
        /\ paired' \in BOOLEAN /\ linked' \in BOOLEAN /\ wanted' \in BOOLEAN
    BY <1>10 DEF Link!SignOut, Link!TypeOK
  <2> QED
    BY <1>p, <2>1, <2>2, LinkStep DEF Link!TypeOK
<1> QED
  BY <1>2, <1>3, <1>4, <1>5, <1>6, <1>7, <1>8, <1>9, <1>10
  DEF Link!Connecting, Link!Action

\* What is left when the goroutines do not move: a channel that was requested
\* stays so.
LEMMA ChannelsStay ==
  ASSUME Link!TypeOK, UNCHANGED <<client, db, pc, mine>>, reading' \subseteq reading,
         flow' \in [Link!Flows -> Link!FlowStates],
         \A f \in Link!Flows : flow[f] # "none" => flow'[f] # "none",
         status' \in Link!Statuses, qr' \in Link!Flows \union {0},
         dropping' \in BOOLEAN, paired' \in BOOLEAN, linked' \in BOOLEAN,
         wanted' \in BOOLEAN, events' \subseteq Link!Kinds
  PROVE  Link!TypeOK'
<1>1. reading' \subseteq {f \in Link!Flows : flow'[f] # "none"}
  BY DEF Link!TypeOK
<1>2. ASSUME NEW q \in Link!Threads, pc'[q] \in {"join", "consume"}
      PROVE  mine'[q] # 0 /\ flow'[mine'[q]] # "none"
  BY <1>2 DEF Link!TypeOK
<1> QED
  BY <1>1, <1>2 DEF Link!TypeOK

\* The QR channels, the events and the library.
LEMMA LibraryTypes ==
  ASSUME Link!TypeOK,
         \/ \E f \in Link!Flows : Link!Code(f) \/ Link!Last(f)
         \/ Link!HandleEvent
         \/ Link!Whatsmeow
  PROVE  Link!TypeOK'
<1> USE DEF Link!setup, Link!library, Link!shown, Link!work, Link!SetStatus
<1>1. /\ {"disconnected", "connecting", "needs_qr", "connected", "session_expired",
          "error"} = Link!Statuses
      /\ {"connected", "disconnected", "loggedout", "pairsuccess"} = Link!Kinds
      /\ {"running", "over", "mute", "success", "failed",
          "other"} = Link!FlowStates \ {"none"}
      /\ {"success", "failed", "other"} = Link!Lasts
  BY DEF Link!Statuses, Link!Kinds, Link!FlowStates, Link!Lasts
<1> USE DEF Link!TypeOK
<1>2. ASSUME NEW f \in Link!Flows, NEW s \in Link!FlowStates \ {"none"},
             flow' = [flow EXCEPT ![f] = s]
      PROVE  /\ flow' \in [Link!Flows -> Link!FlowStates]
             /\ \A g \in Link!Flows : flow[g] # "none" => flow'[g] # "none"
  BY <1>2
<1>3. CASE \E f \in Link!Flows : Link!Code(f)
  BY <1>1, <1>3, ChannelsStay DEF Link!Code, Link!SetQR
<1>4. CASE \E f \in Link!Flows : Link!Last(f)
  <2>1. PICK f \in Link!Flows, last \in Link!Lasts : Link!Ends(f, last)
    BY <1>1, <1>4 DEF Link!Last
  <2>2. /\ flow' = [flow EXCEPT ![f] = IF last = "other" THEN "mute" ELSE "over"]
        /\ reading' \subseteq reading
        /\ UNCHANGED <<client, db, pc, mine, dropping, paired, linked, wanted, events>>
    BY <2>1 DEF Link!Ends
  <2>3. (IF last = "other" THEN "mute" ELSE "over") \in Link!FlowStates \ {"none"}
    BY <1>1
  <2>4. /\ flow' \in [Link!Flows -> Link!FlowStates]
        /\ \A g \in Link!Flows : flow[g] # "none" => flow'[g] # "none"
    BY <1>2, <2>2, <2>3
  <2>5. status' \in Link!Statuses /\ qr' \in Link!Flows \union {0}
    BY <1>1, <1>4 DEF Link!Last
  <2> QED
    BY <2>2, <2>4, <2>5, ChannelsStay
<1>5. CASE Link!HandleEvent
  <2>1. /\ UNCHANGED <<client, db, pc, mine, reading, paired, linked, wanted, flow>>
        /\ events' \subseteq Link!Kinds
        /\ dropping' \in BOOLEAN
    BY <1>5
    DEF Link!HandleEvent, Link!Handles, Link!Connected, Link!PairSuccess, Link!LoggedOut,
        Link!Disconnected, Link!ShowDropped
  <2>2. status' \in Link!Statuses /\ qr' \in Link!Flows \union {0}
    BY <1>1, <1>5
    DEF Link!HandleEvent, Link!Connected, Link!PairSuccess, Link!LoggedOut,
        Link!Disconnected, Link!ShowDropped
  <2> QED
    BY <2>1, <2>2, ChannelsStay
<1>6. CASE Link!Pair
  <2>1. /\ flow' \in [Link!Flows -> Link!FlowStates]
        /\ \A g \in Link!Flows : flow[g] # "none" => flow'[g] # "none"
    BY <1>1, <1>6 DEF Link!Pair
  <2> QED
    BY <1>1, <1>6, <2>1, ChannelsStay DEF Link!Pair, Link!Raises
<1>7. CASE \E f \in Link!Flows : Link!GiveUp(f)
  <2>1. PICK f \in Link!Flows, last \in Link!Lasts :
          /\ flow' = [flow EXCEPT ![f] = last]
          /\ UNCHANGED <<status, qr, client, db, pc, mine, reading, dropping, paired,
                         linked, wanted, events>>
    BY <1>7 DEF Link!GiveUp
  <2>2. /\ flow' \in [Link!Flows -> Link!FlowStates]
        /\ \A g \in Link!Flows : flow[g] # "none" => flow'[g] # "none"
    BY <1>1, <1>2, <2>1
  <2> QED
    BY <2>1, <2>2, ChannelsStay
<1>8. CASE Link!Accept \/ Link!Drop \/ Link!Relink \/ Link!Revoke
  BY <1>1, <1>8, ChannelsStay
  DEF Link!Accept, Link!Drop, Link!Relink, Link!Revoke, Link!Raises
<1> QED
  BY <1>3, <1>4, <1>5, <1>6, <1>7, <1>8 DEF Link!Whatsmeow

\* Init, and a restart, which comes back to it.
LEMMA LinkBegins ==
  /\ Link!Init => Link!TypeOK
  /\ Link!TypeOK /\ Link!Restart => Link!TypeOK'
<1>1. /\ "disconnected" \in Link!Statuses
      /\ "none" \in Link!FlowStates
      /\ {"new", "idle"} \subseteq Link!Places \ {"join", "consume"}
  BY DEF Link!Statuses, Link!FlowStates, Link!Places
<1>2. Link!Init => Link!TypeOK
  BY <1>1 DEF Link!Init, Link!TypeOK
<1>3. Link!TypeOK /\ Link!Restart => Link!TypeOK'
  BY <1>1 DEF Link!Restart, Link!TypeOK
<1> QED
  BY <1>2, <1>3

LEMMA LinkTypeNext ==
  ASSUME Link!TypeOK, Link!Next
  PROVE  Link!TypeOK'
<1> USE DEF Link!Move, Link!SetStatus, Link!library
<1>1. CASE Link!Start
  <2>1. /\ {"new", "choose", "returned"} \subseteq Link!Places
        /\ Starter \in Link!Threads
        /\ {"connecting", "error"} \subseteq Link!Statuses
    BY DEF Link!Places, Link!Threads, Link!Statuses
  <2>2. CASE pc' = [pc EXCEPT ![Starter] = "choose"]
    BY <1>1, <2>1, <2>2, LinkStep DEF Link!Start, Link!TypeOK
  <2>3. CASE pc' = [pc EXCEPT ![Starter] = "returned"]
    BY <1>1, <2>1, <2>3, LinkStep DEF Link!Start, Link!TypeOK
  <2> QED
    BY <1>1, <2>2, <2>3 DEF Link!Start
<1>2. CASE \/ Link!StartPairs
           \/ \E p \in Link!Threads : Link!Connecting(p)
           \/ \E p \in Callers : Link!Action(p)
  <2>1. Starter \in Link!Threads /\ Callers \subseteq Link!Threads
    BY DEF Link!Threads
  <2> QED
    BY <1>2, <2>1, GoroutineTypes
<1>3. CASE \/ \E f \in Link!Flows : Link!Code(f) \/ Link!Last(f)
           \/ Link!HandleEvent
           \/ Link!Whatsmeow
  BY <1>3, LibraryTypes
<1>4. CASE Link!Restart
  BY <1>4, LinkBegins
<1> QED
  BY <1>1, <1>2, <1>3, <1>4 DEF Link!Next

-----------------------------------------------------------------------------
(* The two parts together.                                                 *)

LEMMA PartsSpec == WSpec => Spec /\ Link!Spec
<1>1. WInit => Init /\ Link!Init
  BY DEF WInit
<1>2. [WNext]_transportVars => [Next]_vars /\ [Link!Next]_(Link!vars)
  BY DEF WNext, transportVars, linkVars, Link!vars, Link!shown, Link!setup, Link!work,
         Link!library
<1> QED
  BY <1>1, <1>2, PTL DEF WSpec, Spec, Link!Spec

\* Every variable of the transport has its type.  Of the link this includes
\* that consumeQR only reads channels that were requested, and that whoever
\* connects after GetQRChannel has one to read.
THEOREM TypesCorrect == WSpec => []TypesOK
<1>1. Link!TypeOK /\ [Link!Next]_(Link!vars) => Link!TypeOK'
  <2>1. CASE Link!TypeOK /\ Link!Next
    BY <2>1, LinkTypeNext
  <2>2. CASE Link!TypeOK /\ UNCHANGED Link!vars
    BY <2>2 DEF Link!TypeOK, Link!vars, Link!shown, Link!setup, Link!work, Link!library
  <2> QED
    BY <2>1, <2>2
<1>2. Link!Spec => []Link!TypeOK
  BY <1>1, LinkBegins, PTL DEF Link!Spec
<1> QED
  BY <1>2, TypeCorrect, PartsSpec, PTL DEF TypesOK
=============================================================================
