--------------------------- MODULE MachineProofs ----------------------------
(***************************************************************************)
(* Proofs about what processes of one machine share: the directory of      *)
(* contacts (Contacts), whom a message reaches (Recipient), the unread     *)
(* messages of a chat (Inbox), and all of them together with the installer *)
(* (Machine).  They hold for any names, contacts, writers, connections,    *)
(* messages, pages and processes.                                          *)
(***************************************************************************)
EXTENDS Machine, Sequences, FiniteSetTheorems, TLAPS

-----------------------------------------------------------------------------
(* Contacts.                                                               *)

\* A stored contact is a contact.
LEMMA StoredType ==
  ASSUME NEW c \in Contact
  PROVE  Stored(c) \in Contact
  BY ContactsAssumption DEF Stored, Contact

\* Aliases of one line each are stored as they are.
LEMMA StoredSame ==
  ASSUME NEW c \in Contact, \A t \in Tokens : Lines[t] = {t}
  PROVE  Stored(c).name = c.name /\ Stored(c).aliases = c.aliases
<1>1. UNION {Lines[t] : t \in c.aliases} = c.aliases
  <2>1. c.aliases \subseteq Tokens
    BY DEF Contact
  <2> QED
    BY <2>1
<1> QED
  BY <1>1 DEF Stored, Contact

-----------------------------------------------------------------------------
(* Types of the directory.                                                 *)

\* The initial state has its types.
LEMMA InitType == Init => TypeOK
<1> SUFFICES ASSUME Init PROVE TypeOK
  OBVIOUS
<1>1. NoContact \in Contact
  BY ContactsAssumption DEF NoContact, Contact
<1>2. /\ rows = [i \in {} |-> NoContact]
      /\ pc \in [Writers -> {"idle", "check", "write"}]
      /\ row \in [Writers -> Contact]
      /\ id \in [Writers -> 0..MaxId]
  BY <1>1, ContactsAssumption DEF Init
<1> QED
  BY <1>2 DEF TypeOK

\* Preparing a write keeps the types.
LEMMA PrepareType ==
  ASSUME TypeOK, NEW w \in Writers, NEW i \in 0..MaxId, NEW c \in Contact,
         Prepare(w, i, c)
  PROVE  TypeOK'
  BY DEF Prepare, TypeOK

\* Every step keeps the types.
LEMMA TypeNext == TypeOK /\ [Next]_vars => TypeOK'
<1> SUFFICES ASSUME TypeOK, [Next]_vars PROVE TypeOK'
  OBVIOUS
<1>1. 0 \in 0..MaxId /\ \A i \in Ids : i \in 0..MaxId
  BY ContactsAssumption DEF Ids
<1>2. ASSUME NEW w \in Writers, NEW c \in Contact, Create(w, c)
      PROVE  TypeOK'
  BY <1>1, <1>2, PrepareType DEF Create
<1>3. ASSUME NEW w \in Writers, NEW c \in Contact, Upsert(w, c)
      PROVE  TypeOK'
  <2>1. PICK i \in 0..MaxId : Prepare(w, i, c)
    BY <1>1, <1>3 DEF Upsert, Exact, TypeOK
  <2> QED
    BY <1>1, <2>1, PrepareType
<1>4. ASSUME NEW w \in Writers, NEW i \in Ids, NEW c \in Contact,
             NEW fields \in SUBSET Fields, Edit(w, i, c, fields)
      PROVE  TypeOK'
  <2>1. rows[i] \in Contact
    BY <1>4 DEF Edit, TypeOK
  <2>2. PICK d \in Contact : Prepare(w, i, d)
    BY <1>4, <2>1 DEF Edit, Contact
  <2> QED
    BY <1>1, <2>2, PrepareType
<1>5. ASSUME NEW w \in Writers, Check(w) \/ Fail(w)
      PROVE  TypeOK'
  BY <1>5 DEF Check, Fail, TypeOK
<1>6. ASSUME NEW w \in Writers, Insert(w) \/ Update(w)
      PROVE  TypeOK'
  <2>1. Stored(row[w]) \in Contact
    BY StoredType DEF TypeOK
  <2>2. /\ DOMAIN rows' \subseteq Ids
        /\ \A i \in DOMAIN rows' : rows'[i] \in Contact
    <3>1. CASE Insert(w)
      BY <3>1, <2>1 DEF Insert, TypeOK
    <3>2. CASE Update(w)
      BY <3>2, <2>1 DEF Update, TypeOK
    <3> QED
      BY <1>6, <3>1, <3>2
  <2> QED
    BY <1>6, <2>2 DEF Insert, Update, TypeOK
<1>7. ASSUME NEW w \in Writers, NEW i \in Ids, Delete(w, i)
      PROVE  TypeOK'
  BY <1>7 DEF Delete, TypeOK
<1>8. CASE UNCHANGED vars
  BY <1>8 DEF vars, TypeOK
<1> QED
  BY <1>2, <1>3, <1>4, <1>5, <1>6, <1>7, <1>8 DEF Next, Write

\* In every behaviour every variable has its type.
THEOREM TypeCorrect == Spec => []TypeOK
  BY InitType, TypeNext, PTL DEF Spec

-----------------------------------------------------------------------------
(* No shared name.                                                         *)

\* What a writer has checked still holds when it writes, as long as nobody else
\* writes in between.
UniqueInv ==
  /\ NoSharedToken
  /\ \A w \in Writers : pc[w] = "write" => EnsureUnique(id[w], row[w])

\* Writing one checked contact leaves no token shared.
LEMMA PutUnique ==
  ASSUME TypeOK, NoSharedToken, \A t \in Tokens : Lines[t] = {t},
         NEW i \in Ids, NEW c \in Contact, EnsureUnique(i, c),
         DOMAIN rows' \subseteq DOMAIN rows \union {i},
         \A j \in DOMAIN rows' :
           rows'[j] = IF j = i THEN Stored(c) ELSE rows[j]
  PROVE  NoSharedToken'
<1>1. Stored(c).name = c.name /\ Stored(c).aliases = c.aliases
  BY StoredSame
<1>2. ASSUME NEW j \in DOMAIN rows'
      PROVE  rows'[j].name \notin rows'[j].aliases
  BY <1>1, <1>2 DEF EnsureUnique, NoSharedToken
<1>3. ASSUME NEW j \in DOMAIN rows', NEW k \in DOMAIN rows' \ {j}
      PROVE  ({rows'[j].name} \union rows'[j].aliases)
               \cap ({rows'[k].name} \union rows'[k].aliases) = {}
  <2>1. CASE j = i
    <3>1. k \in DOMAIN rows \ {i} /\ rows'[k] = rows[k]
      BY <1>3, <2>1
    <3> QED
      BY <1>1, <2>1, <3>1, <1>3 DEF EnsureUnique, TokensOf
  <2>2. CASE k = i
    <3>1. j \in DOMAIN rows \ {i} /\ rows'[j] = rows[j]
      BY <1>3, <2>2
    <3> QED
      BY <1>1, <2>2, <3>1, <1>3 DEF EnsureUnique, TokensOf
  <2>3. CASE j # i /\ k # i
    BY <1>3, <2>3 DEF NoSharedToken, TokensOf
  <2> QED
    BY <2>1, <2>2, <2>3
<1> QED
  BY <1>2, <1>3 DEF NoSharedToken, TokensOf

\* With one writer and one-line aliases every step leaves no token shared.
LEMMA UniqueNext ==
  ASSUME \A v, w \in Writers : v = w, \A t \in Tokens : Lines[t] = {t}
  PROVE  TypeOK /\ UniqueInv /\ [Next]_vars => UniqueInv'
<1> SUFFICES ASSUME TypeOK, UniqueInv, [Next]_vars PROVE UniqueInv'
  OBVIOUS
<1>1. ASSUME NEW w \in Writers, NEW i, NEW c, Prepare(w, i, c)
      PROVE  UniqueInv'
  BY <1>1 DEF Prepare, UniqueInv, NoSharedToken, EnsureUnique, TypeOK
<1>2. ASSUME NEW w \in Writers, Check(w)
      PROVE  UniqueInv'
  <2>1. NoSharedToken'
    BY <1>2 DEF Check, UniqueInv, NoSharedToken
  <2>2. pc'[w] = "write" => EnsureUnique(id[w], row[w])
    BY <1>2 DEF Check, TypeOK
  <2> QED
    BY <1>2, <2>1, <2>2 DEF Check, UniqueInv, EnsureUnique
<1>3. ASSUME NEW w \in Writers, Fail(w)
      PROVE  UniqueInv'
  BY <1>3 DEF Fail, UniqueInv, NoSharedToken, EnsureUnique, TypeOK
<1>4. ASSUME NEW w \in Writers, Insert(w) \/ Update(w)
      PROVE  UniqueInv'
  <2>1. /\ row[w] \in Contact /\ id[w] \in 0..MaxId
        /\ EnsureUnique(id[w], row[w])
    BY <1>4 DEF Insert, Update, UniqueInv, TypeOK
  <2>2. CASE Insert(w)
    <3>1. EnsureUnique(NextId, row[w])
      BY <2>1, <2>2 DEF Insert, EnsureUnique, TypeOK, Ids
    <3> QED
      BY <2>1, <2>2, <3>1, PutUnique DEF Insert, UniqueInv, TypeOK
  <2>3. CASE Update(w)
    <3>1. id[w] \in Ids
      BY <2>1, <2>3, ContactsAssumption DEF Update, Ids
    <3> QED
      BY <2>1, <2>3, <3>1, PutUnique DEF Update, UniqueInv, TypeOK
  <2> QED
    BY <1>4, <2>2, <2>3
<1>5. ASSUME NEW w \in Writers, NEW i \in Ids, Delete(w, i)
      PROVE  UniqueInv'
  BY <1>5 DEF Delete, UniqueInv, NoSharedToken, TypeOK
<1>6. CASE UNCHANGED vars
  BY <1>6 DEF vars, UniqueInv, NoSharedToken, EnsureUnique
<1> QED
  BY <1>1, <1>2, <1>3, <1>4, <1>5, <1>6
  DEF Next, Write, Create, Upsert, Edit

\* When operations on the directory do not overlap and aliases have no line
\* breaks, no name or alias is ever shared, however many contacts there are.
THEOREM SerialWritersKeepNamesUnique ==
  ASSUME \A v, w \in Writers : v = w, \A t \in Tokens : Lines[t] = {t}
  PROVE  Spec => []NoSharedToken
<1>1. Init => TypeOK /\ UniqueInv
  BY InitType DEF Init, UniqueInv, NoSharedToken
<1>2. UniqueInv => NoSharedToken
  BY DEF UniqueInv
<1> QED
  BY <1>1, <1>2, TypeNext, UniqueNext, PTL DEF Spec

-----------------------------------------------------------------------------
(* Types of the connections.                                               *)

\* Contacts that match are contacts of the directory.
LEMMA ResolveType ==
  ASSUME NEW n
  PROVE  Resolve(n) \subseteq DOMAIN rows
  BY DEF Resolve, Exact, Begun

\* Whom a transport finds for a name is a target.
LEMMA TransportType ==
  ASSUME TypeOK, NEW n, NEW found \in SUBSET DOMAIN rows
  PROVE  /\ Telegram(n, found) \subseteq Targets
         /\ WhatsApp(n, found) \subseteq Targets
         /\ Instagram(n, found) \subseteq Targets
<1>1. \A i \in found : rows[i].channels \in Channels
  BY DEF TypeOK, Contact
<1>2. \A i \in found : Contacted(rows[i].channels) \in Targets
  BY <1>1 DEF Targets
<1>3. Stranger \in Targets /\ Refused \in Targets
  BY DEF Targets
<1> QED
  BY <1>2, <1>3 DEF Telegram, WhatsApp, Instagram

\* Whom a request finds is a target.
LEMMA FoundType ==
  ASSUME TypeOK, NEW r, NEW readable \in BOOLEAN
  PROVE  Found(r, readable) \subseteq Targets
<1>1. AsAddressed \in Targets /\ Refused \in Targets
  BY DEF Targets
<1>2. InDaemon(r.route, r.name, readable) \subseteq Targets
  <2> DEFINE found == IF readable THEN Resolve(r.name) ELSE {}
  <2>1. found \in SUBSET DOMAIN rows
    BY ResolveType
  <2>2. /\ Telegram(r.name, found) \subseteq Targets
        /\ WhatsApp(r.name, found) \subseteq Targets
        /\ Instagram(r.name, found) \subseteq Targets
    BY <2>1, TransportType
  <2> HIDE DEF found
  <2>3. InDaemon(r.route, r.name, readable) =
          IF Cardinality(found) > 1 THEN {Refused}
          ELSE CASE r.route = "telegram" -> Telegram(r.name, found)
                 [] r.route = "whatsapp" -> WhatsApp(r.name, found)
                 [] OTHER                -> Instagram(r.name, found)
    BY DEF InDaemon, found
  <2> QED
    BY <1>1, <2>2, <2>3
<1>3. InCommand(r.name, readable) \subseteq Targets
  <2> DEFINE found == IF Exact(r.name) # {} THEN Exact(r.name) ELSE Begun(r.name)
  <2>1. found \in SUBSET DOMAIN rows
    BY DEF Exact, Begun
  <2>2. WhatsApp(r.name, found) \subseteq Targets
    BY <2>1, TransportType
  <2> QED
    BY <1>1, <2>2 DEF InCommand
<1> QED
  BY <1>1, <1>2, <1>3 DEF Found

\* The connections start idle.
LEMMA RInitType == RInit => RTypeOK
<1> SUFFICES ASSUME RInit PROVE RTypeOK
  OBVIOUS
<1>1. NoRequest \in Requests
  BY DEF NoRequest, Requests, ByAddress, Routes
<1>2. Refused \in Targets
  BY DEF Targets
<1> QED
  BY <1>1, <1>2, InitType DEF RInit, RTypeOK

\* Every step keeps the types.
LEMMA RTypeNext == RTypeOK /\ [RNext]_allVars => RTypeOK'
<1> SUFFICES ASSUME RTypeOK, [RNext]_allVars PROVE RTypeOK'
  OBVIOUS
<1>1. TypeOK'
  BY TypeNext DEF RTypeOK, RNext, Directory, Asked, Look, Call, allVars, vars
<1>2. CASE Directory \/ UNCHANGED allVars
  BY <1>1, <1>2 DEF Directory, allVars, connVars, RTypeOK
<1>3. ASSUME NEW k \in Conns, NEW r \in Requests, Asked(k, r)
      PROVE  RTypeOK'
  BY <1>1, <1>3 DEF Asked, Stage, RTypeOK
<1>4. ASSUME NEW k \in Conns, NEW readable \in BOOLEAN, Look(k, readable)
      PROVE  RTypeOK'
  <2>1. PICK x \in Found(request[k], readable) :
          /\ target' = [target EXCEPT ![k] = x]
          /\ Stage(k, "resolve", IF x = Refused THEN "idle" ELSE "call")
    BY <1>4 DEF Look
  <2>2. x \in Targets
    BY <2>1, FoundType DEF RTypeOK
  <2>3. NoRequest \in Requests
    BY DEF NoRequest, Requests, ByAddress, Routes
  <2>4. request' \in [Conns -> Requests]
    BY <1>4, <2>3 DEF Look, RTypeOK
  <2> QED
    BY <1>1, <2>1, <2>2, <2>4 DEF Stage, RTypeOK
<1>5. ASSUME NEW k \in Conns, Call(k)
      PROVE  RTypeOK'
  <2>1. Refused \in Targets
    BY DEF Targets
  <2> QED
    BY <1>1, <1>5, <2>1 DEF Call, Stage, RTypeOK
<1> QED
  BY <1>2, <1>3, <1>4, <1>5 DEF RNext

\* daemon.go:268-430: every variable keeps its type, so that what is found for a
\* request is the channel fields of a contact, an address, or nobody.
THEOREM RTypeCorrect == RSpec => []RTypeOK
  BY RInitType, RTypeNext, PTL DEF RSpec

-----------------------------------------------------------------------------
(* The directory outranks public handles.                                  *)

\* What a lookup may find for a name of contact i.
Rightly(i) == {Refused, Contacted(rows[i].channels)}

\* Transports that are given one contact refuse it or find it.
LEMMA OneFound ==
  ASSUME NEW n, NEW i
  PROVE  /\ Telegram(n, {i}) \subseteq Rightly(i)
         /\ WhatsApp(n, {i}) \subseteq Rightly(i)
         /\ Instagram(n, {i}) \subseteq Rightly(i)
  BY DEF Telegram, WhatsApp, Instagram, Rightly

\* The daemon refuses a name that matches several contacts.
LEMMA InDaemonRightly ==
  ASSUME TypeOK, NEW i \in DOMAIN rows, NEW n \in TokensOf(rows[i]), NEW route
  PROVE  InDaemon(route, n, TRUE) \subseteq Rightly(i)
<1>1. i \in Resolve(n)
  BY DEF Resolve, Exact
<1>2. IsFiniteSet(Resolve(n))
  <2>1. Resolve(n) \subseteq 1..MaxId
    BY ResolveType DEF TypeOK, Ids
  <2>2. IsFiniteSet(1..MaxId)
    BY FS_Interval, ContactsAssumption
  <2> QED
    BY <2>1, <2>2, FS_Subset
<1>3. CASE Cardinality(Resolve(n)) > 1
  BY <1>3 DEF InDaemon, Rightly
<1>4. CASE ~(Cardinality(Resolve(n)) > 1)
  <2>1. Cardinality(Resolve(n)) \in Nat /\ Cardinality(Resolve(n)) # 0
    BY <1>1, <1>2, FS_CardinalityType, FS_EmptySet
  <2>2. Cardinality(Resolve(n)) = 1
    BY <1>4, <2>1
  <2>3. Resolve(n) = {i}
    BY <1>1, <1>2, <2>2, FS_Singleton
  <2>4. InDaemon(route, n, TRUE) =
          CASE route = "telegram" -> Telegram(n, {i})
            [] route = "whatsapp" -> WhatsApp(n, {i})
            [] OTHER              -> Instagram(n, {i})
    BY <1>4, <2>3 DEF InDaemon
  <2> QED
    BY <2>4, OneFound
<1> QED
  BY <1>3, <1>4

\* The commands of `zc wa' take the only contact that has the name.
LEMMA InCommandRightly ==
  ASSUME NoSharedToken, NEW i \in DOMAIN rows, NEW n \in TokensOf(rows[i])
  PROVE  InCommand(n, TRUE) \subseteq Rightly(i)
<1>1. Exact(n) = {i}
  BY DEF Exact, NoSharedToken
<1> QED
  BY <1>1, OneFound DEF InCommand

\* A lookup that reads the directory finds what Found allows.
LEMMA LookFinds ==
  ASSUME RTypeOK, NEW k \in Conns, Look(k, TRUE), request[k].by = "name"
  PROVE  target'[k] \in IF request[k].route = "wa"
                        THEN InCommand(request[k].name, TRUE)
                        ELSE InDaemon(request[k].route, request[k].name, TRUE)
<1>1. PICK x \in Found(request[k], TRUE) : target' = [target EXCEPT ![k] = x]
  BY DEF Look
<1>2. target'[k] = x
  BY <1>1 DEF RTypeOK
<1> QED
  BY <1>1, <1>2 DEF Found

\* daemon.go:406-409, "picking one silently sends a private message to the wrong
\* person": whatever writers do, a name or alias of a contact that is given to
\* the daemon reaches that contact, or nobody.
DaemonOutranks ==
  [][\A k \in Conns, i \in DOMAIN rows :
       Look(k, TRUE) /\ request[k].by = "name" /\ request[k].route # "wa"
         /\ request[k].name \in TokensOf(rows[i]) =>
       target'[k] \in Rightly(i)]_allVars

\* Writers may overlap, and contacts may share their names.
THEOREM DaemonReachesContacts == RSpec => DaemonOutranks
<1>1. RTypeOK =>
        \A k \in Conns, i \in DOMAIN rows :
          Look(k, TRUE) /\ request[k].by = "name" /\ request[k].route # "wa"
            /\ request[k].name \in TokensOf(rows[i]) =>
          target'[k] \in Rightly(i)
  <2> SUFFICES ASSUME RTypeOK, NEW k \in Conns, NEW i \in DOMAIN rows,
                      Look(k, TRUE), request[k].by = "name",
                      request[k].route # "wa",
                      request[k].name \in TokensOf(rows[i])
               PROVE  target'[k] \in Rightly(i)
    OBVIOUS
  <2>1. target'[k] \in InDaemon(request[k].route, request[k].name, TRUE)
    BY LookFinds
  <2> QED
    BY <2>1, InDaemonRightly DEF RTypeOK
<1> QED
  BY <1>1, RTypeCorrect, PTL DEF DaemonOutranks

\* When operations on the directory do not overlap and aliases have no line
\* breaks, `zc wa' is as careful: no name is shared (Contacts).
THEOREM DirectoryOutranksStrangers ==
  ASSUME \A v, w \in Writers : v = w, \A t \in Tokens : Lines[t] = {t}
  PROVE  RSpec => DirectoryOutranks
<1>1. RTypeOK /\ NoSharedToken =>
        \A k \in Conns, i \in DOMAIN rows :
          Look(k, TRUE) /\ request[k].by = "name"
            /\ request[k].name \in TokensOf(rows[i]) =>
          target'[k] \in {Refused, Contacted(rows[i].channels)}
  <2> SUFFICES ASSUME RTypeOK, NoSharedToken, NEW k \in Conns,
                      NEW i \in DOMAIN rows, Look(k, TRUE),
                      request[k].by = "name",
                      request[k].name \in TokensOf(rows[i])
               PROVE  target'[k] \in Rightly(i)
    BY DEF Rightly
  <2> QED
    BY LookFinds, InDaemonRightly, InCommandRightly DEF RTypeOK
<1>2. RInit => UniqueInv
  BY DEF RInit, Init, UniqueInv, NoSharedToken
<1>3. RTypeOK /\ UniqueInv /\ [RNext]_allVars => UniqueInv'
  <2>1. RTypeOK /\ [RNext]_allVars => TypeOK /\ [Next]_vars
    BY DEF RTypeOK, RNext, Directory, Asked, Look, Call, allVars, vars
  <2> QED
    BY <2>1, UniqueNext
<1>4. UniqueInv => NoSharedToken
  BY DEF UniqueInv
<1> QED
  BY <1>1, <1>2, <1>3, <1>4, RTypeCorrect, PTL DEF RSpec, DirectoryOutranks

-----------------------------------------------------------------------------
(* The scan of a chat.                                                     *)

\* A message that is not newer than one found has been found too, was read when
\* the scan began, is beyond its last page, or is still to come.
Reached(x) ==
  x \in unread \/ x <= since \/ x <= capped \/ (scanAt = "page" /\ x < from)

\* A scan knows a last read message that was the last read one, and has listed all
\* it found before any of it is marked.
ScanInv ==
  /\ NothingUnseenRead
  /\ since <= lastRead
  /\ scanAt = "idle" => page = 0 /\ from = 0
  /\ scanAt = "page" => page < MaxPages
  /\ from = 0 => unread = {}
  /\ scanAt = "listed" => unread \subseteq listed
  /\ \A m \in unread, x \in Inbox!Incoming : x <= m => Reached(x)

\* A message more, and the others are as they were.
LEMMA Grows ==
  ASSUME Inbox!TypeOK, NEW d \in {"in", "out"}, chat' = Append(chat, d)
  PROVE  /\ chat' \in Seq({"in", "out"})
         /\ Len(chat') = Len(chat) + 1
         /\ Inbox!Incoming \subseteq Inbox!Incoming'
         /\ \A x \in Inbox!Incoming' : x \in Inbox!Incoming \/ x = Len(chat) + 1
  BY DEF Inbox!TypeOK, Inbox!Incoming

\* Messages are numbered from one on.
LEMMA Numbers ==
  ASSUME Inbox!TypeOK
  PROVE  /\ Len(chat) \in Nat
         /\ DOMAIN chat = 1..Len(chat)
         /\ Inbox!Incoming \subseteq 1..Len(chat)
  BY DEF Inbox!TypeOK, Inbox!Incoming

\* The largest and the least of an interval.
LEMMA MaxOfInterval ==
  ASSUME NEW m \in Nat, NEW n \in Nat, m <= n
  PROVE  Inbox!Max(m..n) = n /\ Inbox!Min(m..n) = m
<1>1. n \in m..n /\ \A y \in m..n : n >= y
  OBVIOUS
<1>2. m \in m..n /\ \A y \in m..n : m <= y
  OBVIOUS
<1>3. \A x \in m..n : (\A y \in m..n : x >= y) => x = n
  BY <1>1
<1>4. \A x \in m..n : (\A y \in m..n : x <= y) => x = m
  BY <1>2
<1> QED
  BY <1>1, <1>2, <1>3, <1>4 DEF Inbox!Max, Inbox!Min

\* The larger of two numbers.
LEMMA MaxOfTwo ==
  ASSUME NEW m \in Nat, NEW n \in Nat
  PROVE  /\ Inbox!Max({m, n}) \in {m, n}
         /\ m <= Inbox!Max({m, n})
         /\ n <= Inbox!Max({m, n})
<1>1. \E x \in {m, n} : \A y \in {m, n} : x >= y
  OBVIOUS
<1> QED
  BY <1>1 DEF Inbox!Max

\* unread.go:60-73: a page is empty when nothing is older than what was seen, and
\* otherwise goes on without a gap from there, or from the newest message.
LEMMA PageIsNext ==
  ASSUME Inbox!TypeOK, NEW msgs \in Inbox!Pages
  PROVE  \/ /\ msgs = {}
            /\ from = 1 \/ Len(chat) = 0
         \/ \E lo \in 1..Len(chat), hi \in 1..Len(chat) :
              /\ lo <= hi
              /\ msgs = lo..hi
              /\ hi = IF from = 0 THEN Len(chat) ELSE from - 1
<1> DEFINE hi == IF from = 0 THEN Len(chat) ELSE from - 1
<1>1. /\ Len(chat) \in Nat /\ from \in 0..Len(chat)
      /\ Inbox!Older = 1..hi
      /\ hi \in 0..Len(chat)
  BY Numbers DEF Inbox!Older, Inbox!TypeOK
<1>2. CASE hi = 0
  <2>1. Inbox!Older = {}
    BY <1>1, <1>2
  <2>2. msgs = {}
    BY <2>1 DEF Inbox!Pages
  <2> QED
    BY <1>1, <1>2, <2>2
<1>3. CASE hi # 0
  <2>1. Inbox!Older # {} /\ Inbox!Max(Inbox!Older) = hi
    BY <1>1, <1>3, MaxOfInterval
  <2>2. PICK lo \in Inbox!Older : msgs = lo..hi
    BY <2>1 DEF Inbox!Pages
  <2> QED
    BY <1>1, <1>3, <2>2
<1> QED
  BY <1>2, <1>3

\* What a page adds to the messages found, and how far back it reaches.
LEMMA PageReaches ==
  ASSUME Inbox!TypeOK, ScanInv, Inbox!Page
  PROVE  ScanInv'
<1> DEFINE Known(msgs) == unread \union {m \in msgs \cap Inbox!Incoming : m > since}
<1>1. PICK msgs \in Inbox!Pages :
        /\ unread' = Known(msgs)
        /\ page' = page + 1
        /\ from' = IF msgs = {} THEN from ELSE Inbox!Min(msgs)
        /\ scanAt' = IF Inbox!NoFurther(msgs) \/ page + 1 = MaxPages
                     THEN "list" ELSE "page"
        /\ capped' = IF ~Inbox!NoFurther(msgs) /\ page + 1 = MaxPages
                     THEN Inbox!Max({capped, Inbox!Min(msgs) - 1}) ELSE capped
  BY DEF Inbox!Page
<1>2. /\ scanAt = "page"
      /\ UNCHANGED <<chat, lastRead, since, listed, elsewhere>>
      /\ Inbox!Incoming' = Inbox!Incoming
  BY DEF Inbox!Page, Inbox!Incoming
<1>3. /\ Len(chat) \in Nat /\ Inbox!Incoming \subseteq 1..Len(chat)
      /\ unread \subseteq Inbox!Incoming
      /\ since \in Nat /\ from \in Nat /\ capped \in Nat /\ page \in Nat
      /\ MaxPages \in Nat /\ page < MaxPages
  BY <1>2, Numbers, MachineAssumption DEF Inbox!TypeOK, ScanInv
<1> DEFINE Kept == \A m \in Known(msgs), x \in Inbox!Incoming :
                     x <= m => \/ x \in Known(msgs) \/ x <= since \/ x <= capped'
                               \/ scanAt' = "page" /\ x < from'
<1>4. SUFFICES
        /\ capped' \in Nat /\ capped <= capped'
        /\ scanAt' = "page" => page' < MaxPages
        /\ from' = 0 => Known(msgs) = {}
        /\ Kept
  <2>1. NothingUnseenRead'
    BY <1>2, <1>3, <1>4 DEF ScanInv, NothingUnseenRead, Inbox!NothingUnseenRead, Inbox!TypeOK
  <2> QED
    BY <1>1, <1>2, <1>3, <1>4, <2>1 DEF ScanInv, Reached
<1>5. CASE msgs = {}
  <2>1. from = 1 \/ Len(chat) = 0
    BY <1>5, PageIsNext
  <2>2. /\ capped' = capped /\ from' = from /\ scanAt' = "list"
        /\ Known(msgs) = unread
    BY <1>1, <1>5 DEF Inbox!NoFurther
  <2>3. Kept
    BY <1>2, <1>3, <2>1, <2>2 DEF ScanInv, Reached
  <2>4. from' = 0 => Known(msgs) = {}
    BY <2>2 DEF ScanInv
  <2>5. scanAt' # "page" /\ capped' \in Nat /\ capped <= capped'
    BY <1>3, <2>2
  <2> QED
    BY <2>3, <2>4, <2>5
<1>6. CASE msgs # {}
  <2> DEFINE hi == IF from = 0 THEN Len(chat) ELSE from - 1
  <2>1. PICK lo \in 1..Len(chat) : lo <= hi /\ hi \in 1..Len(chat) /\ msgs = lo..hi
    BY <1>6, PageIsNext
  <2>2. from' = lo /\ Inbox!Min(msgs) = lo /\ lo \in Nat /\ lo # 0
    BY <1>1, <1>3, <1>6, <2>1, MaxOfInterval
  <2>3. capped' \in Nat /\ capped <= capped'
    <3>1. lo - 1 \in Nat
      BY <2>2
    <3> QED
      BY <1>1, <1>3, <2>2, <3>1, MaxOfTwo
  <2>4. scanAt' = "page" => page' < MaxPages
    BY <1>1, <1>3
  <2>5. \/ scanAt' = "page"
        \/ lo <= since
        \/ lo - 1 <= capped'
    <3>1. CASE \E m \in msgs : m <= since
      BY <1>3, <2>1, <3>1
    <3>2. CASE ~Inbox!NoFurther(msgs) /\ page + 1 = MaxPages
      <4>1. lo - 1 \in Nat
        BY <2>2
      <4> QED
        BY <1>1, <1>3, <2>2, <3>2, <4>1, MaxOfTwo
    <3> QED
      BY <1>1, <1>6, <3>1, <3>2 DEF Inbox!NoFurther
  <2>6. ASSUME NEW m \in Known(msgs), NEW x \in Inbox!Incoming, x <= m,
               x \notin Known(msgs), ~(x <= since), ~(x <= capped')
        PROVE  scanAt' = "page" /\ x < lo
    <3>1. x \in Nat /\ m \in Nat /\ x <= Len(chat)
      BY <1>3
    <3>2. x \notin lo..hi
      BY <1>3, <2>1, <2>6
    <3>3. x < lo
      <4>1. CASE x < lo
        BY <4>1
      <4>2. CASE x > hi
        <5>1. from # 0 /\ from <= x
          BY <1>3, <3>1, <4>2
        <5>2. m \in unread
          BY <1>3, <2>1, <2>6, <3>1, <4>2
        <5>3. Reached(x)
          BY <2>6, <5>2 DEF ScanInv
        <5> QED
          BY <1>3, <2>3, <2>6, <3>1, <5>1, <5>3 DEF Reached
      <4> QED
        BY <2>1, <2>2, <3>1, <3>2, <4>1, <4>2
    <3> QED
      BY <1>3, <2>2, <2>3, <2>5, <2>6, <3>1, <3>3
  <2>7. Kept
    BY <2>2, <2>6
  <2> QED
    BY <2>2, <2>3, <2>4, <2>7
<1> QED
  BY <1>5, <1>6

\* Every other step of the scan or of Telegram.
LEMMA ScanNext ==
  ASSUME Inbox!TypeOK, ScanInv, [Inbox!Next]_inboxVars
  PROVE  ScanInv'
<1> USE DEF ScanInv
<1> USE DEF NothingUnseenRead, Inbox!NothingUnseenRead, Reached
<1>1. /\ Len(chat) \in Nat /\ Inbox!Incoming \subseteq 1..Len(chat)
      /\ unread \subseteq Inbox!Incoming
      /\ lastRead \in 0..Len(chat) /\ elsewhere \in Nat
      /\ since \in Nat /\ from \in Nat /\ capped \in Nat /\ page \in Nat
  BY Numbers DEF Inbox!TypeOK
<1>2. ASSUME NEW direction \in {"in", "out"}, Inbox!Arrive(direction)
      PROVE  ScanInv'
  <2>1. /\ \A x \in Inbox!Incoming' : x \in Inbox!Incoming \/ x = Len(chat) + 1
        /\ UNCHANGED <<lastRead, scanAt, since, from, page, unread, listed, elsewhere, capped>>
    BY <1>2, Grows DEF Inbox!Arrive, Inbox!scan
  <2>2. NothingUnseenRead'
    <3>1. \A x \in Inbox!Incoming' : x <= lastRead => x \in Inbox!Incoming
      BY <1>1, <2>1
    <3> QED
      BY <2>1, <3>1
  <2>3. \A m \in unread, x \in Inbox!Incoming' : x <= m => x \in Inbox!Incoming
    BY <1>1, <2>1
  <2> QED
    BY <2>1, <2>2, <2>3
<1>3. CASE Inbox!ReadElsewhere
  <2>1. /\ lastRead' = elsewhere' /\ lastRead' \in Nat /\ lastRead < lastRead'
        /\ UNCHANGED <<chat, scanAt, since, from, page, unread, listed, capped>>
        /\ Inbox!Incoming' = Inbox!Incoming
    BY <1>1, <1>3 DEF Inbox!ReadElsewhere, Inbox!scan, Inbox!Incoming
  <2> QED
    BY <1>1, <2>1
<1>4. CASE Inbox!Begin
  <2>1. /\ scanAt = "idle" /\ scanAt' = "page" /\ since' = lastRead
        /\ UNCHANGED <<chat, lastRead, from, page, unread, listed, elsewhere, capped>>
        /\ Inbox!Incoming' = Inbox!Incoming
    BY <1>4 DEF Inbox!Begin, Inbox!Incoming
  <2> QED
    BY <1>1, <2>1, MachineAssumption
<1>5. CASE Inbox!PageFails \/ Inbox!Leave
  <2>1. /\ scanAt' = "idle" /\ since' = 0 /\ from' = 0 /\ page' = 0 /\ unread' = {}
        /\ UNCHANGED <<chat, lastRead, listed, elsewhere, capped>>
        /\ Inbox!Incoming' = Inbox!Incoming
    BY <1>5 DEF Inbox!PageFails, Inbox!Leave, Inbox!Idle, Inbox!Incoming
  <2> QED
    BY <1>1, <2>1
<1>6. CASE Inbox!List
  <2>1. /\ scanAt = "list" /\ scanAt' = "listed" /\ listed' = listed \union unread
        /\ UNCHANGED <<chat, lastRead, since, from, page, unread, elsewhere, capped>>
        /\ Inbox!Incoming' = Inbox!Incoming
    BY <1>6 DEF Inbox!List, Inbox!Incoming
  <2> QED
    BY <1>1, <2>1
<1>7. CASE Inbox!MarkRead
  <2>1. /\ scanAt = "listed"
        /\ scanAt' = "idle" /\ since' = 0 /\ from' = 0 /\ page' = 0 /\ unread' = {}
        /\ UNCHANGED <<chat, listed, elsewhere, capped>>
        /\ Inbox!Incoming' = Inbox!Incoming
    BY <1>7 DEF Inbox!MarkRead, Inbox!Idle, Inbox!Incoming
  <2>2. PICK m \in unread : lastRead' = Inbox!Max({lastRead, m})
    BY <1>7 DEF Inbox!MarkRead
  <2>3. lastRead' \in {lastRead, m} /\ lastRead <= lastRead' /\ m \in Nat
    BY <1>1, <2>2, MaxOfTwo
  <2>4. NothingUnseenRead'
    <3> SUFFICES ASSUME NEW x \in Inbox!Incoming, x <= lastRead', ~(x <= lastRead)
                 PROVE  x \in listed \/ x <= elsewhere \/ x <= capped
      BY <2>1
    <3>1. x <= m
      BY <2>3
    <3>2. x \in unread \/ x <= since \/ x <= capped
      BY <2>1, <3>1
    <3> QED
      BY <1>1, <2>1, <3>2
  <2> QED
    BY <1>1, <2>1, <2>3, <2>4
<1>8. CASE UNCHANGED inboxVars
  <2>1. Inbox!Incoming' = Inbox!Incoming
    BY <1>8 DEF inboxVars, Inbox!Incoming
  <2> QED
    BY <1>8, <2>1 DEF inboxVars
<1> QED
  BY <1>2, <1>3, <1>4, <1>5, <1>6, <1>7, <1>8, PageReaches DEF Inbox!Next

\* Nothing is read, and no scan has begun.
LEMMA ScanInit ==
  ASSUME Inbox!Init
  PROVE  Inbox!TypeOK /\ ScanInv
<1>1. Inbox!Incoming = {} /\ Len(chat) = 0 /\ chat \in Seq({"in", "out"})
  BY DEF Inbox!Init, Inbox!Incoming
<1> QED
  BY <1>1, MachineAssumption
  DEF Inbox!Init, Inbox!TypeOK, ScanInv, NothingUnseenRead, Inbox!NothingUnseenRead

\* Every step keeps the types of the scan.
LEMMA InboxTypeNext ==
  ASSUME Inbox!TypeOK, ScanInv, [Inbox!Next]_inboxVars
  PROVE  Inbox!TypeOK'
<1>1. /\ Len(chat) \in Nat /\ DOMAIN chat = 1..Len(chat)
      /\ Inbox!Incoming \subseteq 1..Len(chat)
      /\ MaxPages \in Nat
  BY Numbers, MachineAssumption
<1>2. ASSUME NEW direction \in {"in", "out"}, Inbox!Arrive(direction)
      PROVE  Inbox!TypeOK'
  <2>1. /\ chat' \in Seq({"in", "out"}) /\ Len(chat') = Len(chat) + 1
        /\ Inbox!Incoming \subseteq Inbox!Incoming'
        /\ Len(chat) < MaxMsgs
        /\ UNCHANGED <<lastRead, scanAt, since, from, page, unread, listed, elsewhere, capped>>
    BY <1>2, Grows DEF Inbox!Arrive, Inbox!scan
  <2>2. Len(chat') <= MaxMsgs /\ 0..Len(chat) \subseteq 0..Len(chat')
    BY <1>1, <2>1, MachineAssumption
  <2> QED
    BY <2>1, <2>2 DEF Inbox!TypeOK
<1>3. ASSUME UNCHANGED chat,
             lastRead' \in 0..Len(chat),
             scanAt' \in {"idle", "page", "list", "listed"},
             since' \in 0..Len(chat), from' \in 0..Len(chat), page' \in 0..MaxPages,
             unread' \subseteq Inbox!Incoming, listed' \subseteq Inbox!Incoming,
             elsewhere' \in 0..Len(chat), capped' \in 0..Len(chat)
      PROVE  Inbox!TypeOK'
  <2>1. Inbox!Incoming' = Inbox!Incoming
    BY <1>3 DEF Inbox!Incoming
  <2> QED
    BY <1>3, <2>1 DEF Inbox!TypeOK
<1>4. CASE Inbox!ReadElsewhere
  <2>1. lastRead' = elsewhere' /\ lastRead' \in 0..Len(chat)
    BY <1>1, <1>4 DEF Inbox!ReadElsewhere, Inbox!TypeOK
  <2> QED
    BY <1>3, <1>4, <2>1 DEF Inbox!ReadElsewhere, Inbox!scan, Inbox!TypeOK
<1>5. CASE Inbox!Begin
  BY <1>3, <1>5 DEF Inbox!Begin, Inbox!TypeOK
<1>6. CASE Inbox!Page
  <2>1. PICK msgs \in Inbox!Pages :
          /\ unread' = unread \union {m \in msgs \cap Inbox!Incoming : m > since}
          /\ page' = page + 1
          /\ from' = IF msgs = {} THEN from ELSE Inbox!Min(msgs)
          /\ scanAt' \in {"list", "page"}
          /\ \/ capped' = capped
             \/ /\ msgs # {}
                /\ capped' = Inbox!Max({capped, Inbox!Min(msgs) - 1})
    BY <1>6 DEF Inbox!Page, Inbox!NoFurther
  <2>2. /\ scanAt = "page"
        /\ UNCHANGED <<chat, lastRead, since, listed, elsewhere>>
    BY <1>6 DEF Inbox!Page
  <2>3. page' \in 0..MaxPages
    BY <1>1, <2>1, <2>2 DEF ScanInv, Inbox!TypeOK
  <2>4. msgs # {} => Inbox!Min(msgs) \in 1..Len(chat)
    <3> SUFFICES ASSUME msgs # {} PROVE Inbox!Min(msgs) \in 1..Len(chat)
      OBVIOUS
    <3>1. PICK lo \in 1..Len(chat), hi \in 1..Len(chat) : lo <= hi /\ msgs = lo..hi
      BY PageIsNext
    <3>2. lo \in Nat /\ hi \in Nat
      BY <1>1
    <3> QED
      BY <3>1, <3>2, MaxOfInterval
  <2>5. from' \in 0..Len(chat)
    BY <1>1, <2>1, <2>4 DEF Inbox!TypeOK
  <2>6. capped' \in 0..Len(chat)
    <3>1. CASE capped' = capped
      BY <3>1 DEF Inbox!TypeOK
    <3>2. CASE msgs # {} /\ capped' = Inbox!Max({capped, Inbox!Min(msgs) - 1})
      <4>1. capped \in 0..Len(chat) /\ Inbox!Min(msgs) - 1 \in 0..Len(chat)
        BY <1>1, <2>4, <3>2 DEF Inbox!TypeOK
      <4>2. capped' \in {capped, Inbox!Min(msgs) - 1}
        BY <3>2, <4>1, MaxOfTwo
      <4> QED
        BY <4>1, <4>2
    <3> QED
      BY <2>1, <3>1, <3>2
  <2> QED
    BY <1>3, <2>1, <2>2, <2>3, <2>5, <2>6 DEF Inbox!TypeOK
<1>7. CASE Inbox!PageFails \/ Inbox!Leave
  <2>1. /\ scanAt' = "idle" /\ since' = 0 /\ from' = 0 /\ page' = 0 /\ unread' = {}
        /\ UNCHANGED <<chat, lastRead, listed, elsewhere, capped>>
    BY <1>7 DEF Inbox!PageFails, Inbox!Leave, Inbox!Idle
  <2> QED
    BY <1>1, <1>3, <2>1 DEF Inbox!TypeOK
<1>8. CASE Inbox!List
  BY <1>3, <1>8 DEF Inbox!List, Inbox!TypeOK
<1>9. CASE Inbox!MarkRead
  <2>1. PICK m \in unread : lastRead' = Inbox!Max({lastRead, m})
    BY <1>9 DEF Inbox!MarkRead
  <2>2. lastRead \in 0..Len(chat) /\ m \in 0..Len(chat)
    BY <1>1 DEF Inbox!TypeOK
  <2>3. lastRead' \in {lastRead, m}
    BY <2>1, <2>2, MaxOfTwo
  <2>4. lastRead' \in 0..Len(chat)
    BY <2>2, <2>3
  <2> QED
    BY <1>1, <1>3, <1>9, <2>4 DEF Inbox!MarkRead, Inbox!Idle, Inbox!TypeOK
<1>10. CASE UNCHANGED inboxVars
  BY <1>3, <1>10 DEF inboxVars, Inbox!TypeOK
<1> QED
  BY <1>2, <1>4, <1>5, <1>6, <1>7, <1>8, <1>9, <1>10 DEF Inbox!Next

\* The scan is right at every step.
LEMMA ScanCorrect ==
  Inbox!Init /\ [][Inbox!Next]_inboxVars => [](Inbox!TypeOK /\ ScanInv)
  BY ScanInit, ScanNext, InboxTypeNext, PTL

-----------------------------------------------------------------------------
(* The machine.                                                            *)

\* The proofs about the installer, of the machine's.
Proved == INSTANCE InstallerProofs WITH file <- registry

\* The machine's installer is the one they are about: each definition is the same.
LEMMA SameInstaller ==
  /\ Installer!Init <=> Proved!Init
  /\ Installer!Next <=> Proved!Next
<1>1. Installer!Init <=> Proved!Init
  BY DEF Installer!Init, Proved!Init, Installer!Nothing, Proved!Nothing,
         Installer!Missing, Proved!Missing
<1>2. Installer!Next <=> Proved!Next
  BY DEF Installer!Requires, Proved!Requires, Installer!Dependents,
         Proved!Dependents, Installer!Missing, Proved!Missing, Installer!Empty,
         Proved!Empty, Installer!Broken, Proved!Broken, Installer!Registry,
         Proved!Registry, Installer!Nothing, Proved!Nothing,
         Installer!files, Proved!files, Installer!Move, Proved!Move, Installer!Leaves,
         Proved!Leaves, Installer!Run, Proved!Run, Installer!Load, Proved!Load,
         Installer!LoadFails, Proved!LoadFails, Installer!Seed, Proved!Seed,
         Installer!SeedNotSaved, Proved!SeedNotSaved, Installer!Truncate,
         Proved!Truncate, Installer!Write, Proved!Write, Installer!Change,
         Proved!Change, Installer!NewlyInstalled, Proved!NewlyInstalled,
         Installer!Removed, Proved!Removed, Installer!PlanInstall,
         Proved!PlanInstall, Installer!PlanUninstall, Proved!PlanUninstall,
         Installer!NothingToDo, Proved!NothingToDo, Installer!Finish,
         Proved!Finish, Installer!Current, Proved!Current, Installer!Done,
         Proved!Done, Installer!EnsureDaemon, Proved!EnsureDaemon,
         Installer!Begin, Proved!Begin, Installer!Copies, Proved!Copies,
         Installer!Open, Proved!Open, Installer!Copy, Proved!Copy,
         Installer!Rename, Proved!Rename, Installer!FetchFails,
         Proved!FetchFails, Installer!Service, Proved!Service,
         Installer!Deactivate, Proved!Deactivate, Installer!Kill, Proved!Kill,
         Installer!Next, Proved!Next
<1> QED
  BY <1>1, <1>2

\* So are its properties.
LEMMA SameProperties ==
  /\ Installer!TypeOK <=> Proved!TypeOK
  /\ RequirementsRecorded <=> Proved!RequirementsRecorded
  /\ WholeBinary <=> Proved!WholeBinary
<1>1. Installer!TypeOK <=> Proved!TypeOK
  BY DEF Installer!TypeOK, Proved!TypeOK, Installer!Registry, Proved!Registry,
         Installer!Missing, Proved!Missing, Installer!Empty, Proved!Empty,
         Installer!Broken, Proved!Broken, Installer!Command, Proved!Command
<1>2. RequirementsRecorded <=> Proved!RequirementsRecorded
  BY DEF RequirementsRecorded, Installer!RequirementsRecorded,
         Proved!RequirementsRecorded, Installer!Requires, Proved!Requires,
         Installer!Registry, Proved!Registry
<1>3. WholeBinary <=> Proved!WholeBinary
  BY DEF WholeBinary, Installer!WholeBinary, Proved!WholeBinary,
         Installer!Installers, Proved!Installers,
         Installer!Cardinality, Proved!Cardinality
<1> QED
  BY <1>1, <1>2, <1>3

\* A step of the machine is one of a part, and the others stand still.
LEMMA EachPart ==
  ASSUME [MNext]_machineVars
  PROVE  /\ [RNext]_allVars
         /\ [Proved!Next]_(Proved!vars)
         /\ [Inbox!Next]_inboxVars
  BY SameInstaller
  DEF MNext, machineVars, allVars, installerVars, inboxVars, Proved!vars, Proved!files

\* Each part starts as it does by itself.
LEMMA EachInit ==
  ASSUME MInit
  PROVE  RInit /\ Proved!Init /\ Inbox!Init
  BY SameInstaller DEF MInit

\* The machine's assumption is what the proofs about the installer suppose.
LEMMA InstallerSound == Proved!Sound /\ Proved!IsFiniteSet(Procs)
  BY MachineAssumption
  DEF Proved!Sound, Proved!Command, Installer!Command, IsFiniteSet, Proved!IsFiniteSet

\* The parts do not interfere: a behaviour of the machine is one of each.
LEMMA EachSpec ==
  MSpec => /\ RSpec
           /\ Proved!Spec
           /\ Inbox!Init /\ [][Inbox!Next]_inboxVars
  BY EachInit, EachPart, PTL DEF MSpec, RSpec, Proved!Spec

\* Every variable of every part keeps its type.
THEOREM TypesCorrect == MSpec => []TypesOK
<1>1. RSpec => []RTypeOK
  BY RTypeCorrect
<1>2. Proved!Spec => []Proved!TypeOK
  BY InstallerSound, Proved!TypeCorrect
<1>3. RTypeOK /\ Proved!TypeOK /\ Inbox!TypeOK => TypesOK
  BY SameProperties DEF TypesOK
<1> QED
  BY <1>1, <1>2, <1>3, ScanCorrect, EachSpec, PTL

\* components.go:64-99: however many processes install and uninstall, fail and
\* are killed, a component is never recorded without what it requires.
THEOREM RequirementsStayRecorded == MSpec => []RequirementsRecorded
<1>1. Proved!Spec => []Proved!RequirementsRecorded
  BY InstallerSound, Proved!RequirementsAreRecorded
<1> QED
  BY <1>1, SameProperties, EachSpec, PTL

\* install.go:452, "atomic replace": whatever fails and is killed, as long as one
\* process at a time installs no binary is a part of a download.
THEOREM BinariesStayWhole == MSpec => []WholeBinary
<1>1. Proved!Spec => []Proved!WholeBinary
  BY InstallerSound, Proved!BinariesAreWhole
<1> QED
  BY <1>1, SameProperties, EachSpec, PTL

\* unread.go:75-106: however messages come, are sent and are read elsewhere while
\* a chat is paged through, however few messages a page has, and whichever of the
\* messages found are marked, a message that is read was listed, was read
\* elsewhere, or lies beyond the last page.
THEOREM NothingUnseenIsRead == MSpec => []NothingUnseenRead
<1>1. ScanInv => NothingUnseenRead
  BY DEF ScanInv
<1> QED
  BY <1>1, ScanCorrect, EachSpec, PTL
=============================================================================
