----------------------------- MODULE Recipient -----------------------------
(***************************************************************************)
(* Whom a message goes to: what the daemon's connections (handleIPC,       *)
(* recipient, resolveChat, ...) and the `zc wa' commands (resolveWA) make   *)
(* of what their callers address, while the directory changes under them.  *)
(*                                                                         *)
(* A caller gives an address of the transport, which is used as it is, or  *)
(* a name.  The directory is read in one statement; what was found is used *)
(* later, when the transport is called.                                    *)
(***************************************************************************)
EXTENDS Contacts

CONSTANTS
  Conns,   \* connections of the daemon, and `zc wa' commands
  Kind     \* per value of the channel fields and transport: what its address is

\* Transports, and the way of the commands of `zc wa', which look names up
\* themselves and address the daemon's WhatsApp transport.
Routes == {"telegram", "whatsapp", "instagram", "wa"}

ByName    == [route : Routes, by : {"name"}, name : Tokens]
ByAddress == [route : Routes, by : {"address"}, name : {CHOOSE t \in Tokens : TRUE}]
Requests  == ByName \union ByAddress

\* Whom a message is about to reach: the owner of a contact's channel fields; an
\* account of the transport itself, which is the caller's address or has the
\* name for its public handle; or nobody, and the caller gets an error.
Contacted(v)  == [whom |-> "contact", channels |-> {v}]
Stranger      == [whom |-> "stranger", channels |-> {}]
AsAddressed   == [whom |-> "address", channels |-> {}]
Refused       == [whom |-> "nobody", channels |-> {}]

Targets == {Contacted(v) : v \in Channels} \union {Stranger, AsAddressed, Refused}

VARIABLES
  stage,    \* per connection: whether it resolves, calls, or is idle
  request,  \* what it was asked
  target    \* whom it found

connVars == <<stage, request, target>>
allVars == <<vars, connVars>>

NoRequest == [route |-> "telegram", by |-> "address",
              name |-> CHOOSE t \in Tokens : TRUE]

RInit ==
  /\ Init
  /\ stage = [k \in Conns |-> "idle"]
  /\ request = [k \in Conns |-> NoRequest]
  /\ target = [k \in Conns |-> Refused]

-----------------------------------------------------------------------------
(* Resolution, of a name n against contacts found.                         *)

\* Wrong: whoever has the name for a username comes before the directory.
TelegramPublicFirst(n, found) ==
  {Stranger} \union
  {IF Kind[rows[i].channels]["telegram"] = "handle"
   THEN Contacted(rows[i].channels) ELSE Refused : i \in found}

\* telegramHandleFor: the contact's handle; a phone number cannot be looked up.
\* No contact: the name is tried as a public username.
Telegram(n, found) ==
  IF found = {} THEN {Stranger}
  ELSE {IF Kind[rows[i].channels]["telegram"] = "handle"
        THEN Contacted(rows[i].channels) ELSE Refused : i \in found}

\* resolveWhatsApp: a number, the phone's if need be.
WhatsApp(n, found) ==
  IF found = {} THEN {Refused}
  ELSE {IF Kind[rows[i].channels]["whatsapp"] = "none" THEN Refused
        ELSE Contacted(rows[i].channels) : i \in found}

\* resolveInstagram: a handle; no contact, and the name is passed on.
Instagram(n, found) ==
  IF found = {} THEN {Stranger}
  ELSE {IF Kind[rows[i].channels]["instagram"] = "none" THEN Refused
        ELSE Contacted(rows[i].channels) : i \in found}

\* contactFor, in each of them: several matches are an error, and an error of
\* the store counts as no match.
InDaemon(route, n, readable) ==
  LET found == IF readable THEN Resolve(n) ELSE {} IN
    IF Cardinality(found) > 1 THEN {Refused}
    ELSE CASE route = "telegram" -> Telegram(n, found)
           [] route = "whatsapp" -> WhatsApp(n, found)
           [] OTHER              -> Instagram(n, found)

\* resolveWA takes the first match, and an exact one comes first; an error is an
\* error.
InCommand(n, readable) ==
  IF ~readable THEN {Refused}
  ELSE WhatsApp(n, IF Exact(n) # {} THEN Exact(n) ELSE Begun(n))

Found(r, readable) ==
  IF r.by = "address" THEN {AsAddressed}
  ELSE IF r.route = "wa" THEN InCommand(r.name, readable)
  ELSE InDaemon(r.route, r.name, readable)

-----------------------------------------------------------------------------
(* A connection.                                                           *)

Stage(k, from, to) == stage[k] = from /\ stage' = [stage EXCEPT ![k] = to]

Asked(k, r) ==
  /\ Stage(k, "idle", "resolve")
  /\ request' = [request EXCEPT ![k] = r]
  /\ UNCHANGED <<vars, target>>

\* recipient or resolveChat, over the directory as it is now.  Nobody: the
\* caller gets an error, and the connection is closed.
Look(k, readable) ==
  /\ \E x \in Found(request[k], readable) :
       /\ target' = [target EXCEPT ![k] = x]
       /\ Stage(k, "resolve", IF x = Refused THEN "idle" ELSE "call")
  /\ request' = [request EXCEPT ![k] = NoRequest]
  /\ UNCHANGED vars

\* The transport is called; its account may not exist, or the transport fail.
\* The caller gets its answer in any case, and the connection is closed.
Call(k) ==
  /\ Stage(k, "call", "idle")
  /\ target' = [target EXCEPT ![k] = Refused]
  /\ UNCHANGED <<vars, request>>

Directory == Next /\ UNCHANGED connVars

RNext ==
  \/ Directory
  \/ \E k \in Conns :
       \/ \E r \in Requests : Asked(k, r)
       \/ \E readable \in BOOLEAN : Look(k, readable)
       \/ Call(k)

RSpec == RInit /\ [][RNext]_allVars

-----------------------------------------------------------------------------
(* Safety.                                                                 *)

\* Every variable has its type.
RTypeOK ==
  /\ TypeOK
  /\ stage \in [Conns -> {"idle", "resolve", "call"}]
  /\ request \in [Conns -> Requests]
  /\ target \in [Conns -> Targets]

\* daemon.go:284, "the owner's own directory outranks whoever happens to hold
\* that public username": while the directory can be read, a message to the name
\* or alias of a contact is for that contact, or for nobody.
DirectoryOutranks ==
  [][\A k \in Conns, i \in DOMAIN rows :
       Look(k, TRUE) /\ request[k].by = "name"
         /\ request[k].name \in TokensOf(rows[i]) =>
       target'[k] \in {Refused, Contacted(rows[i].channels)}]_allVars
=============================================================================
