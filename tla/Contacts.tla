------------------------------ MODULE Contacts ------------------------------
(***************************************************************************)
(* The contacts directory (internal/comms/contacts/store.go, its IPC ops   *)
(* and the `zc contacts' commands).  Writers are IPC connections of the    *)
(* daemon and CLI processes: they share one SQLite file, each statement is *)
(* atomic and no operation is a transaction.                               *)
(*                                                                         *)
(* A token is a trimmed, lower-case spelling of a name or an alias; the    *)
(* channel fields are one opaque value.  Aliases are stored in one column, *)
(* one per line, so an alias that has line breaks in it is read back as    *)
(* several: Lines says as which.                                           *)
(***************************************************************************)
EXTENDS Naturals, FiniteSets, FiniteSetsExt

CONSTANTS
  Writers,    \* connections and processes that write the directory
  Tokens,     \* spellings
  Lines,      \* per token: the aliases it is read back as
  Prefixes,   \* pairs <<p, t>>: spelling t starts with spelling p
  Channels,   \* values of the channel fields
  MaxId       \* bound: ids in use

ASSUME ContactsAssumption ==
  /\ Tokens # {}
  /\ Channels # {}
  /\ Lines \in [Tokens -> SUBSET Tokens]
  /\ Prefixes \subseteq Tokens \X Tokens
  /\ MaxId \in Nat

Ids == 1..MaxId

VARIABLES
  rows,   \* the table: contacts by id
  pc,     \* where each writer is
  row,    \* the contact it writes
  id      \* under which id, 0 for a new one

vars == <<rows, pc, row, id>>

Contact == [name : Tokens, aliases : SUBSET Tokens, channels : Channels]

NoContact ==
  [name |-> CHOOSE t \in Tokens : TRUE, aliases |-> {},
   channels |-> CHOOSE v \in Channels : TRUE]

Init ==
  /\ rows = [i \in {} |-> NoContact]
  /\ pc = [w \in Writers |-> "idle"]
  /\ row = [w \in Writers |-> NoContact]
  /\ id = [w \in Writers |-> 0]

-----------------------------------------------------------------------------
(* Reading.                                                                *)

\* Wrong: the column is not split.
StoredUnsplit(c) == [c EXCEPT !.aliases = {Lines[t] : t \in c.aliases}]

\* joinAliases then splitAliases: what a column of aliases is read back as.
Stored(c) == [c EXCEPT !.aliases = UNION {Lines[t] : t \in c.aliases}]

TokensOf(c) == {c.name} \union c.aliases

\* Resolve: contacts called n come first, then those whose name or alias n
\* begins.
Exact(n)   == {i \in DOMAIN rows : n \in TokensOf(rows[i])}
Begun(n)   == {i \in DOMAIN rows \ Exact(n) :
                 \E t \in TokensOf(rows[i]) : <<n, t>> \in Prefixes}
Resolve(n) == Exact(n) \union Begun(n)

\* Wrong: compares names only.
EnsureUniqueNames(i, c) ==
  /\ c.name \notin c.aliases
  /\ \A j \in DOMAIN rows \ {i} : c.name # rows[j].name

\* ensureUnique, for a contact to be written under id i.
EnsureUnique(i, c) ==
  /\ c.name \notin c.aliases
  /\ \A j \in DOMAIN rows \ {i} : TokensOf(c) \cap TokensOf(rows[j]) = {}

-----------------------------------------------------------------------------
(* Writing.                                                                *)

Prepare(w, i, c) ==
  /\ pc' = [pc EXCEPT ![w] = "check"]
  /\ row' = [row EXCEPT ![w] = c]
  /\ id' = [id EXCEPT ![w] = i]
  /\ UNCHANGED rows

Fields == {"name", "aliases", "channels"}

Create(w, c) ==
  /\ pc[w] = "idle"
  /\ Prepare(w, 0, c)

\* `contacts edit': read the row, change the fields given, write it all back.
\* UpdateContact's callers do the same over two requests.
Edit(w, i, c, fields) ==
  /\ pc[w] = "idle"
  /\ i \in DOMAIN rows
  /\ LET Patched(f) == IF f \in fields THEN c[f] ELSE rows[i][f] IN
       Prepare(w, i, [name |-> Patched("name"), aliases |-> Patched("aliases"),
                      channels |-> Patched("channels")])

\* Upsert: under the id of a contact of that name, or as a new one.
Upsert(w, c) ==
  /\ pc[w] = "idle"
  /\ \/ \E i \in Exact(c.name) :
          rows[i].name = c.name /\ Prepare(w, i, c)
     \/ /\ \A i \in Exact(c.name) : rows[i].name # c.name
        /\ Prepare(w, 0, c)

\* ensureUnique reads the whole directory ...
Check(w) ==
  /\ pc[w] = "check"
  /\ pc' = [pc EXCEPT ![w] =
              IF EnsureUnique(id[w], row[w]) THEN "write" ELSE "idle"]
  /\ UNCHANGED <<rows, row, id>>

\* The id SQLite gives a new row: one more than the largest in use.
NextId == IF DOMAIN rows = {} THEN 1 ELSE Max(DOMAIN rows) + 1

\* ... and a second statement writes.
Insert(w) ==
  /\ pc[w] = "write"
  /\ id[w] = 0
  /\ NextId \in Ids
  /\ rows' = [i \in DOMAIN rows \union {NextId} |->
                IF i = NextId THEN Stored(row[w]) ELSE rows[i]]
  /\ pc' = [pc EXCEPT ![w] = "idle"]
  /\ UNCHANGED <<row, id>>

\* An UPDATE of an id that is gone affects no row: an error, and no change.
Update(w) ==
  /\ pc[w] = "write"
  /\ id[w] # 0
  /\ rows' = [i \in DOMAIN rows |->
                IF i = id[w] THEN Stored(row[w]) ELSE rows[i]]
  /\ pc' = [pc EXCEPT ![w] = "idle"]
  /\ UNCHANGED <<row, id>>

Delete(w, i) ==
  /\ pc[w] = "idle"
  /\ rows' = [j \in DOMAIN rows \ {i} |-> rows[j]]
  /\ UNCHANGED <<pc, row, id>>

\* A statement fails, the file being locked for five seconds, or the process
\* ends: no row changes.
Fail(w) ==
  /\ pc[w] # "idle"
  /\ pc' = [pc EXCEPT ![w] = "idle"]
  /\ UNCHANGED <<rows, row, id>>

Write(w) == Check(w) \/ Insert(w) \/ Update(w) \/ Fail(w)

Next ==
  \E w \in Writers :
    \/ \E c \in Contact : Create(w, c) \/ Upsert(w, c)
    \/ \E i \in Ids, c \in Contact, fields \in SUBSET Fields :
         Edit(w, i, c, fields)
    \/ Write(w)
    \/ \E i \in Ids : Delete(w, i)

Spec == Init /\ [][Next]_vars

-----------------------------------------------------------------------------
(* Safety.                                                                 *)

\* Every variable has its type.
TypeOK ==
  /\ DOMAIN rows \subseteq Ids
  /\ \A i \in DOMAIN rows : rows[i] \in Contact
  /\ pc \in [Writers -> {"idle", "check", "write"}]
  /\ row \in [Writers -> Contact]
  /\ id \in [Writers -> 0..MaxId]

\* store.go:222: "no name or alias may be shared", neither between two contacts
\* nor between a contact's name and its aliases.
NoSharedToken ==
  \A i \in DOMAIN rows :
    /\ rows[i].name \notin rows[i].aliases
    /\ \A j \in DOMAIN rows \ {i} :
         TokensOf(rows[i]) \cap TokensOf(rows[j]) = {}

-----------------------------------------------------------------------------
(* Claims of the repository that the code does not keep.                   *)

\* store.go:222, "the directory-wide rule that no name or alias may be shared":
\* two writers can both pass the check before either writes.
NoSharedTokenEver == NoSharedToken
=============================================================================
