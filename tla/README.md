# zcoms in TLA+

zcoms is a messaging layer in Go: a daemon that owns the Telegram, WhatsApp and
Instagram connections of one account, a CLI (`zc`), and a client library over
which other programs send messages, ask questions and subscribe to what comes
in. This directory holds TLA+ models of it, TLC configurations that check them
on small instances, and theorems about them with proofs for TLAPS.
`PROJECT.json` lists the components, the runs, the source lines behind every
definition (`map`), a deliberate mistake for every property (`mutants`), the
places where the code is hard to test (`hazards`) and where it does not do what
it says (`findings`).

## 1. The system

| Component | State it keeps | Operations | Interacts with |
|---|---|---|---|
| **Message hub** `internal/comms/hub` (daemon.go, ipc_server.go, subscribe.go, telegram_transport.go) | `inbound` channel of 256; `pendingAsk`, per user a queue of waiters; `subscribers`, per role a set of 64-slot channels | a receive loop per transport, one consumer, one goroutine per IPC connection: `ask`, `subscribe`, pass-through ops | transports push messages; clients connect over a Unix socket |
| **TDLib dispatcher** `internal/comms/telegram` (request.go, updates.go, tdjson_*.go) | the map of dispatchers; per dispatcher `pending` (tag to one-slot channel), a 1024-slot `updates` channel, `stopCh`; `receiveMu` | `SendRequestAndWait`, the receive loop, `ReceiveUpdates`, `Close`, re-open | TDLib through `td_send` and `td_receive` |
| **Contacts directory** `internal/comms/contacts/store.go`, `hub/contacts.go`, `cmd/contacts.go` | one SQLite table | create, edit, upsert, delete, lookup | daemon and CLI processes write the same file; the hub resolves recipients with it |
| **Recipient resolution** `hub/daemon.go`, `hub/ipc_server.go`, `cmd/wa.go` | none | a name or an address becomes an account of a transport | reads the directory, calls the transport |
| **Unread scan** `telegram/unread.go`, `hub/media.go` | none | page through a chat, list what is unread, mark it read | Telegram, which keeps one last-read message per chat |
| **Sender names** `hub/daemon.go` | cache of @handles by user | look up, fall back to a display name | the Telegram receive loop |
| **WhatsApp transport** `internal/comms/whatsapp` | status, QR code, client, message store | Start, repair, logout, QR consumer, event handler, `unread`/`mark_read` | whatsmeow's callbacks, the hub's inbound channel |
| **Instagram transport** `internal/comms/instagram` | status, config, encrypted session, message store | Start, login/code/logout actions, poll loop with back-off | the sidecar over HTTP, the inbound channel |
| **Instagram sidecar** `contrib/instagram-sidecar/app.py` | client, pending login or challenge | login, code, restore, dump, logout, threads, send | Instagram |
| **Telegram session** `telegram/authentication.go`, `auth_helpers.go`, `init.go`, `cmd/sign_in.go`, `sign_out.go` | authorization state, `config.json` | phone, code, password, log out, identity | TDLib through the dispatcher, which it closes and re-opens |
| **Telegram operations** `telegram/user.go`, `media.go`, `unread.go`, `chats.go`, `chat.go`, `chat_history.go` | none | request builders, pagination, text chunking | the dispatcher |
| **Client library** `client/` | a connection per request | one request, one response; a subscription | the daemon's socket |
| **Harness** `client/harness.go` | none | subscribe and reconnect, serve commands | client library |
| **Components and installer** `internal/components`, `cmd/install.go` | `components.json`, binaries, service units | install with dependencies, uninstall with dependents | GitHub releases, systemd |
| **Configuration** `internal/config` | `config.json`, credentials | load, modify, save | daemon and CLI processes |
| **CLI** `cmd/` | none of its own | chat, ask, follow, download, ... | client library or, in direct mode, the dispatcher |
| **Legacy WhatsApp sidecar client** `whatsapp/client.go` | none | HTTP requests | a sidecar |

What is hard in it, and what makes each part correct:

- **Hub.** The consumer pops a waiter under a lock and sends to it after the
  unlock, while the waiter's client may disconnect; a snapshot of the
  subscribers is used after the unlock; every channel can be full. Correct
  means: a message is handled once; the right ask gets it; a client that does
  not read or has gone stops nobody else; nothing of it stays behind.
- **Dispatcher.** A reply, a timeout and a close race for one table entry; the
  updates channel is emptied by its reader while the loop makes room in it; an
  old receive loop overlaps the new one. Correct means: a call gets its own
  reply or a timeout; the loop never stops; updates are lost only by overflow,
  the oldest first.
- **Contacts.** Check and write are separate statements, and several processes
  run them. Correct means: names and aliases stay unique, a message addressed to
  a name never reaches somebody else, an edit changes what it was told to.
- **Transports.** Login, logout, polling and callbacks set one status from
  several goroutines; a message is stored and then emitted. Correct means: the
  status tells the truth once things are quiet, each message is emitted once.
- **Recipients.** A name may be a contact's, a stranger's public username, or
  both, and the directory changes between lookup and use. Correct means: a
  message for a contact goes to that contact or to nobody.
- **Unread scan.** Messages come and go while pages are fetched, and marking one
  read marks all older ones. Correct means: what is marked was listed.
- **Session, configuration, installer.** Multi-step operations that fail half
  way, and files that several processes load, change and save without a lock.
  Correct means: a login whose prompts are answered ends, a remote logout is
  noticed, the registry never holds a component without what it requires, a
  service never starts half a binary.
- **Harness.** A read that nothing interrupts, and a socket name shared by two
  instances. Correct means: a component that is told to stop stops.

## 2. Plan

All of these are done, in this order of importance:

1. `Hub`, with `MessageRouter` as its abstract specification (`HubRefinement`).
2. `Dispatcher`.
3. `Contacts`, and `Recipient` on top of it.
4. `Instagram`, the transport with its sidecar.
5. `WhatsAppLink` (status against whatsmeow's callbacks and QR goroutines) and
   `WhatsAppMessages` (deliveries, downloads, store, receipts).
6. `Session`: authorization, sign-in, sign-out and `config.json`, as several
   processes share them.
7. `Harness`, the other end of `Hub`'s subscriptions, and the command socket.
8. `Installer`, and `Inbox`, the unread scan with its pagination.
9. Proofs, of the same modules in the same order (section 5).

Left for later: a module for the cache of sender names; the types of `Harness`
and the invariants that stand behind `Session`'s liveness.

Modules of parts that share nothing are composed and checked by one run where
each is small: `WhatsApp` composes `WhatsAppLink` and `WhatsAppMessages`;
`Machine` composes `Recipient` (with `Contacts`), `Installer` and `Inbox`;
`MCSession` composes `Session` and `Harness`. The initial state chooses which part
moves, and the others stand still, so that a behaviour of the composition is a
behaviour of one part.

A module `XProofs` holds the theorems about `X`: `MachineProofs` those about
`Contacts`, `Recipient` and `Inbox`, which `Machine` composes, and
`HubRefinementProofs` those about the streams of `Hub` and its refinement.

## 3. The models

### Hub

One behaviour interleaves the receive loops, the consumer and the connection
handlers. A step is what a goroutine does between two points where another one
can tell the difference: a channel operation, a lock, a network call. A message
is `[id, via, from]`; ids number messages in the order the receive loops accept
them, and what a message says does not decide where it goes.

| Model | Code |
|---|---|
| `Receive`, `PushInbound`, `DropInbound` | the transports' receive loops: the push onto `inbound`, and the five-second timeout when it is full |
| `Take` | `consumeInbound` |
| `ResolvePendingAsk`, `SendReply` | `resolvePendingAsk`: pop under `mu`, send after the unlock |
| `Snapshot`, `PushEvent`, `Broadcasted` | `broadcast`: copy under `subMu`, then a non-blocking push to each channel |
| `AskResolve`, `AskSend`, `AskListen`, `AskFail`, `AskRegister` | the `ask` op up to its `select`; the waiter is registered after the send has returned |
| `AskReply`, `AskGone`, `RemovePending` | the two branches of the `select` and `removePending` |
| `Subscribe`, `WriteEvent`, `SeeDone`, `RemoveSubscriber` | `serveSubscription` |
| `AskClientLeaves`, `SubClientLeaves` | the client closes its end |

`askedAt`, `answer`, `askOrder`, `published`, `joinedAt` and `missed` are
history: no action reads them. `MessageRouter` says what the hub promises
without channels or goroutines: an accepted message is undecided until it
answers one ask, is appended to one log, or is lost; a reader of the log only
moves forward. `HubRefinement` maps the hub onto it.

Left out: the fields and media of a message, outgoing and group messages (the
same handlers skip them), and the pass-through ops, which keep no hub state. Time
passes without being measured: the five seconds of a full channel may elapse as
soon as it is full.

### Dispatcher

Dispatchers are numbered as they are made, because the process has one at a time
and `td_receive` is one queue whoever calls it. `Call` groups the steps of
`SendRequestAndWait` (register, send, wait, the deferred delete), `Loop` those of
the receive loop: look at `stopCh`, take `receiveMu`, receive, route, hand the
reply over after the unlock, or push an update, evicting the oldest when the
channel is full. `TakeUpdate` empties the channel at the same time. `TdReply` and
`TdUpdate` are TDLib: replies in any order, however late, and spontaneous updates.

Tags: the logical part a caller chooses is taken to be the same for all, as for
repeated calls of one function, so only the sequence number tells calls apart.
That is the hardest case. `WaitForUpdateType` has no caller and reads updates as
`ReceiveUpdates` does. A dispatcher is closed only between calls or under one
whose caller gives up, as in `sign_in.go`.

### Contacts

A writer is an IPC connection or a CLI process; each SQL statement is one step
and no operation is a transaction. A token is a trimmed, lower-case spelling.
`Stored` is what the alias column is read back as: aliases are joined by line
breaks and split again, so the constant `Lines` says which aliases one alias
turns into. `Prefixes` says which spelling begins which. `Resolve` is
the lookup that `Recipient` sends a message to a name through. The channel fields
are one value; the caller argument of the store is ignored by the code, and by
the model.

### Instagram

The transport and the sidecar in one module, since the sidecar is a session and
a pending login behind HTTP calls. Messages are the numbers of their arrival,
sessions the numbers of the logins that made them.

| Model | Code |
|---|---|
| `Start`, `Action` | `Start` up to the login; the actions `login`, `code_*`, `logout`, each in the goroutine of its connection |
| `Load`, `Restore` | `tryRestore` against `/settings`; the sidecar accepts a session it could not try |
| `Unconfigured`, `Unreached`, `BeginLogin`, `EndLogin` | `startLogin` and the sidecar's `/login`, which forgets the pending login first |
| `BeginVerify`, `EndVerify` | `SubmitCode` and `/login/verify` |
| `Apply`, `Dump`, `Save` | `applyLoginResult`, then `persistSession`: read the sidecar's session, write `session.enc` |
| `Logout`, `Clear`, `Down` | the logout action: sidecar, file, status, the first two tried only |
| `Tick`, `FetchAnswered`, `FetchFailed`, `Lapse` | `pollLoop` and the call of `/threads`; a 401 ends in `session_expired` |
| `Store`, `NotStored`, `Scanned`, `Emit` | `pollOnce`: insert or ignore, and push what was new |
| `Send`, `StoreSent`, `MarkRead`, `HubTakes` | the other users of the store and of the channel |
| `Expire`, `Arrive`, `SidecarRestarts`, `DaemonRestarts` | Instagram and the machine |

Each call of the sidecar may fail or lose its answer after it took effect. A
restart of the daemon keeps the store and the saved session, a restart of the
sidecar nothing. A restart of the daemon also ends the call it waited for: that
a login of the old process may still succeed in the sidecar is left out. Group
messages, which the poll skips, the pace of the poll, and what messages say are
abstracted. `Recent` is what a poll is shown, ten messages a thread in the code.

What the sidecar's library raises when nobody is logged in is not in this
repository. If it is `LoginRequired`, a poll after a restart of the sidecar
notices; if it is anything else, the transport goes on showing connected. The
model allows both (`FetchFailed`), so `DeadSessionNoticed` speaks only of a
session the sidecar holds and Instagram does not accept.

### Recipient

Extends `Contacts`: writers change the directory while connections of the daemon
(routes telegram, whatsapp, instagram) and `zc wa` commands resolve names.
`Asked` is the request, `Look` is `recipient`/`resolveChat` with the lookup it
makes, `Call` the transport. `Kind` says what address of a transport a contact's
channel fields hold: a handle, a phone number or none. `Look(k, FALSE)` is a store
that cannot be read: the daemon takes it for no match, `zc wa` for an error. An
address (an id, an @handle, a number) is used as it is.

### WhatsAppLink and WhatsAppMessages

The transport in two modules, since status and messages share nothing but the
database. In `WhatsAppLink` each goroutine has a place: that of `Start`, those of
the actions `reconnect` and `logout` (`Repair` ... `ShowDown`), one `consumeQR`
per QR channel (`Code`, `Last`), and `handleEvent`, whose `Disconnected` case
reads the status under one lock and writes it under another (`Disconnected`,
`ShowDropped`). What whatsmeow does (`Pair`, `GiveUp`, `Accept`, `Drop`, `Relink`,
`Revoke`) is taken from how the code uses it and marked external.

`WhatsAppMessages` follows a delivery through `handleEvent`: `Deliver`; `Download`,
which truncates the file of that name, and `WriteFile`, which writes it whole or
breaks off; `Store` (insert or ignore); `Emit` (dropped when the channel stays
full). What broke off, or was being written at a restart, is left `Partial` on the
disk. A message may be delivered again, under its phone number or
under a LID. `Send` and `StoreSent` are two steps, so that a restart can come
between them. An insert may fail: the code swallows the error. `Listed` and
`MarkRead` are the hub's two operations.

### Session

Every command of `zc`, the daemon among them, loads `config.json`, saves it at
once, and may open TDLib's database, which one process at a time can. A save is
`Truncate` and then `Created` or `Save`; `Written` says what two writers leave
behind, a configuration or no JSON. `Guard` is `requireNoDaemon` and its like;
`Enter`, `Rejected`, `LoggedIn`, `Sleeps`, `Unanswered`, `Renew` are a round of the
login loop, where the authorization state "other" is any that the code has no case
for: the loop sleeps and asks again, until TDLib fails to answer or the owner does
what is wanted elsewhere (`DoneElsewhere`); `LogOut`,
`Clear`, `Remove` are `zc tg logout` (with and without `--hard`); `Expire`,
`NotMarked` and the saving places under `marking` are the daemon told of a remote
logout. `Revoke` and `Kill` come from outside. Commands are classes: `send` stands
for those that sign in on the way, `direct` for those that need a session,
`other` for the rest.

### Harness

An instance of a component has two goroutines, `Run` (`Subscribe`, `Event`,
`Handled`, `Unblock`, `Dropped`, `Wait`) and `ServeCommands` (`RemoveStale`,
`Listen`, `Close`, `RemoveSocket`); `path` is the instance the socket's name leads
to. `Dial`, `Serve`, `Lost`, `TimesOut` and `Returns` are `ModuleCommand` in a
command of `zc`.

### Installer

A process loads `components.json`, or seeds it, plans (`PlanInstall`,
`PlanUninstall`), saves all of it, and then takes the changed components one by
one: `Begin`, `Open`, `Copy`, `Rename`, `FetchFails`, `Service`, `Deactivate`. Each
file operation is a step, a process may be killed at any of them, and nothing is
undone. `Requires` is the catalogue's, where no requirement has requirements.

### Inbox

Messages of a chat are numbered by their ids. `Page` is one request of
`FetchUnreadIncoming` and what it makes of it; Telegram may return fewer than it
was asked for. `List` and `MarkRead` are what the caller does with the items.
`listed`, `elsewhere` and `capped` are history: no guard reads them.

## 4. What is checked

Bounds are the smallest at which the interesting cases happen, and channels have
one or two slots so that they are full most of the time.

| Run | Shows | Instance |
|---|---|---|
| `hub_ask` | types and capacities; the waiter queues hold exactly the asks still owed an answer; the consumer's send never blocks; a message has one fate; asks of one user are answered oldest first | 2 users, 2 transports (one cannot answer asks), 2 asks (of one user or of two), 2 messages, one-slot inbound channel |
| `hub_stream` | each subscriber's stream is complete from its join on, in order, less counted drops; no ended subscription stays registered; the hub implements `MessageRouter`; every accepted message leaves the hub; a claimed answer reaches its handler; departed connections are forgotten | 1 transport, 1 ask, 2 subscribers of one role, 2 messages, one-slot channels, under fairness: a slow subscriber misses what a fast one gets |
| `dispatcher_reopen` | types and capacities; a call is never given another call's reply of its dispatcher; handing over a reply never blocks; a waiting call can be answered and a returned one leaves nothing behind | 2 calls with late replies across two dispatchers, 1 update, one-slot channels |
| `dispatcher_live` | updates are read in order and complete, less what overflow drops, and overflow drops the oldest; the loop goes on though nobody reads updates; the loop of a closed dispatcher ends | a call across two dispatchers, 2 updates, one-slot channels, under fairness |
| `instagram_account` | the status does not stay connecting, nor connected over a session Instagram refuses | Start and one action at a time beside it, 2 successful logins, no messages, under fairness |
| `instagram_messages` | types; a message is pushed at most once, stored first, and never the account's own; read stays read; what a poll is shown is stored though the hub's channel is full | 3 messages of either direction, polls show 2, one-slot channel, 1 login, no actions, under fairness |
| `whatsapp` | types; a code does not stay on the page once the device is paired; read stays read over redelivery; what is handed on as a message's file is that file and whole; once a download is over, the hub cannot hold up the library's event handler | Start and one action at a time beside it, 2 QR channels, 1 event on its way; 3 documents (a peer's without a name, two of one name that are sent elsewhere and by the daemon), one-slot channel, under fairness |
| `session` | a login ends or gets its session, unless TDLib waits for something the program has no case for; a remote logout comes to be shown by the daemon told of it; a component told to stop ends | a daemon or login beside any command of another process; 2 instances of a component and a caller, under fairness |
| `machine` | types; names stay unique; the directory outranks strangers on every route; requirements are recorded; binaries are whole; what is marked read was listed | 1 writer, 1 reader, 2 contacts, 2 spellings of which one begins the other; an installer beside an uninstaller, 2 components; a chat of 5 messages, 2 pages of 2 |

Two asks of one user and one message are enough to tell the first waiter from the
last, and a second message to tell an answered one from one that is broadcast. Two subscribers are enough for one to be slow and one to leave while an
event is pushed. Two calls are enough for a late reply to meet a later call.
A third contact adds nothing to a property of pairs. The account and the
messages of Instagram share only the status and the session, so each has a run
of its own: two logins are enough for one session to die while another lives,
and three messages past a window of two for one to be missed by every poll.
Two QR channels are enough for an old one to end while a new one shows its code.
An install of `team` beside an uninstall of `agent`, which `team` requires, is the
smallest pair of commands that pull in opposite directions. Five messages are one
more than two pages of two, so that `MaxPages` bites. Roles are only the key of
the map of subscribers, so one role is enough.

Deadlock is checked where the system never stops: in `Instagram`, whose poll goes
on for ever, and in `contacts_overlap`. The others really stop: when the bounded
number of messages has been handled and every client has left, the last
dispatcher is closed, no process runs a command, or the chat is full, the system
waits for ever.

**Fairness.** In `Hub` the goroutines run: the consumer, a receive loop with a
message in hand, an ask handler past its send, a subscription handler that can
end. Nothing is assumed of clients and peers: none need connect, read, or leave,
and no send need return. In `Dispatcher` the loop and the calls run, a call's
timer fires, and the lock `receiveMu` is strongly fair: a `sync.Mutex` goes into
starvation mode after a millisecond and hands the lock to the longest waiter.
`Close` and the reader of updates are under no obligation. In `Instagram` the
goroutines run and each call returns, since the HTTP client gives up after
60 seconds. Two things are strongly fair: of polls tried again and again one is
answered by Instagram, and of inserts tried again and again one succeeds.
Nothing is assumed of the hub, which need not take messages, nor of the owner.
In the WhatsApp modules a QR channel is read to its last item, and the handler of
deliveries runs but for its download, which has no deadline (`transport.go:428`)
and may hold it for ever; the library, the network and the hub owe nothing, and no
event need be handled. In `Session` a process that runs takes its next step,
the owner answering a prompt or giving up, since a prompt that is left open is
not a fault of the loop; TDLib need not fail, and nobody need do what it wants
elsewhere. In `Harness` goroutines run; the close of a cancelled
connection is strongly fair against events that keep coming in.

**Claims the code does not keep.** Three runs end in a violation, each of one
statement quoted from the repository (`findings`):

- `hub_reply_missed`: a reply that comes between the question and the
  registration of its waiter is broadcast, and the ask goes on waiting.
- `dispatcher_diverted`: a closed dispatcher still inside `td_receive` takes the
  reply to a request of its successor, whose call then times out.
- `contacts_overlap`: two writers pass the uniqueness check before either writes.

The models also show what no run is kept for. In `Hub`, a message accepted
before the question was sent can answer it. In `Contacts`, with contacts Sam and
Samantha the name "Sam" reaches nobody. In `Instagram`, the 401 of an old poll
can overwrite the status of a fresh login, a login can write `session.enc` after
a logout removed it, and a message stored just before a restart, or pushed at a
full channel, is found by `unread` only.

Five statements stand in their modules and are in no run, because the model
violates them and no sentence of the repository promises them in so many words:

- `WhatsAppLink!ConnectedHasStore`: after a failed `Start` the client stays set
  and its database closed, and a reconnect by action shows connected over it.
- `WhatsAppMessages!FilesWhole`: a redelivery truncates the file that a row names
  before it writes it, and a write that fails or a restart leaves it broken.
- `Session!ConfigHonest`: a command that loaded `config.json` before the daemon
  recorded a logout saves the old `auth_state` back.
- `Installer!WholeBinaryEver`: two processes that install one component share its
  `.download` file, and one may rename what the other still writes.
- `Inbox!NothingUnseenReadEver`: messages that the last page did not reach are
  marked read with the newer ones.

## 5. What is proved

For every value of the constants, with no bound on messages, connections, calls
or contacts. The only assumptions are the named ones on the constants
(`HubAssumption`, `DispatcherAssumption`, `ContactsAssumption`,
`InstagramAssumption`, `MessagesAssumption`, `WhatsAppAssumption`,
`MachineAssumption`: channels have at least one slot and pages at least one
message, the sets needed to exist are not empty, bounds are natural numbers, and
the processes are finitely many and run commands) and what a theorem's own ASSUME
says.
`Sound`, in `InstallerProofs` and `SessionProofs`, says that there is a component,
or a process, and that what is run are commands.

| Theorem | Argument |
|---|---|
| `HubProofs`: `TypeCorrect` | `TypeOK` is inductive by itself |
| `QueuesAlwaysExact`, `ConsumerNeverBlocks` | `WaiterInv`: the queues are exact, an ask that has not registered has no answer, and an ask without an answer has an empty channel and is not being sent to. The queue property alone is not inductive: popping a waiter must not find its slot taken, and that needs the answer history |
| `OneFateHolds` | `FateInv`: an id below `nextId` is in one place only, a receive loop, the channel, the consumer, or settled. Needs `WaiterInv`, so that a popped waiter had no answer before |
| `SubscribersForgotten` | inductive with the types: a handler that leaves removes its channel from the role it was added under |
| `AnswersOldestFirst` | two strengthenings. `StreamInv`: messages that can answer come through one receive loop, so the channel and the consumer hold them in the order of their ids, above every answer given. `OrderInv`: each queue holds its waiters in the order they registered. The waiter at the head is then the oldest, and gets a later message than those before it |
| `HubRefinementProofs`: `StreamsComplete` | `LineInv`. The property alone is not inductive, since it speaks of served subscribers and the end of a broadcast. `CastInv`: a running broadcast pushes the last event of the log, to channels that joined before it; who is served is registered. `Stream`: what a subscriber has and will read is in the order of the log and due, while it leaves too, and all that is due while it is served. Order is stated by positions and completeness by sets, so that a broadcast and a push each add one element at the end, and no induction over the log is needed. `FateInv` gives that no id is published twice |
| `HubImplementsRouter` | `HubInv` is the conjunction of the types, `WaiterInv`, `FateInv` and `LineInv`. The initial state maps to the router's. `Feed` maps to `Accept`, `Lose` or a stutter, the consumer to `Answer`, `Publish`, `Lose` or a stutter, a subscription to `Join`, `Read` or a stutter, everything else to a stutter. That a read moves the cursor forward needs `LineInv`: what is next in the channel stands later in the log than what was read |
| `DispatcherProofs`: `TypeCorrect` | `TypeInv`: adds that a loop about to hand over holds a reply, and that a dispatcher not made has no loop |
| `HandReplyNeverBlocks`, `CallsReachable` | `ReplyInv`: a registered call's channel is empty and nobody is about to send to it; a request the loop is about to send to is registered no more. For any number of dispatchers |
| `RepliesMatchCalls` | `MatchInv`: within a dispatcher tags in use are distinct and at most `seq`, and every reply on its way carries the tag of its request. Between dispatchers tags repeat, so the property speaks of the calls of one |
| `UpdatesAllArrive`, `OldestIsDropped` | `LineInv`, of the time of one dispatcher: what was delivered, the channel, what the loop holds and what TDLib has still to give are each in order and each before the next; what was evicted comes before all that is still in the dispatcher; together they are what TDLib emitted; and a loop that pushes again finds room, although it has let go of the channel since it evicted. Neither property is inductive without the other, since an eviction takes the oldest only if the parts follow each other |
| `MachineProofs`: `TypeCorrect` (`Contacts`) | `TypeOK` is inductive by itself |
| `SerialWritersKeepNamesUnique` (one writer, aliases of one line) | `UniqueInv`: a row about to be written has passed the check against the rows as they still are. Both assumptions are needed: `contacts_overlap` shows the first, and an alias with a line break defeats the second |
| `RTypeCorrect` | `RTypeOK` is inductive over `Contacts`' steps and the connections' |
| `DaemonReachesContacts` | a lookup of a contact's name finds that contact, or several, which is refused. For any writers |
| `DirectoryOutranksStrangers` (one writer, aliases of one line) | adds `zc wa`, which takes the first of several matches: right because `SerialWritersKeepNamesUnique` leaves only one |
| `NothingUnseenIsRead` | `ScanInv`: whatever incoming message is not newer than one the scan has found was found too, was read when the scan began, lies beyond its last page, or is still to come, below the id the next page starts from; and once the scan has listed, all it found is listed. For any size and number of pages, and pages that come back short. The property alone is not inductive: marking the newest read must find the older ones listed |
| `TypesCorrect`, `RequirementsStayRecorded`, `BinariesStayWhole` | of the composition the run checks: `EachSpec` shows that a behaviour of `Machine` is one of `Recipient`, of `Installer` and of `Inbox`, so that the theorems about each carry over, those of `InstallerProofs` by `INSTANCE` under the same renaming |
| `InstagramProofs`: `TypeCorrect` | `TypeOK` is inductive by itself |
| `MessagesSurfaceOnce` | `SurfacedInv`: whatever was pushed has arrived, is another's and has its row; the message being emitted has its row too and was not pushed before. A poll emits only what had no row, and rows outlive restarts, so nothing is pushed twice |
| `ReadForGood` | an action property: an insert touches only messages without a row, and nothing else sets the flag back |
| `WhatsAppProofs`: `TypeCorrect` (messages) | `TypeOK` is inductive by itself |
| `ReadRowsStayRead` | an action property over the type invariant: a row is written once, and a receipt or a mark only moves it to read |
| `FilesAreOwn` | `Own`: nothing counts as fetched before the file is written whole, and what was fetched is on the disk until its delivery is done with, because one delivery is handled at a time; the file of a row holds what was written under its name, or some of it. For any names of documents, shared ones included. That the file of a row is whole is not claimed: `FilesWhole` fails |
| `TypesCorrect` (link and messages) | `Link!TypeOK` is inductive by itself: a channel that was requested is never taken back to "none", and a goroutine past `GetQRChannel` keeps the one it requested until it hands it to `consumeQR`. `PartsSpec` shows that a behaviour of `WhatsApp` is one of each part |
| `InstallerProofs`: `TypeCorrect` | `TypeOK` is inductive by itself |
| `RequirementsAreRecorded` | `ClosedInv`: the file and every process's copy are closed under requirements. The file alone is not inductive, since a save writes a copy. For any number of processes |
| `BinariesAreWhole` (finitely many processes, of which one at most installs) | `FetchInv`: only an install fetches, what it asked for and requires, so it is at one component at a time, whose download is the part it wrote, and whole when it is renamed |
| `SessionProofs`: `TypeCorrect` | with `Gone`, that a process that ended holds no database and is owed no update: without it a new command could inherit another's |

Every invariant and every action property that a passing run checks is stated by
one of these theorems. Only model-checked are the liveness properties
(`EveryMessageSettles`, `AnswerArrives`, `DepartedForgotten`, `EventsDrain`,
`StoppedLoopEnds` and those of the transports, of `Session` and of `Harness`): with
fairness and ENABLED they are outside this prover.

## 6. Not modelled

- **Sender names** (`daemon.go:245`): a map that is only added to. That a failed
  lookup is remembered for good is listed as a hazard.
- **Telegram operations**: builders and parsers of single requests without state;
  the calls they make are the dispatcher's. Chunking of long texts and the layout
  of history are not modelled.
- **History reads** of the transports change nothing.
- **CLI**: argument parsing and printing around one request. What commands do to
  the session, the configuration and recipients is in `Session` and `Recipient`.
- **Client library**: a call is one request and one response on a connection of
  its own; its two long-lived operations are in `Harness`.
- **Legacy WhatsApp sidecar client**: stateless HTTP.
- **Environment**: TDLib, whatsmeow, instagrapi, SQLite and systemd appear as the
  code uses them. systemd's restarts are the models' restarts.

## 7. Running it

    tlc -config MCHub_ask.cfg MCHub
    tlc -config MCMachine.cfg MCMachine
    tlapm HubProofs.tla

with `tlapm` 1.4.5 and the TLA+ community modules on the library path. Operators
marked "Wrong:" are the mutants that `PROJECT.json` names; no specification uses
them.
