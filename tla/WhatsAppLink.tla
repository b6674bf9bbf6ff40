---------------------------- MODULE WhatsAppLink ----------------------------
(***************************************************************************)
(* The connection of the WhatsApp transport (internal/comms/whatsapp,      *)
(* transport.go): Start, the connector actions "reconnect" and "logout",   *)
(* the goroutines that show QR codes, and the events of the WhatsApp       *)
(* library.                                                                *)
(*                                                                         *)
(* All of them write the one status the connectors page shows.  A write is *)
(* locked, what leads to it is not: a goroutine that learned something     *)
(* writes it later, over what others have written meanwhile.               *)
(*                                                                         *)
(* The library whatsmeow is the environment: a device that is paired or    *)
(* not, a socket that is up or not, and QR channels ("flows"), numbered in *)
(* the order they are requested.                                           *)
(***************************************************************************)
EXTENDS Naturals, FiniteSets

CONSTANTS
  Starter,   \* the goroutine of Start
  Callers,   \* those of connector actions
  MaxFlows,  \* bound: QR channels requested
  MaxEvents  \* bound: events on their way to handleEvent at a time

Threads == Callers \union {Starter}
Flows   == 1..MaxFlows

VARIABLES
  \* the transport
  status,    \* Transport.status
  qr,        \* the flow whose code is in Transport.qr, 0 if none
  client,    \* Transport.client is set
  db,        \* Transport.db: "unset", "open" or "closed"
  pc,        \* where each goroutine is
  mine,      \* the flow it has requested and does not read yet, 0 if none
  reading,   \* flows a consumeQR goroutine reads
  dropping,  \* a Disconnected handler has seen "connected" and not yet written
  \* whatsmeow
  paired,    \* Store.ID is set
  linked,    \* the socket is up
  wanted,    \* ... and comes up again by itself
  flow,      \* each QR channel: running, or the last item in it
  events     \* events on their way to handleEvent

shown   == <<status, qr>>
setup   == <<client, db>>
work    == <<pc, mine, reading>>
library == <<paired, linked, wanted, flow, events>>
vars == <<shown, setup, work, dropping, library>>

Statuses == {"disconnected", "connecting", "needs_qr", "connected",
             "session_expired", "error"}
Lasts    == {"success", "failed", "other"}
FlowStates == {"none", "running", "over", "mute"} \union Lasts
Kinds    == {"connected", "disconnected", "loggedout", "pairsuccess"}
Places   == {"new", "choose", "repair", "renew", "connecting", "arm", "join",
             "consume", "reconnect", "logout", "leave", "down", "idle",
             "serving", "returned"}

Init ==
  /\ status = "disconnected"
  /\ qr = 0
  /\ client = FALSE
  /\ db = "unset"
  /\ pc = [p \in Threads |-> IF p = Starter THEN "new" ELSE "idle"]
  /\ mine = [p \in Threads |-> 0]
  /\ reading = {}
  /\ dropping = FALSE
  /\ paired \in BOOLEAN
  /\ linked = FALSE
  /\ wanted = FALSE
  /\ flow = [f \in Flows |-> "none"]
  /\ events = {}

-----------------------------------------------------------------------------
(* The status and the steps of a goroutine.                                *)

\* setStatus: only "action required" keeps the code.
SetStatus(s) == status' = s /\ qr' = 0

SetQR(f) == status' = "needs_qr" /\ qr' = f

\* What the connectors page is given.
CurrentQR == IF status = "needs_qr" THEN qr ELSE 0

Move(p, from, to) == pc[p] = from /\ pc' = [pc EXCEPT ![p] = to]

\* A step that writes the status and nothing else.
Writes(p, from, to, s) ==
  /\ Move(p, from, to)
  /\ SetStatus(s)
  /\ UNCHANGED <<setup, mine, reading, dropping, library>>

\* A step that looks at Store.ID and nothing else.
Looks(p, from, ifPaired, ifNot) ==
  /\ Move(p, from, IF paired THEN ifPaired ELSE ifNot)
  /\ UNCHANGED <<shown, setup, mine, reading, dropping, library>>

\* Where a goroutine goes when it has connected.
Ready(p) == IF p = Starter THEN "serving" ELSE "idle"

\* It reports the error and gives up.  Start's deferred Close closes the
\* database, which the transport keeps.
Fails(p, from) ==
  /\ Move(p, from, IF p = Starter THEN "returned" ELSE "idle")
  /\ SetStatus("error")
  /\ db' = IF p = Starter THEN "closed" ELSE db
  /\ mine' = [mine EXCEPT ![p] = 0]
  /\ UNCHANGED <<client, reading, dropping, library>>

\* client.Disconnect: no event tells of it, and nothing reconnects.
Disconnects(p, from, to) ==
  /\ Move(p, from, to)
  /\ linked' = FALSE
  /\ wanted' = FALSE
  /\ UNCHANGED <<shown, setup, mine, reading, dropping, paired, flow, events>>

\* client.Connect fails when the socket is up already, and when the network does.
Connects(p, from, to) ==
  \/ /\ Move(p, from, to)
     /\ ~linked
     /\ linked' = TRUE
     /\ wanted' = TRUE
     /\ UNCHANGED <<shown, setup, mine, reading, dropping, paired, flow, events>>
  \/ Fails(p, from)

-----------------------------------------------------------------------------
(* Start, and the actions "reconnect" and "logout".                        *)

\* The database, its tables, the device and the client: each can fail, and the
\* later ones leave behind a database that is set and closed.
Start ==
  /\ \/ Move(Starter, "new", "choose")
        /\ client' = TRUE /\ db' = "open" /\ SetStatus("connecting")
     \/ Move(Starter, "new", "returned")
        /\ db' \in {"unset", "closed"} /\ SetStatus("error")
        /\ UNCHANGED client
  /\ UNCHANGED <<mine, reading, dropping, library>>

\* Start and repair: an unpaired device needs a QR channel before it connects.
StartPairs == Looks(Starter, "choose", "reconnect", "arm")

Repair(p) == client /\ Looks(p, "idle", "repair", "renew")

DropLink(p) == \/ Disconnects(p, "repair", "reconnect")
               \/ Disconnects(p, "renew", "connecting")

ShowConnecting(p) == Writes(p, "connecting", "arm", "connecting")

Reconnect(p) == Connects(p, "reconnect", Ready(p))

\* GetQRChannel: an error once the device is paired or the socket up.
Arm(p) ==
  \/ /\ Move(p, "arm", "join")
     /\ ~paired
     /\ ~linked
     /\ \E f \in Flows :
          /\ flow[f] = "none"
          /\ \A e \in 1..(f - 1) : flow[e] # "none"
          /\ flow' = [flow EXCEPT ![f] = "running"]
          /\ mine' = [mine EXCEPT ![p] = f]
     /\ UNCHANGED <<shown, setup, reading, dropping, paired, linked, wanted,
                    events>>
  \/ (paired \/ linked) /\ Fails(p, "arm")

\* When this Connect fails nobody will read the channel.
Join(p) == Connects(p, "join", "consume")

Consume(p) ==
  /\ Move(p, "consume", Ready(p))
  /\ reading' = reading \union {mine[p]}
  /\ mine' = [mine EXCEPT ![p] = 0]
  /\ UNCHANGED <<shown, setup, dropping, library>>

Logout(p) == client /\ Looks(p, "idle", "logout", "leave")

\* client.Logout tells the server and deletes the device, or fails: an error
\* response, and nothing is changed.
SignOut(p) ==
  \/ /\ Move(p, "logout", "leave")
     /\ paired' = FALSE
     /\ linked' = FALSE
     /\ wanted' = FALSE
     /\ UNCHANGED <<shown, setup, mine, reading, dropping, flow, events>>
  \/ Move(p, "logout", "idle")
     /\ UNCHANGED <<shown, setup, mine, reading, dropping, library>>

Leave(p) == Disconnects(p, "leave", "down")

ShowDown(p) == Writes(p, "down", "idle", "disconnected")

-----------------------------------------------------------------------------
(* consumeQR.                                                              *)

\* Codes come before the last item of a channel, and may still be in it when
\* that is there.
Code(f) ==
  /\ f \in reading
  /\ SetQR(f)
  /\ UNCHANGED <<setup, work, dropping, library>>

\* The last item, after which the channel is closed.  One that left the status
\* alone is remembered.
Ends(f, last) ==
  /\ f \in reading
  /\ flow[f] = last
  /\ reading' = reading \ {f}
  /\ flow' = [flow EXCEPT ![f] = IF last = "other" THEN "mute" ELSE "over"]
  /\ UNCHANGED <<setup, pc, mine, dropping, paired, linked, wanted, events>>

\* Wrong: the success is left to the PairSuccess event.
LastIgnoringSuccess(f) ==
  \/ Ends(f, "failed") /\ SetStatus("error")
  \/ Ends(f, "success") /\ UNCHANGED shown
  \/ Ends(f, "other") /\ UNCHANGED shown

\* A timeout and an item with an error both failed; any other item says nothing.
Last(f) ==
  \/ Ends(f, "success") /\ SetStatus("connected")
  \/ Ends(f, "failed") /\ SetStatus("error")
  \/ Ends(f, "other") /\ UNCHANGED shown

-----------------------------------------------------------------------------
(* handleEvent.                                                            *)

Handles(kind) ==
  /\ kind \in events
  /\ events' = events \ {kind}
  /\ UNCHANGED <<setup, work, paired, linked, wanted, flow>>

Connected == Handles("connected") /\ SetStatus("connected") /\ UNCHANGED dropping

PairSuccess ==
  Handles("pairsuccess") /\ SetStatus("connected") /\ UNCHANGED dropping

LoggedOut ==
  Handles("loggedout") /\ SetStatus("session_expired") /\ UNCHANGED dropping

\* The status is read under one lock ...
Disconnected ==
  /\ Handles("disconnected")
  /\ dropping' = (dropping \/ status = "connected")
  /\ UNCHANGED shown

\* ... and written under another.
ShowDropped ==
  /\ dropping
  /\ dropping' = FALSE
  /\ SetStatus("connecting")
  /\ UNCHANGED <<setup, work, library>>

-----------------------------------------------------------------------------
(* whatsmeow and WhatsApp.                                                 *)

Raises(kind) ==
  /\ kind \in events \/ Cardinality(events) < MaxEvents
  /\ events' = events \union {kind}

\* A code is scanned, or pairing ends otherwise.  A success ends every channel.
Pair ==
  /\ ~paired
  /\ linked
  /\ db = "open"
  /\ \E f \in Flows : flow[f] = "running"
  /\ paired' = TRUE
  /\ wanted' = TRUE
  /\ flow' = [f \in Flows |-> IF flow[f] = "running" THEN "success" ELSE flow[f]]
  /\ Raises("pairsuccess")
  /\ UNCHANGED <<shown, setup, work, dropping, linked>>

GiveUp(f) ==
  /\ flow[f] = "running"
  /\ \E last \in Lasts \ {"success"} : flow' = [flow EXCEPT ![f] = last]
  /\ UNCHANGED <<shown, setup, work, dropping, paired, linked, wanted, events>>

Accept ==
  /\ linked
  /\ paired
  /\ Raises("connected")
  /\ UNCHANGED <<shown, setup, work, dropping, paired, linked, wanted, flow>>

\* The server closes the socket; the library makes it again, once paired.
Drop ==
  /\ linked
  /\ linked' = FALSE
  /\ Raises("disconnected")
  /\ UNCHANGED <<shown, setup, work, dropping, paired, wanted, flow>>

Relink ==
  /\ wanted
  /\ paired
  /\ ~linked
  /\ linked' = TRUE
  /\ UNCHANGED <<shown, setup, work, dropping, paired, wanted, flow, events>>

\* The owner removes the device on the phone.
Revoke ==
  /\ linked
  /\ paired
  /\ paired' = FALSE
  /\ linked' = FALSE
  /\ wanted' = FALSE
  /\ Raises("loggedout")
  /\ UNCHANGED <<shown, setup, work, dropping, flow>>

\* The daemon is restarted; the device is in the database.
Restart ==
  /\ status' = "disconnected"
  /\ qr' = 0
  /\ client' = FALSE
  /\ db' = "unset"
  /\ pc' = [p \in Threads |-> IF p = Starter THEN "new" ELSE "idle"]
  /\ mine' = [p \in Threads |-> 0]
  /\ reading' = {}
  /\ dropping' = FALSE
  /\ linked' = FALSE
  /\ wanted' = FALSE
  /\ flow' = [f \in Flows |-> "none"]
  /\ events' = {}
  /\ UNCHANGED paired

-----------------------------------------------------------------------------
Connecting(p) == \/ Reconnect(p)
                 \/ Arm(p)
                 \/ Join(p)
                 \/ Consume(p)

Action(p) == \/ Repair(p)
             \/ DropLink(p)
             \/ ShowConnecting(p)
             \/ Logout(p)
             \/ SignOut(p)
             \/ Leave(p)
             \/ ShowDown(p)

HandleEvent == \/ Connected
               \/ PairSuccess
               \/ LoggedOut
               \/ Disconnected
               \/ ShowDropped

Whatsmeow == \/ Pair
             \/ \E f \in Flows : GiveUp(f)
             \/ Accept
             \/ Drop
             \/ Relink
             \/ Revoke

Next == \/ Start
        \/ StartPairs
        \/ \E p \in Threads : Connecting(p)
        \/ \E p \in Callers : Action(p)
        \/ \E f \in Flows : Code(f) \/ Last(f)
        \/ HandleEvent
        \/ Whatsmeow
        \/ Restart

Spec == Init /\ [][Next]_vars

\* The goroutines run: a channel is read up to its last item.  Nothing is assumed
\* of the library or the network, nor that events are handled, since a delivery
\* before them may hold up the handler.
Fairness ==
  /\ \A f \in Flows : WF_vars(Last(f))
  /\ \A p \in Threads : WF_vars(Consume(p))

FairSpec == Spec /\ Fairness

-----------------------------------------------------------------------------
(* Properties.                                                             *)

\* Every variable has its type, only a running or finished channel is read, and
\* a goroutine past GetQRChannel has a channel.
TypeOK ==
  /\ status \in Statuses
  /\ qr \in Flows \union {0}
  /\ client \in BOOLEAN
  /\ db \in {"unset", "open", "closed"}
  /\ pc \in [Threads -> Places]
  /\ mine \in [Threads -> Flows \union {0}]
  /\ reading \subseteq {f \in Flows : flow[f] # "none"}
  /\ dropping \in BOOLEAN
  /\ paired \in BOOLEAN
  /\ linked \in BOOLEAN
  /\ wanted \in BOOLEAN
  /\ flow \in [Flows -> FlowStates]
  /\ events \subseteq Kinds
  /\ \A p \in Threads : pc[p] \in {"join", "consume"} =>
       mine[p] # 0 /\ flow[mine[p]] # "none"

\* Once the device is paired the connectors page does not go on showing a code,
\* although codes of any channel may be read after the pairing was reported.
\* The exception is a channel whose last item carried no error: nothing takes
\* its code away but the next change of the status.
QRGoesAway ==
  \A f \in Flows :
    paired /\ CurrentQR = f ~> CurrentQR # f \/ ~paired \/ flow[f] = "mute"

-----------------------------------------------------------------------------
(* A claim of the repository that the code does not keep.                  *)

\* store.go: "We persist every 1:1 message (both directions)".  A transport that
\* shows connected has a database to store them in.
ConnectedHasStore == status = "connected" => db = "open"

=============================================================================
