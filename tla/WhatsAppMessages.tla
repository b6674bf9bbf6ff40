-------------------------- MODULE WhatsAppMessages --------------------------
(***************************************************************************)
(* The messages of the WhatsApp transport (internal/comms/whatsapp,        *)
(* transport.go and store.go): how one that is delivered, or sent, gets    *)
(* into the message store and to the hub, and how it is marked read.       *)
(*                                                                         *)
(* The library hands over one delivery at a time, and delivers a message   *)
(* again after a reconnect or a history sync.  A chat is addressed by its  *)
(* phone number or by a LID; the LID is replaced by the phone number when  *)
(* the delivery names it, so one message may come under either key.  The   *)
(* store has one row per key and message.                                  *)
(***************************************************************************)
EXTENDS Naturals

CONSTANTS
  Msgs,        \* message ids
  Author,      \* who wrote each: "peer", "owner" elsewhere, "daemon" by a send
  Shape,       \* what each carries
  DocName,     \* the name its author gave a document, NoName for the others
  NoName,
  InboundCap   \* capacity of the hub's inbound channel

ASSUME MessagesAssumption == InboundCap \in Nat

Keys   == {"phone", "lid"}
Shapes == {"conversation", "extended", "image", "video", "document", "audio",
           "unknown"}

VARIABLES
  \* the transport
  cur,       \* the delivery handled, NoDelivery between two
  step,      \* where its handler is
  fetched,   \* its attachment was downloaded
  row,       \* zc_messages: per key and message "none", "unread" or "read"
  hasFile,   \* rows that name a file of whatsmeow-media
  disk,      \* whatsmeow-media: whose data each file name holds
  sending,   \* sends under way: message and key
  inbound    \* messages in the hub's channel

handler == <<cur, step, fetched>>
files   == <<hasFile, disk>>
vars == <<handler, row, files, sending, inbound>>

Delivery   == [msg : Msgs, key : Keys]
NoDelivery == [msg |-> CHOOSE m \in Msgs : TRUE, key |-> "none"]

-----------------------------------------------------------------------------
(* What a message is.                                                      *)

Media == {"image", "video", "document", "audio"}

\* messageKind and hasDownloadableMedia: what is not known to be media is text.
HasMedia(m) == Shape[m] \in Media

\* mediaFileName: a document keeps its name, anything else is named for its id.
FileName(m) ==
  IF Shape[m] = "document" /\ DocName[m] # NoName THEN DocName[m] ELSE m

Names == Msgs \union {DocName[m] : m \in Msgs}

\* What a file holds that nobody has written, and one whose write broke off.
NoOne   == "nobody"
Partial == "partial"

\* directChatPhone: the key a delivery's chat has in the store.
ChatKey(server, alternative) ==
  IF server = "lid" /\ alternative = "none" THEN "lid" ELSE "phone"

-----------------------------------------------------------------------------
Init ==
  /\ cur = NoDelivery
  /\ step = "idle"
  /\ fetched = FALSE
  /\ row = [k \in Keys |-> [m \in Msgs |-> "none"]]
  /\ hasFile = {}
  /\ disk = [n \in Names |-> NoOne]
  /\ sending = {}
  /\ inbound = 0

-----------------------------------------------------------------------------
(* handleEvent: a message.                                                 *)

\* WhatsApp delivers a message, for the first time or again.  Nothing is done
\* with a group, a broadcast or a newsletter; a direct chat ...
Deliver(m, k) ==
  /\ step = "idle"
  /\ Author[m] # "daemon"
  /\ cur' = [msg |-> m, key |-> k]
  /\ step' = IF HasMedia(m) THEN "download" ELSE "store"
  /\ UNCHANGED <<fetched, row, files, sending, inbound>>

\* ... whose attachment is downloaded: os.WriteFile truncates the file of that name
\* if there is one.  Or that fails, and the message goes on without.
Download ==
  /\ step = "download"
  /\ \/ /\ step' = "write"
        /\ disk' = [disk EXCEPT ![FileName(cur.msg)] = Partial]
     \/ step' = "store" /\ UNCHANGED disk
  /\ UNCHANGED <<cur, fetched, row, hasFile, sending, inbound>>

WriteStep ==
  /\ step = "write"
  /\ step' = "store"
  /\ UNCHANGED <<cur, row, hasFile, sending, inbound>>

\* Wrong: the error of the write is not looked at.
WriteFileUnchecked ==
  /\ WriteStep
  /\ fetched' = TRUE
  /\ \/ disk' = [disk EXCEPT ![FileName(cur.msg)] = cur.msg]
     \/ UNCHANGED disk

\* The data is written, or some of it is and the message goes on without.
WriteFile ==
  /\ WriteStep
  /\ \/ fetched' = TRUE /\ disk' = [disk EXCEPT ![FileName(cur.msg)] = cur.msg]
     \/ UNCHANGED <<fetched, disk>>

\* INSERT OR IGNORE of m under key k.
Insert(k, m, state, named) ==
  /\ row[k][m] = "none"
  /\ row' = [row EXCEPT ![k][m] = state]
  /\ hasFile' = IF named THEN hasFile \union {<<k, m>>} ELSE hasFile

\* The row is there, or the database says no: the error is swallowed.
NotInserted == UNCHANGED <<row, hasFile>>

Unread(m) == IF Author[m] = "peer" THEN "unread" ELSE "read"

\* storeMessage, called with a message that was delivered.
StoreStep ==
  /\ step = "store"
  /\ step' = "emit"
  /\ UNCHANGED <<cur, fetched, disk, sending, inbound>>

\* Wrong: INSERT OR REPLACE.
StoreReplacing ==
  /\ StoreStep
  /\ row' = [row EXCEPT ![cur.key][cur.msg] = Unread(cur.msg)]
  /\ UNCHANGED hasFile

Store ==
  /\ StoreStep
  /\ \/ Insert(cur.key, cur.msg, Unread(cur.msg), fetched)
     \/ NotInserted

EmitStep ==
  /\ step = "emit"
  /\ step' = "idle"
  /\ cur' = NoDelivery
  /\ fetched' = FALSE
  /\ UNCHANGED <<row, files, sending>>

\* Wrong: a select without its timer.
EmitBlocking == EmitStep /\ inbound < InboundCap /\ inbound' = inbound + 1

\* Wrong: the channel has no bound.
EmitUnbounded == EmitStep /\ inbound' = inbound + 1

\* Pushed to the hub, also what the owner wrote elsewhere and what was pushed
\* before; dropped when its channel stays full for five seconds.
Emit ==
  /\ EmitStep
  /\ \/ inbound < InboundCap /\ inbound' = inbound + 1
     \/ inbound = InboundCap /\ UNCHANGED inbound

\* A read receipt: the owner read a message on another device.  Whatever its
\* key, it is read here.
Receipt(m) ==
  /\ Author[m] = "peer"
  /\ row' = [k \in Keys |->
               [row[k] EXCEPT ![m] = IF @ = "unread" THEN "read" ELSE @]]
  /\ UNCHANGED <<handler, files, sending, inbound>>

-----------------------------------------------------------------------------
(* The operations of the hub.                                              *)

\* Send and SendFile, to a chat addressed by either key: the message leaves ...
Send(m, k) ==
  /\ Author[m] = "daemon"
  /\ \A s \in sending : s.msg # m
  /\ \A l \in Keys : row[l][m] = "none"
  /\ sending' = sending \union {[msg |-> m, key |-> k]}
  /\ UNCHANGED <<handler, row, files, inbound>>

\* ... and is then stored, with the path it was sent from if it is a file.
StoreSent(s) ==
  /\ s \in sending
  /\ sending' = sending \ {s}
  /\ \/ Insert(s.key, s.msg, "read", FALSE)
     \/ NotInserted
  /\ UNCHANGED <<handler, disk, inbound>>

\* Transport.Unread: what the unread op lists of a chat.
Listed(k) == {m \in Msgs : Author[m] = "peer" /\ row[k][m] = "unread"}

\* MarkRead: messages of one chat, some of which are listed.
MarkRead(k, ms) ==
  /\ ms \cap Listed(k) # {}
  /\ row' = [row EXCEPT ![k] = [m \in Msgs |->
               IF m \in ms /\ row[k][m] # "none" THEN "read" ELSE row[k][m]]]
  /\ UNCHANGED <<handler, files, sending, inbound>>

HubTakes ==
  /\ inbound > 0
  /\ inbound' = inbound - 1
  /\ UNCHANGED <<handler, row, files, sending>>

\* What the daemon was doing is lost; the store and the files are kept, one that
\* was being written as it is.
Restart ==
  /\ cur' = NoDelivery
  /\ step' = "idle"
  /\ fetched' = FALSE
  /\ sending' = {}
  /\ inbound' = 0
  /\ UNCHANGED <<row, files>>

-----------------------------------------------------------------------------
Handle == \/ \E m \in Msgs, server \in Keys, alternative \in {"phone", "none"} :
               Deliver(m, ChatKey(server, alternative))
          \/ Download
          \/ WriteFile
          \/ Store
          \/ Emit

Operation == \/ \E m \in Msgs, k \in Keys : Send(m, k)
             \/ \E s \in sending : StoreSent(s)
             \/ \E k \in Keys, ms \in SUBSET Msgs : MarkRead(k, ms)

Next == \/ Handle
        \/ \E m \in Msgs : Receipt(m)
        \/ Operation
        \/ HubTakes
        \/ Restart

Spec == Init /\ [][Next]_vars

\* The handler runs, but for a download, which has no deadline; the hub need not
\* take anything.
Fairness == WF_vars(WriteFile \/ Store \/ Emit)

FairSpec == Spec /\ Fairness

-----------------------------------------------------------------------------
(* Properties.                                                             *)

TypeOK ==
  /\ cur \in Delivery \union {NoDelivery}
  /\ step \in {"idle", "download", "write", "store", "emit"}
  /\ step # "idle" <=> cur \in Delivery
  /\ fetched \in BOOLEAN
  /\ row \in [Keys -> [Msgs -> {"none", "unread", "read"}]]
  /\ hasFile \subseteq Keys \X Msgs
  /\ disk \in [Names -> Msgs \union {NoOne, Partial}]
  /\ sending \subseteq Delivery
  /\ inbound \in 0..InboundCap

\* A row that was read stays read, however often its message is delivered again,
\* whatever fails and whenever the daemon restarts.
ReadStaysRead ==
  [][\A k \in Keys, m \in Msgs : row[k][m] = "read" => row'[k][m] = "read"]_vars

\* The names a message may give a file.
Named(m) == {m, DocName[m]} \ {NoName}

\* What is handed to the store and the hub as the file of a message is that file,
\* and whole, although downloads break off and names are used again.  And what a
\* row names holds the attachment of its own message, or of one for which the
\* same name was chosen, or what a redelivery that broke off has left of it.
FilesOwn ==
  /\ fetched => disk[FileName(cur.msg)] = cur.msg
  /\ \A k \in Keys, m \in Msgs :
       <<k, m>> \in hasFile =>
         \/ disk[FileName(m)] \in {m, Partial}
         \/ \E n \in Msgs : /\ disk[FileName(m)] = n
                           /\ Named(n) \cap Named(m) # {}

\* The hub cannot hold up the handler of deliveries: once it has what it downloads,
\* or has failed to, it is done with the message.
HandlerReturns == step \in {"write", "store", "emit"} ~> step = "idle"

-----------------------------------------------------------------------------
(* What one might expect of the code, and it does not keep.                *)

\* A file that a row names is never a broken one.  A redelivery truncates it.
FilesWhole ==
  \A k \in Keys, m \in Msgs : <<k, m>> \in hasFile => disk[FileName(m)] # Partial

=============================================================================
