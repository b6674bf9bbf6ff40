------------------------------- MODULE Inbox -------------------------------
(***************************************************************************)
(* Unread Telegram messages (telegram/unread.go, and collectUnreadTG in    *)
(* the hub): a chat is scanned page by page, newest messages first, while  *)
(* messages come, others are sent and the owner reads on another device;   *)
(* what was found is listed, and marked read when it has been dealt with.  *)
(*                                                                         *)
(* Messages of the chat are numbered in the order of their ids.  Telegram  *)
(* keeps one number per chat: all up to it is read.                        *)
(***************************************************************************)
EXTENDS Naturals, Sequences, FiniteSetsExt

CONSTANTS
  PageSize,   \* messages asked for at a time
  MaxPages,   \* pages of a chat that are looked at
  MaxMsgs     \* bound: messages in the chat

VARIABLES
  chat,       \* the messages: "in" or "out"
  lastRead,   \* the last one that is read
  at,         \* where the scan is
  since,      \* the last read one, as the scan knows it
  from,       \* the oldest message it has seen, 0 before the first page
  page,       \* pages it has looked at
  unread,     \* the incoming messages it has found
  listed,     \* messages that a scan has listed
  elsewhere,  \* how far the owner has read on another device
  capped      \* how far back messages were missed because of MaxPages

scan == <<at, since, from, page, unread>>
vars == <<chat, lastRead, scan, listed, elsewhere, capped>>

Init ==
  /\ chat = <<>>
  /\ lastRead = 0
  /\ at = "idle"
  /\ since = 0
  /\ from = 0
  /\ page = 0
  /\ unread = {}
  /\ listed = {}
  /\ elsewhere = 0
  /\ capped = 0

Incoming == {m \in DOMAIN chat : chat[m] = "in"}

-----------------------------------------------------------------------------
(* Telegram.                                                               *)

Arrive(direction) ==
  /\ Len(chat) < MaxMsgs
  /\ chat' = Append(chat, direction)
  /\ UNCHANGED <<lastRead, scan, listed, elsewhere, capped>>

ReadElsewhere ==
  /\ \E m \in lastRead + 1..Len(chat) : lastRead' = m /\ elsewhere' = m
  /\ UNCHANGED <<chat, scan, listed, capped>>

\* historyPage: up to PageSize messages older than from, and fewer if Telegram
\* likes, newest first.
Older == IF from = 0 THEN DOMAIN chat ELSE 1..from - 1

Pages ==
  IF Older = {} THEN {{}}
  ELSE {lo..Max(Older) : lo \in {n \in Older : Max(Older) - n < PageSize}}

-----------------------------------------------------------------------------
(* The scan of one chat.                                                   *)

\* FetchChatInfo: a chat with nothing unread is left out.
Begin ==
  /\ at = "idle"
  /\ Incoming \cap (lastRead + 1..Len(chat)) # {}
  /\ at' = "page"
  /\ since' = lastRead
  /\ UNCHANGED <<chat, lastRead, from, page, unread, listed, elsewhere, capped>>

\* Wrong: a page with an outgoing message on it is the last one.
NoFurtherOutgoing(msgs) ==
  msgs = {} \/ \E m \in msgs : m <= since \/ chat[m] = "out"

\* A page that is empty, or that reaches what was read, is the last one.
NoFurther(msgs) == msgs = {} \/ \E m \in msgs : m <= since

\* FetchUnreadIncoming, one page; after MaxPages of them it stops.
Page ==
  /\ at = "page"
  /\ \E msgs \in Pages :
       /\ unread' = unread \union {m \in msgs \cap Incoming : m > since}
       /\ page' = page + 1
       /\ from' = IF msgs = {} THEN from ELSE Min(msgs)
       /\ at' = IF NoFurther(msgs) \/ page + 1 = MaxPages THEN "list" ELSE "page"
       /\ capped' = IF ~NoFurther(msgs) /\ page + 1 = MaxPages
                    THEN Max({capped, Min(msgs) - 1}) ELSE capped
  /\ UNCHANGED <<chat, lastRead, since, listed, elsewhere>>

Idle ==
  /\ at' = "idle"
  /\ since' = 0
  /\ from' = 0
  /\ page' = 0
  /\ unread' = {}

\* A request fails: the chat is left out.
PageFails ==
  /\ at = "page"
  /\ Idle
  /\ UNCHANGED <<chat, lastRead, listed, elsewhere, capped>>

\* The items go to who asked for them.
List ==
  /\ at = "list"
  /\ at' = "listed"
  /\ listed' = listed \union unread
  /\ UNCHANGED <<chat, lastRead, since, from, page, unread, elsewhere, capped>>

\* MarkMessagesRead, of some of them: Telegram has read all up to the last one.
MarkRead ==
  /\ at = "listed"
  /\ \E m \in unread : lastRead' = Max({lastRead, m})
  /\ Idle
  /\ UNCHANGED <<chat, listed, elsewhere, capped>>

\* They are not dealt with, and are listed again by a later scan.
Leave ==
  /\ at = "listed"
  /\ Idle
  /\ UNCHANGED <<chat, lastRead, listed, elsewhere, capped>>

Next ==
  \/ \E direction \in {"in", "out"} : Arrive(direction)
  \/ ReadElsewhere
  \/ Begin \/ Page \/ PageFails \/ List \/ MarkRead \/ Leave

Spec == Init /\ [][Next]_vars

-----------------------------------------------------------------------------
(* Safety.                                                                 *)

\* Every variable has its type.
TypeOK ==
  /\ chat \in Seq({"in", "out"})
  /\ Len(chat) <= MaxMsgs
  /\ lastRead \in 0..Len(chat)
  /\ at \in {"idle", "page", "list", "listed"}
  /\ since \in 0..Len(chat)
  /\ from \in 0..Len(chat)
  /\ page \in 0..MaxPages
  /\ unread \subseteq Incoming
  /\ listed \subseteq Incoming
  /\ elsewhere \in 0..Len(chat)
  /\ capped \in 0..Len(chat)

\* unread.go:75-77: an incoming message that is read was listed before, or read on
\* another device, though others were sent or came while it was looked for; but
\* for those that MaxPages pages did not reach.
NothingUnseenRead ==
  \A m \in Incoming : m <= lastRead => m \in listed \/ m <= elsewhere \/ m <= capped

\* The same without the exception, which messages past six pages do not keep.
NothingUnseenReadEver ==
  \A m \in Incoming : m <= lastRead => m \in listed \/ m <= elsewhere
=============================================================================
