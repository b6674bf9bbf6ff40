------------------------------ MODULE Machine -------------------------------
(***************************************************************************)
(* What processes of one machine share: the directory of contacts and its  *)
(* readers (Recipient, Contacts), the registry of components and their     *)
(* binaries (Installer), and the unread messages of a chat (Inbox).  They  *)
(* share nothing with each other, so a behaviour is one of any.            *)
(***************************************************************************)
EXTENDS Recipient

CONSTANTS
  Procs, Components, Runs,     \* of Installer
  PageSize, MaxPages, MaxMsgs  \* of Inbox

VARIABLES
  part,  \* the part that moves
  \* Installer
  registry, at, command, state, todo, tmp, bin, running,
  \* Inbox
  chat, lastRead, scanAt, since, from, page, unread, listed, elsewhere, capped

installerVars == <<registry, at, command, state, todo, tmp, bin, running>>
inboxVars == <<chat, lastRead, scanAt, since, from, page, unread, listed, elsewhere, capped>>
machineVars == <<part, allVars, installerVars, inboxVars>>

Installer == INSTANCE Installer WITH file <- registry

Inbox == INSTANCE Inbox WITH at <- scanAt

\* There is something to install, processes run commands, and a page holds a
\* message (install.go:22-59; unread.go:78: six pages of fifty).
ASSUME MachineAssumption ==
  /\ IsFiniteSet(Procs)
  /\ Components # {}
  /\ Runs \in [Procs -> SUBSET Installer!Command]
  /\ PageSize \in Nat \ {0}
  /\ MaxPages \in Nat \ {0}
  /\ MaxMsgs \in Nat

-----------------------------------------------------------------------------
MInit ==
  /\ part \in {"recipient", "installer", "inbox"}
  /\ RInit
  /\ Installer!Init
  /\ part # "installer" => registry = {}
  /\ Inbox!Init

MNext ==
  \/ /\ part = "recipient" /\ RNext
     /\ UNCHANGED <<part, installerVars, inboxVars>>
  \/ /\ part = "installer" /\ Installer!Next
     /\ UNCHANGED <<part, allVars, inboxVars>>
  \/ /\ part = "inbox" /\ Inbox!Next
     /\ UNCHANGED <<part, allVars, installerVars>>

MSpec == MInit /\ [][MNext]_machineVars

-----------------------------------------------------------------------------
(* The properties of the modules.                                          *)

\* Every variable of each has its type.
TypesOK == RTypeOK /\ Installer!TypeOK /\ Inbox!TypeOK

\* install.go: what is recorded is recorded with what it requires (Installer).
RequirementsRecorded == Installer!RequirementsRecorded

\* install.go: a binary is a complete download (Installer).
WholeBinary == Installer!WholeBinary

\* unread.go: what is read was listed (Inbox).
NothingUnseenRead == Inbox!NothingUnseenRead
=============================================================================
