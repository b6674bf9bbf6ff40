--------------------------- MODULE SessionProofs ---------------------------
(***************************************************************************)
(* Proofs about Session, for any processes and commands that they run.     *)
(***************************************************************************)
EXTENDS Session, TLAPS

\* What the proofs suppose of the constants: there is a process, and what is
\* run are commands.
Sound == Procs # {} /\ Runs \in [Procs -> SUBSET Commands]

\* A process that does not run has nothing open and nothing to do: what it had
\* is gone with it, before it can run another command.
Gone == \A p \in Procs : at[p] = "off" => p \notin opened \union update \union marking

IInv == TypeOK /\ Gone

USE DEF tdlib, daemon, Move

-----------------------------------------------------------------------------
(* What is written to the file is a configuration, or no JSON.             *)

LEMMA FileType ==
  ASSUME NEW c \in Config
  PROVE  Written(c) \in Config \union Unreadable
  BY DEF Written, Unreadable

LEMMA Configs == Default \in Config /\ Identified \in Config
  BY DEF Default, Identified, Config

\* A process that ends takes all of its own with it.
LEMMA LeavesKeeps ==
  ASSUME IInv, NEW p \in Procs, Leaves(p), at' = [at EXCEPT ![p] = "off"],
         file' \in Config \union Unreadable \union {Missing}, auth' \in AuthStates
  PROVE  IInv'
<1> USE DEF IInv, TypeOK, Gone
<1>1. app' \in [Procs -> Config]
  BY Configs DEF Leaves
<1>2. command' \in [Procs -> Commands] /\ at' \in [Procs -> Places]
  BY DEF Leaves, Commands, Places
<1>3. \E q \in Procs : opened' \subseteq {q}
  BY DEF Leaves
<1>4. /\ update' \subseteq {q \in Procs : command'[q] = "daemon"}
      /\ marking' \subseteq Procs
      /\ expired' \subseteq Procs
  BY DEF Leaves
<1>5. Gone'
  BY DEF Leaves
<1> QED
  BY <1>1, <1>2, <1>3, <1>4, <1>5

\* The ends of a command, and of its process.
LEMMA EndsKeep ==
  ASSUME IInv, NEW p \in Procs,
         \/ \E from \in Places : Ends(p, from)
         \/ Remove(p)
         \/ Kill(p)
  PROVE  IInv'
<1>1. Leaves(p) /\ at' = [at EXCEPT ![p] = "off"]
  BY DEF Ends, Remove, Kill
<1>2. file' = file /\ auth' \in AuthStates
  BY DEF Ends, Remove, Kill, IInv, TypeOK, AuthStates
<1> QED
  BY <1>1, <1>2, LeavesKeeps DEF IInv, TypeOK

\* A step that only goes on, and not to the end.
LEMMA GoesKeep ==
  ASSUME IInv, NEW p \in Procs, NEW from, NEW to \in Places \ {"off"},
         Goes(p, from, to)
  PROVE  IInv'
  BY DEF IInv, TypeOK, Gone, Goes

-----------------------------------------------------------------------------
(* The file.                                                               *)

LEMMA FileKeeps ==
  ASSUME IInv, NEW p \in Procs,
         Load(p) \/ Truncate(p) \/ Created(p) \/ Save(p)
  PROVE  IInv'
<1> USE DEF IInv, TypeOK, Gone
<1>1. CASE Load(p)
  <2>1. app' \in [Procs -> Config]
    BY <1>1, Configs DEF Load
  <2> QED
    BY <1>1, <2>1 DEF Load, Places
<1>2. CASE Truncate(p)
  BY <1>2 DEF Truncate, Places, Unreadable
<1>3. CASE Created(p)
  <2>1. app' \in [Procs -> Config]
    BY <1>3 DEF Created, Config
  <2>2. file' \in Config \union Unreadable
    BY <1>3, FileType DEF Created
  <2> QED
    BY <1>3, <2>1, <2>2 DEF Created, Places
<1>4. CASE Save(p)
  <2>1. file' \in Config \union Unreadable /\ auth' = auth
    BY <1>4, FileType DEF Save
  <2>2. CASE Saved(p) = "off"
    BY <1>4, <2>1, <2>2, LeavesKeeps DEF Save
  <2>3. CASE Saved(p) # "off"
    <3>1. Saved(p) \in Places
      BY DEF Saved, Places
    <3> QED
      BY <1>4, <2>1, <2>3, <3>1 DEF Save
  <2> QED
    BY <2>2, <2>3
<1> QED
  BY <1>1, <1>2, <1>3, <1>4

-----------------------------------------------------------------------------
(* The session.                                                            *)

LEMMA SessionKeeps ==
  ASSUME IInv, NEW p \in Procs,
         Open(p) \/ Identify(p) \/ Enter(p) \/ LogOut(p) \/ Clear(p)
  PROVE  IInv'
<1> USE DEF IInv, TypeOK, Gone
<1>1. CASE Open(p)
  <2>1. at' \in [Procs -> Places] /\ at'[p] # "off"
    BY <1>1 DEF Open, Places
  <2> QED
    BY <1>1, <2>1 DEF Open
<1>2. CASE Identify(p)
  <2>1. app' \in [Procs -> Config]
    BY <1>2, Configs DEF Identify
  <2> QED
    BY <1>2, <2>1 DEF Identify, Places
<1>3. CASE Enter(p)
  BY <1>3 DEF Enter, AuthStates
<1>4. CASE LogOut(p)
  BY <1>4 DEF LogOut, AuthStates, Places
<1>5. CASE Clear(p)
  <2>1. app' \in [Procs -> Config]
    BY <1>5, Configs DEF Clear
  <2> QED
    BY <1>5, <2>1 DEF Clear, Places
<1> QED
  BY <1>1, <1>2, <1>3, <1>4, <1>5

\* The daemon is told of a remote logout, and records it.
LEMMA DaemonKeeps ==
  ASSUME IInv, NEW p \in Procs, Expire(p) \/ NotMarked(p)
  PROVE  IInv'
  BY DEF IInv, TypeOK, Gone, Expire, NotMarked, Places

\* What it is told of is its own session.
LEMMA RevokeKeeps ==
  ASSUME IInv, Revoke
  PROVE  IInv'
<1> USE DEF IInv, TypeOK, Gone
<1>1. \E p \in Procs : opened' \subseteq {p}
  BY DEF Revoke
<1>2. /\ opened \subseteq Procs
      /\ \A p \in opened : at[p] # "off"
  OBVIOUS
<1>3. update' \subseteq {p \in Procs : command'[p] = "daemon"}
  BY <1>2 DEF Revoke
<1>4. Gone'
  BY <1>2 DEF Revoke
<1> QED
  BY <1>1, <1>3, <1>4 DEF Revoke, AuthStates

-----------------------------------------------------------------------------
LEMMA StepKeeps ==
  ASSUME IInv, NEW p \in Procs, Step(p)
  PROVE  IInv'
<1>1. CASE Load(p) \/ Truncate(p) \/ Created(p) \/ Save(p)
  BY <1>1, FileKeeps
<1>2. CASE Open(p) \/ Identify(p) \/ Enter(p) \/ LogOut(p) \/ Clear(p)
  BY <1>2, SessionKeeps
<1>3. CASE Expire(p) \/ NotMarked(p)
  BY <1>3, DaemonKeeps
<1>4. CASE LoadFails(p) \/ Refused(p) \/ Over(p) \/ Rejected(p) \/ Remove(p)
  <2>1. Remove(p) \/ \E from \in Places : Ends(p, from)
    BY <1>4 DEF LoadFails, Refused, Over, Rejected, Places
  <2> QED
    BY <2>1, EndsKeep
<1>5. CASE Guard(p) \/ NoIdentity(p) \/ LoggedIn(p) \/ Sleeps(p) \/ Renew(p)
  <2>1. \/ \E from \in Places : Ends(p, from)
        \/ \E from \in Places, to \in Places \ {"off"} : Goes(p, from, to)
    BY <1>5 DEF Guard, NoIdentity, LoggedIn, Sleeps, Renew, Places
  <2> QED
    BY <2>1, EndsKeep, GoesKeep
<1> QED
  BY <1>1, <1>2, <1>3, <1>4, <1>5 DEF Step

\* cmd/daemon_guard.go:7, cmd/sign_out.go:22: however many processes start, are killed and
\* are told of a logout, TDLib's database is open in one of them at most, and an
\* update about the session is only ever left to a daemon that runs.
THEOREM TypeCorrect ==
  ASSUME Sound
  PROVE  Spec => [](TypeOK /\ Gone)
<1>1. Init => IInv
  BY Configs DEF Sound, Init, IInv, TypeOK, Gone, Commands, AuthStates, Places
<1>2. IInv /\ [Next]_vars => IInv'
  <2> SUFFICES ASSUME IInv, [Next]_vars PROVE IInv'
    OBVIOUS
  <2>1. CASE UNCHANGED vars
    BY <2>1 DEF vars, IInv, TypeOK, Gone
  <2>2. ASSUME NEW p \in Procs, NEW c \in Runs[p], Run(p, c)
        PROVE  IInv'
    <3>1. c \in Commands
      BY DEF Sound
    <3> QED
      BY <2>2, <3>1 DEF Run, IInv, TypeOK, Gone, Places
  <2>3. ASSUME NEW p \in Procs, Kill(p) \/ Unanswered(p)
        PROVE  IInv'
    BY <2>3, EndsKeep DEF Unanswered, Places
  <2>4. CASE DoneElsewhere
    BY <2>4 DEF DoneElsewhere, AuthStates, IInv, TypeOK, Gone
  <2> QED
    BY <2>1, <2>2, <2>3, <2>4, StepKeeps, RevokeKeeps DEF Next
<1> QED
  BY <1>1, <1>2, PTL DEF Spec, IInv
=============================================================================
