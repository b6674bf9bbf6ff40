----------------------------- MODULE Installer -----------------------------
(***************************************************************************)
(* `zc install' and `zc uninstall' (cmd/install.go) over the registry of   *)
(* components (internal/components): processes load components.json, plan, *)
(* save the whole of it, and then go through the components they changed,  *)
(* fetching their binaries and starting or stopping their services.  The   *)
(* file is not locked and nothing is undone when a later step fails.       *)
(***************************************************************************)
EXTENDS Naturals, FiniteSets

CONSTANTS
  Procs,       \* processes; each runs one command after another
  Components,  \* installables considered, by their names in the registry
  Runs         \* per process: the commands it may run

\* What a component requires.  No requirement has requirements of its own.
Requires(c) ==
  IF c \in {"team", "console"} THEN {"agent"} \cap Components ELSE {}

Dependents(c) == {d \in Components : c \in Requires(d)}

\* components.json, when it is not a set of installed components.
Missing == {"missing"}
Empty   == {"empty"}    \* truncated
Broken  == {"broken"}   \* a short file written over a longer one

Registry == SUBSET Components

\* The commands; --force is for `zc install'.
Command == [verb : {"status", "install", "uninstall"}, name : Components,
            force : BOOLEAN]

Nothing == [verb |-> "status", name |-> CHOOSE c \in Components : TRUE,
            force |-> FALSE]

VARIABLES
  file,     \* components.json
  at,       \* where each process is
  command,  \* what it runs
  state,    \* the copy of the registry it works on
  todo,     \* the components it has changed and not yet dealt with
  tmp,      \* per component: the file it is downloaded to
  bin,      \* and its binary in ~/.local/bin
  running   \* the services that run, "daemon" for the comms daemon

files == <<tmp, bin, running>>
vars == <<file, at, command, state, todo, files>>

Init ==
  /\ file \in {Missing, {}}
  /\ at = [p \in Procs |-> "off"]
  /\ command = [p \in Procs |-> Nothing]
  /\ state = [p \in Procs |-> {}]
  /\ todo = [p \in Procs |-> {}]
  /\ tmp = [c \in Components |-> "none"]
  /\ bin = [c \in Components |-> "none"]
  /\ running = {}

Move(p, from, to) == at[p] = from /\ at' = [at EXCEPT ![p] = to]

\* The command is over, or its process is killed.
Leaves(p) ==
  /\ at' = [at EXCEPT ![p] = "off"]
  /\ command' = [command EXCEPT ![p] = Nothing]
  /\ state' = [state EXCEPT ![p] = {}]
  /\ todo' = [todo EXCEPT ![p] = {}]
  /\ UNCHANGED <<file, files>>

-----------------------------------------------------------------------------
(* The registry.                                                           *)

Run(p, c) ==
  /\ Move(p, "off", "load")
  /\ command' = [command EXCEPT ![p] = c]
  /\ UNCHANGED <<file, state, todo, files>>

Load(p) ==
  /\ Move(p, "load", "plan")
  /\ file \in Registry
  /\ state' = [state EXCEPT ![p] = file]
  /\ UNCHANGED <<file, command, todo, files>>

LoadFails(p) ==
  /\ at[p] = "load"
  /\ file \in {Empty, Broken}
  /\ Leaves(p)

\* No file: everything, when the agent was there before the registry was, and
\* otherwise nothing.
Seed(p) ==
  /\ Move(p, "load", "seed")
  /\ file = Missing
  /\ \E seed \in {{}, Components} : state' = [state EXCEPT ![p] = seed]
  /\ UNCHANGED <<file, command, todo, files>>

\* The seed is saved if it can be.
SeedNotSaved(p) ==
  /\ Move(p, "seed", "plan")
  /\ UNCHANGED <<file, command, state, todo, files>>

\* os.WriteFile truncates ...
Truncate(p) ==
  /\ Move(p, "seed", "seeding") \/ Move(p, "save", "saving")
  /\ file' = Empty
  /\ UNCHANGED <<command, state, todo, files>>

\* Wrong: each process saves its own changes over the latest registry.
WriteMerged(p) ==
  /\ Move(p, "seeding", "plan") \/ Move(p, "save", "act")
  /\ file \in Registry
  /\ file' = IF command[p].verb = "uninstall" THEN file \ todo[p]
             ELSE file \union todo[p]
  /\ UNCHANGED <<command, state, todo, files>>

\* ... and writes from the start of the file.  What another process wrote in
\* between is overwritten, all of it or not as it is longer or shorter.
Write(p) ==
  /\ Move(p, "seeding", "plan") \/ Move(p, "saving", "act")
  /\ file' \in IF file \in {Empty, state[p]} THEN {state[p]}
               ELSE {state[p], Broken}
  /\ UNCHANGED <<command, state, todo, files>>

Change(p, installed, changed) ==
  /\ state' = [state EXCEPT ![p] = installed]
  /\ todo' = [todo EXCEPT ![p] = changed]
  /\ UNCHANGED <<file, command, files>>

\* runInstall: the requirements that are not installed yet, and the component
\* unless it is; with --force the component in any case.
NewlyInstalled(p) ==
  LET c == command[p].name IN
    {d \in Requires(c) \union {c} : d \notin state[p] \/ (command[p].force /\ d = c)}

\* Wrong: what depends on the component stays.
RemovedAlone(p) == {command[p].name} \cap state[p]

\* runUninstall: the component, and what depends on it.
Removed(p) ==
  LET c == command[p].name IN (Dependents(c) \union {c}) \cap state[p]

PlanInstall(p) ==
  /\ command[p].verb = "install"
  /\ NewlyInstalled(p) # {}
  /\ Move(p, "plan", "save")
  /\ Change(p, state[p] \union NewlyInstalled(p), NewlyInstalled(p))

PlanUninstall(p) ==
  /\ command[p].verb = "uninstall"
  /\ Removed(p) # {}
  /\ Move(p, "plan", "save")
  /\ Change(p, state[p] \ Removed(p), Removed(p))

NothingToDo(p) ==
  CASE command[p].verb = "install" -> NewlyInstalled(p) = {}
    [] command[p].verb = "uninstall" -> Removed(p) = {}
    [] OTHER -> TRUE

\* `zc install' alone lists the registry; there may be nothing to do; and a
\* file that cannot be written ends the command.
Finish(p) ==
  /\ \/ at[p] = "plan" /\ NothingToDo(p)
     \/ at[p] \in {"save", "saving"}
     \/ at[p] = "act" /\ todo[p] = {}
  /\ Leaves(p)

-----------------------------------------------------------------------------
(* Activation, one component after the other.                              *)

\* The next one: requirements come first, or last when they are removed.
Current(p, c) ==
  /\ c \in todo[p]
  /\ IF command[p].verb = "install" THEN Requires(c) \cap todo[p] = {}
     ELSE Dependents(c) \cap todo[p] = {}

Done(p, c) == todo' = [todo EXCEPT ![p] = @ \ {c}]

\* ensureDaemonService and restartDaemon: the comms daemon's unit is written,
\* enabled and restarted, or not: a failure is only reported.
EnsureDaemon == running' \in {running, running \union {"daemon"}}

\* activateComponent begins with the comms daemon when it is the agent's turn.
Begin(p, c) ==
  /\ command[p].verb = "install"
  /\ Current(p, c)
  /\ Move(p, "act", "fetch")
  /\ IF c = "agent" THEN EnsureDaemon ELSE UNCHANGED running
  /\ UNCHANGED <<file, command, state, todo, tmp, bin>>

Copies(p, c) == at[p] = "copy" /\ Current(p, c)

\* Wrong: the download is written to where the binary is.
OpenInPlace(p, c) ==
  /\ Current(p, c)
  /\ Move(p, "fetch", "copy")
  /\ tmp' = [tmp EXCEPT ![c] = "part"]
  /\ bin' = [bin EXCEPT ![c] = "part"]
  /\ UNCHANGED <<file, command, state, todo, running>>

\* fetchComponentBinary opens <binary>.download, for whoever fetches it ...
Open(p, c) ==
  /\ Current(p, c)
  /\ Move(p, "fetch", "copy")
  /\ tmp' = [tmp EXCEPT ![c] =
               IF \E q \in Procs \ {p} : Copies(q, c) THEN "mixed" ELSE "part"]
  /\ UNCHANGED <<file, command, state, todo, bin, running>>

\* ... copies the download into it ...
Copy(p, c) ==
  /\ Current(p, c)
  /\ Move(p, "copy", "rename")
  /\ tmp' = [tmp EXCEPT ![c] = IF @ = "part" THEN "whole" ELSE @]
  /\ UNCHANGED <<file, command, state, todo, bin, running>>

\* ... and renames it.
Rename(p, c) ==
  /\ Current(p, c)
  /\ Move(p, "rename", "service")
  /\ tmp[c] # "none"
  /\ bin' = [bin EXCEPT ![c] = tmp[c]]
  /\ tmp' = [tmp EXCEPT ![c] = "none"]
  /\ UNCHANGED <<file, command, state, todo, running>>

\* No release for this platform, or no network; the download breaks off, and the
\* file is removed; another process has renamed it.  A failure is only reported.
FetchFails(p, c) ==
  /\ Current(p, c)
  /\ \/ Move(p, "fetch", "act") /\ UNCHANGED tmp
     \/ Move(p, "copy", "act") /\ tmp' = [tmp EXCEPT ![c] = "none"]
     \/ Move(p, "rename", "act") /\ tmp' = [tmp EXCEPT ![c] = "none"]
  /\ Done(p, c)
  /\ UNCHANGED <<file, command, state, bin, running>>

\* ensureComponentService: the unit is written, enabled and restarted, or not.
Service(p, c) ==
  /\ Current(p, c)
  /\ Move(p, "service", "act")
  /\ running' \in {running, running \union {c}, running \ {c}}
  /\ Done(p, c)
  /\ UNCHANGED <<file, command, state, tmp, bin>>

\* deactivateComponent: `systemctl disable --now', whether it succeeds or not.
Deactivate(p, c) ==
  /\ command[p].verb = "uninstall"
  /\ Current(p, c)
  /\ Move(p, "act", "act")
  /\ running' \in {running, running \ {c}}
  /\ Done(p, c)
  /\ UNCHANGED <<file, command, state, tmp, bin>>

Kill(p) == at[p] # "off" /\ Leaves(p)

Next ==
  \E p \in Procs :
    \/ \E c \in Runs[p] : Run(p, c)
    \/ Load(p) \/ LoadFails(p) \/ Seed(p) \/ SeedNotSaved(p)
    \/ Truncate(p) \/ Write(p)
    \/ PlanInstall(p) \/ PlanUninstall(p) \/ Finish(p)
    \/ \E c \in Components :
         \/ Begin(p, c) \/ Open(p, c) \/ Copy(p, c) \/ Rename(p, c)
         \/ FetchFails(p, c) \/ Service(p, c) \/ Deactivate(p, c)
    \/ Kill(p)

Spec == Init /\ [][Next]_vars

-----------------------------------------------------------------------------
(* Safety.                                                                 *)

\* Every variable has its type.
TypeOK ==
  /\ file \in Registry \union {Missing, Empty, Broken}
  /\ at \in [Procs -> {"off", "load", "seed", "seeding", "plan", "save", "saving",
                       "act", "fetch", "copy", "rename", "service"}]
  /\ command \in [Procs -> Command]
  /\ state \in [Procs -> Registry]
  /\ todo \in [Procs -> Registry]
  /\ tmp \in [Components -> {"none", "part", "whole", "mixed"}]
  /\ bin \in [Components -> {"none", "part", "whole", "mixed"}]
  /\ running \subseteq Components \union {"daemon"}

\* components.go:64-99: whatever commands overlap or are killed, a component is
\* recorded together with all that it requires.
RequirementsRecorded ==
  file \in Registry => \A c \in file : Requires(c) \subseteq file

Installers == {p \in Procs : \E c \in Runs[p] : c.verb = "install"}

\* install.go:452, "atomic replace": while one process at a time installs, the
\* binary of a component is a complete download, whatever fails or is killed.
WholeBinary ==
  Cardinality(Installers) <= 1 =>
    \A c \in Components : bin[c] \in {"none", "whole"}

\* install.go:452 again, of several that install at the same time: they share
\* the .download file, so one may rename what another is still writing.
WholeBinaryEver == \A c \in Components : bin[c] \in {"none", "whole"}
=============================================================================
