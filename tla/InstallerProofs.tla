-------------------------- MODULE InstallerProofs --------------------------
(***************************************************************************)
(* Proofs about Installer, for any processes, components and commands that *)
(* they run.                                                               *)
(***************************************************************************)
EXTENDS Installer, FiniteSetTheorems, TLAPS

\* What the proofs suppose of the constants: there is a component, and what is
\* run are commands.
Sound == Components # {} /\ Runs \in [Procs -> SUBSET Command]

USE DEF files, Move, Change, Done

-----------------------------------------------------------------------------
(* Types.                                                                  *)

\* No command is a command, and it leaves the types alone.
LEMMA LeavesType ==
  ASSUME Sound, TypeOK, NEW p \in Procs, Leaves(p)
  PROVE  TypeOK'
<1>1. Nothing \in Command /\ {} \in Registry
  BY DEF Sound, Nothing, Command, Registry
<1> QED
  BY <1>1 DEF Leaves, TypeOK

\* The parts of the catalogue that a command names are components.
LEMMA PlanType ==
  ASSUME NEW p \in Procs, command[p] \in Command, state[p] \in Registry
  PROVE  NewlyInstalled(p) \in Registry /\ Removed(p) \in Registry
  BY DEF NewlyInstalled, Removed, Requires, Command, Registry

\* The steps of activation keep the types.
LEMMA ActivationType ==
  ASSUME TypeOK, NEW p \in Procs, NEW c \in Components,
         \/ Begin(p, c) \/ Open(p, c) \/ Copy(p, c) \/ Rename(p, c)
         \/ FetchFails(p, c) \/ Service(p, c) \/ Deactivate(p, c)
  PROVE  TypeOK'
<1> USE DEF TypeOK, Registry
<1>1. CASE Begin(p, c)
  <2>1. running' \subseteq Components \union {"daemon"}
    BY <1>1 DEF Begin, EnsureDaemon
  <2> QED
    BY <1>1, <2>1 DEF Begin
<1>2. CASE Open(p, c)
  BY <1>2 DEF Open
<1>3. CASE Copy(p, c)
  <2>1. tmp' \in [Components -> {"none", "part", "whole", "mixed"}]
    BY <1>3 DEF Copy
  <2> QED
    BY <1>3, <2>1 DEF Copy
<1>4. CASE Rename(p, c)
  BY <1>4 DEF Rename
<1>5. CASE FetchFails(p, c)
  <2>1. tmp' \in [Components -> {"none", "part", "whole", "mixed"}]
    BY <1>5 DEF FetchFails
  <2>2. at' = [at EXCEPT ![p] = "act"]
    BY <1>5 DEF FetchFails
  <2>3. todo' \in [Procs -> Registry]
    BY <1>5 DEF FetchFails
  <2> QED
    BY <1>5, <2>1, <2>2, <2>3 DEF FetchFails
<1>6. CASE Service(p, c)
  <2>1. running' \subseteq Components \union {"daemon"}
    BY <1>6 DEF Service
  <2>2. todo' \in [Procs -> Registry]
    BY <1>6 DEF Service
  <2> QED
    BY <1>6, <2>1, <2>2 DEF Service
<1>7. CASE Deactivate(p, c)
  <2>1. running' \subseteq Components \union {"daemon"}
    BY <1>7 DEF Deactivate
  <2>2. todo' \in [Procs -> Registry]
    BY <1>7 DEF Deactivate
  <2> QED
    BY <1>7, <2>1, <2>2 DEF Deactivate
<1> QED
  BY <1>1, <1>2, <1>3, <1>4, <1>5, <1>6, <1>7

\* Every step keeps the types.
LEMMA TypeNext ==
  ASSUME Sound, TypeOK, [Next]_vars
  PROVE  TypeOK'
<1> USE DEF TypeOK
<1>1. ASSUME NEW p \in Procs, NEW c \in Runs[p], Run(p, c)
      PROVE  TypeOK'
  <2>1. c \in Command
    BY DEF Sound
  <2> QED
    BY <1>1, <2>1 DEF Run
<1>2. ASSUME NEW p \in Procs, Load(p)
      PROVE  TypeOK'
  BY <1>2 DEF Load
<1>3. ASSUME NEW p \in Procs, LoadFails(p) \/ Finish(p) \/ Kill(p)
      PROVE  TypeOK'
  BY <1>3, LeavesType DEF LoadFails, Finish, Kill
<1>4. ASSUME NEW p \in Procs, Seed(p)
      PROVE  TypeOK'
  <2>1. {} \in Registry /\ Components \in Registry
    BY DEF Registry
  <2>2. state' \in [Procs -> Registry]
    <3>1. PICK seed \in {{}, Components} : state' = [state EXCEPT ![p] = seed]
      BY <1>4 DEF Seed
    <3> QED
      BY <2>1, <3>1
  <2>3. at' = [at EXCEPT ![p] = "seed"]
    BY <1>4 DEF Seed
  <2> QED
    BY <1>4, <2>2, <2>3 DEF Seed
<1>5. ASSUME NEW p \in Procs, SeedNotSaved(p)
      PROVE  TypeOK'
  <2>1. at' = [at EXCEPT ![p] = "plan"]
    BY <1>5 DEF SeedNotSaved
  <2> QED
    BY <1>5, <2>1 DEF SeedNotSaved
<1>6. ASSUME NEW p \in Procs, Truncate(p)
      PROVE  TypeOK'
  <2>1. at' \in [Procs -> {"off", "load", "seed", "seeding", "plan", "save",
                           "saving", "act", "fetch", "copy", "rename", "service"}]
    BY <1>6 DEF Truncate
  <2> QED
    BY <1>6, <2>1 DEF Truncate
<1>7. ASSUME NEW p \in Procs, Write(p)
      PROVE  TypeOK'
  <2>1. at' \in [Procs -> {"off", "load", "seed", "seeding", "plan", "save",
                           "saving", "act", "fetch", "copy", "rename", "service"}]
    BY <1>7 DEF Write
  <2>2. file' \in {state[p], Broken}
    BY <1>7 DEF Write
  <2> QED
    BY <1>7, <2>1, <2>2 DEF Write
<1>8. ASSUME NEW p \in Procs, PlanInstall(p) \/ PlanUninstall(p)
      PROVE  TypeOK'
  <2>1. NewlyInstalled(p) \in Registry /\ Removed(p) \in Registry
    BY PlanType
  <2>2. /\ state[p] \union NewlyInstalled(p) \in Registry
        /\ state[p] \ Removed(p) \in Registry
    BY <2>1 DEF Registry
  <2> QED
    BY <1>8, <2>1, <2>2 DEF PlanInstall, PlanUninstall
<1>9. CASE UNCHANGED vars
  BY <1>9 DEF vars
<1> QED
  BY <1>1, <1>2, <1>3, <1>4, <1>5, <1>6, <1>7, <1>8, <1>9, ActivationType DEF Next

LEMMA TypeInit ==
  ASSUME Sound, Init
  PROVE  TypeOK
<1>1. Nothing \in Command /\ {} \in Registry
  BY DEF Sound, Nothing, Command, Registry
<1> QED
  BY <1>1 DEF Init, TypeOK

\* install.go, components.go: every variable keeps its type.
THEOREM TypeCorrect ==
  ASSUME Sound
  PROVE  Spec => []TypeOK
  BY TypeInit, TypeNext, PTL DEF Spec

-----------------------------------------------------------------------------
(* Requirements are recorded.                                              *)

Closed(installed) == \A c \in installed : Requires(c) \subseteq installed

\* Whatever a process may save is closed, as what it loaded was.
ClosedInv ==
  /\ RequirementsRecorded
  /\ \A p \in Procs : Closed(state[p])

\* No requirement has requirements, so one level of them is all.
LEMMA OneLevel ==
  ASSUME NEW c, NEW d \in Requires(c)
  PROVE  Requires(d) = {} /\ d \in Components
  BY DEF Requires

\* An install adds what it requires; an uninstall takes what depends on it.
LEMMA PlanClosed ==
  ASSUME NEW p \in Procs, state[p] \in Registry, Closed(state[p])
  PROVE  /\ Closed(state[p] \union NewlyInstalled(p))
         /\ Closed(state[p] \ Removed(p))
<1>1. Closed(state[p] \union NewlyInstalled(p))
  <2>1. SUFFICES ASSUME NEW d \in state[p] \union NewlyInstalled(p),
                        NEW e \in Requires(d)
                 PROVE  e \in state[p] \union NewlyInstalled(p)
    BY DEF Closed
  <2>2. CASE d \in state[p]
    BY <2>1, <2>2 DEF Closed
  <2>3. CASE d = command[p].name
    BY <2>1, <2>3 DEF NewlyInstalled
  <2>4. CASE d \in Requires(command[p].name)
    BY <2>1, <2>4, OneLevel
  <2> QED
    BY <2>1, <2>2, <2>3, <2>4 DEF NewlyInstalled
<1>2. Closed(state[p] \ Removed(p))
  <2>1. SUFFICES ASSUME NEW d \in state[p], d \notin Removed(p), NEW e \in Requires(d)
                 PROVE  e \in state[p] /\ e \notin Removed(p)
    BY DEF Closed
  <2>2. e \in state[p]
    BY <2>1 DEF Closed
  <2>3. e # command[p].name
    BY <2>1 DEF Removed, Dependents, Registry
  <2>4. e \notin Dependents(command[p].name)
    BY OneLevel DEF Dependents
  <2> QED
    BY <2>2, <2>3, <2>4 DEF Removed
<1> QED
  BY <1>1, <1>2

\* The marks of a file that is no registry are not closed wrongly.
LEMMA MarksClosed == Closed(Missing) /\ Closed(Empty) /\ Closed(Broken) /\ Closed({})
  BY DEF Closed, Missing, Empty, Broken, Requires

\* Every step keeps them closed.
LEMMA ClosedNext ==
  ASSUME Sound, TypeOK, ClosedInv, [Next]_vars
  PROVE  ClosedInv'
<1> USE DEF ClosedInv, RequirementsRecorded
<1> DEFINE Kept == file' = file /\ state' = state
<1>1. CASE Kept
  BY <1>1 DEF Closed, Registry, Requires
<1>2. ASSUME NEW p \in Procs, Load(p)
      PROVE  ClosedInv'
  <2>1. Closed(file) /\ file' = file
    BY <1>2 DEF Load, Closed
  <2> QED
    BY <1>2, <2>1 DEF Load, TypeOK, Registry, Requires, Closed
<1>3. ASSUME NEW p \in Procs, Leaves(p)
      PROVE  ClosedInv'
  BY <1>3, MarksClosed DEF Leaves, TypeOK, Registry, Requires, Closed
<1>4. ASSUME NEW p \in Procs, Seed(p)
      PROVE  ClosedInv'
  <2>1. Closed(Components)
    BY DEF Closed, Requires
  <2> QED
    BY <1>4, <2>1, MarksClosed DEF Seed, TypeOK, Registry, Requires, Closed
<1>5. ASSUME NEW p \in Procs, Truncate(p)
      PROVE  ClosedInv'
  <2>1. file' = Empty /\ state' = state
    BY <1>5 DEF Truncate
  <2> QED
    BY <2>1, MarksClosed DEF Registry, Requires, Closed
<1>6. ASSUME NEW p \in Procs, Write(p)
      PROVE  ClosedInv'
  <2>1. file' \in {state[p], Broken} /\ state' = state
    BY <1>6 DEF Write
  <2>2. Closed(file')
    BY <2>1, MarksClosed
  <2> QED
    BY <2>1, <2>2 DEF Registry, Requires, Closed
<1>7. ASSUME NEW p \in Procs, PlanInstall(p) \/ PlanUninstall(p)
      PROVE  ClosedInv'
  <2>1. /\ file' = file
        /\ \/ state' = [state EXCEPT ![p] = state[p] \union NewlyInstalled(p)]
           \/ state' = [state EXCEPT ![p] = state[p] \ Removed(p)]
    BY <1>7 DEF PlanInstall, PlanUninstall
  <2>2. \A q \in Procs : Closed(state'[q])
    BY <2>1, PlanClosed DEF TypeOK
  <2> QED
    BY <2>1, <2>2 DEF Registry, Requires, Closed
<1>8. CASE UNCHANGED vars
  BY <1>1, <1>8 DEF vars
<1>9. ASSUME NEW p \in Procs,
             \/ \E c \in Runs[p] : Run(p, c)
             \/ SeedNotSaved(p)
             \/ \E c \in Components :
                  \/ Begin(p, c) \/ Open(p, c) \/ Copy(p, c) \/ Rename(p, c)
                  \/ FetchFails(p, c) \/ Service(p, c) \/ Deactivate(p, c)
      PROVE  Kept
  BY <1>9 DEF Run, SeedNotSaved, Begin, Open, Copy, Rename, FetchFails, Service,
              Deactivate
<1> QED
  BY <1>1, <1>2, <1>3, <1>4, <1>5, <1>6, <1>7, <1>8, <1>9
  DEF Next, LoadFails, Finish, Kill

\* components.go:64-99: however many processes install and uninstall, fail and
\* are killed, a component is never recorded without what it requires.
THEOREM RequirementsAreRecorded ==
  ASSUME Sound
  PROVE  Spec => []RequirementsRecorded
<1>1. Init => ClosedInv
  BY MarksClosed DEF Init, ClosedInv, RequirementsRecorded, Closed, Registry
<1>2. ClosedInv => RequirementsRecorded
  BY DEF ClosedInv
<1> QED
  BY <1>1, <1>2, ClosedNext, TypeCorrect, PTL DEF Spec

-----------------------------------------------------------------------------
(* Binaries are replaced whole, where one process at a time installs.      *)

Fetching == {"fetch", "copy", "rename", "service"}

\* Only an install fetches, what it has been asked for and what that requires;
\* and what it is fetching is nobody else's, so it is the part that it has
\* written so far, and whole when it is renamed.
FetchInv ==
  /\ \A p \in Procs : command[p] = Nothing \/ command[p] \in Runs[p]
  /\ \A p \in Procs : at[p] \in Fetching => command[p].verb = "install"
  /\ \A p \in Procs : at[p] = "off" => todo[p] = {}
  /\ \A p \in Procs :
       command[p].verb = "install"
         => todo[p] \subseteq Requires(command[p].name) \union {command[p].name}
  /\ \A p \in Procs, c \in Components :
       Current(p, c) => /\ at[p] = "copy" => tmp[c] = "part"
                        /\ at[p] = "rename" => tmp[c] = "whole"
  /\ \A c \in Components : bin[c] \in {"none", "whole"}

Alone == \A p, q \in Installers : p = q

\* What Cardinality says of the processes that install.
LEMMA OneInstaller ==
  ASSUME IsFiniteSet(Procs), Cardinality(Installers) <= 1
  PROVE  Alone
<1>1. IsFiniteSet(Installers)
  BY FS_Subset DEF Installers
<1>2. SUFFICES ASSUME NEW p \in Installers, NEW q \in Installers, p # q
               PROVE  FALSE
  BY DEF Alone
<1>3. /\ IsFiniteSet(Installers \ {p})
      /\ Cardinality(Installers \ {p}) = Cardinality(Installers) - 1
  BY <1>1, FS_RemoveElement
<1>4. Cardinality(Installers \ {p}) # 0
  BY <1>2, <1>3, FS_EmptySet
<1> QED
  BY <1>1, <1>3, <1>4, FS_CardinalityType

\* So two that fetch are one.
LEMMA OneFetcher ==
  ASSUME Alone, FetchInv, NEW p \in Procs, NEW q \in Procs,
         command[p].verb = "install", command[q].verb = "install"
  PROVE  p = q
<1>1. ASSUME NEW r \in Procs, command[r].verb = "install"
      PROVE  r \in Installers
  <2>1. Nothing.verb = "status"
    BY DEF Nothing
  <2>2. command[r] \in Runs[r]
    BY <1>1, <2>1 DEF FetchInv
  <2> QED
    BY <1>1, <2>2 DEF Installers
<1> QED
  BY <1>1 DEF Alone

\* An install is at one component at a time.
LEMMA OneCurrent ==
  ASSUME FetchInv, NEW p \in Procs, command[p].verb = "install",
         NEW c, NEW d, Current(p, c), Current(p, d)
  PROVE  c = d
  BY DEF FetchInv, Current, Requires

\* What others do leaves one alone.
LEMMA OthersFetch ==
  ASSUME FetchInv, NEW p \in Procs, tmp' = tmp, bin' = bin,
         \A q \in Procs \ {p} : /\ at'[q] = at[q]
                                /\ command'[q] = command[q]
                                /\ todo'[q] = todo[q],
         command'[p] = Nothing \/ command'[p] \in Runs[p],
         at'[p] \notin Fetching \/ (at'[p] \in {"fetch", "service"} /\ command'[p].verb = "install"),
         at'[p] = "off" => todo'[p] = {},
         command'[p].verb = "install"
           => todo'[p] \subseteq Requires(command'[p].name) \union {command'[p].name}
  PROVE  FetchInv'
  BY DEF FetchInv, Current, Fetching

\* Open, Copy and Rename, and the ways they fail.
LEMMA FetchNext ==
  ASSUME TypeOK, Alone, FetchInv, NEW p \in Procs, NEW c \in Components,
         Open(p, c) \/ Copy(p, c) \/ Rename(p, c) \/ FetchFails(p, c)
  PROVE  FetchInv'
<1>1. /\ command[p].verb = "install"
      /\ Current(p, c)
      /\ command' = command
  BY DEF Open, Copy, Rename, FetchFails, FetchInv, Fetching
<1>2. \A q \in Procs : /\ q # p => at'[q] = at[q] /\ todo'[q] = todo[q]
                       /\ q # p => at[q] \notin Fetching
                       /\ todo'[q] \subseteq todo[q]
  <2>1. \A q \in Procs : q # p => at[q] \notin Fetching
    BY <1>1, OneFetcher DEF FetchInv
  <2> QED
    BY <2>1 DEF Open, Copy, Rename, FetchFails, TypeOK
<1>3. /\ \A q \in Procs : at'[q] \in Fetching => command'[q].verb = "install"
      /\ \A q \in Procs : at'[q] = "off" => todo'[q] = {}
      /\ \A q \in Procs :
           command'[q].verb = "install"
             => todo'[q] \subseteq Requires(command'[q].name) \union {command'[q].name}
  <2>1. at'[p] # "off"
    BY DEF Open, Copy, Rename, FetchFails, TypeOK
  <2> QED
    BY <1>1, <1>2, <2>1 DEF FetchInv
<1>4. SUFFICES
        /\ \A d \in Components :
             Current(p, d)' => /\ at'[p] = "copy" => tmp'[d] = "part"
                               /\ at'[p] = "rename" => tmp'[d] = "whole"
        /\ \A d \in Components : bin'[d] \in {"none", "whole"}
  BY <1>1, <1>2, <1>3 DEF FetchInv, Fetching
<1>5. CASE Open(p, c)
  <2>1. tmp'[c] = "part" /\ bin' = bin /\ at'[p] = "copy"
    BY <1>2, <1>5 DEF Open, Copies, Fetching, TypeOK
  <2>2. \A d \in Components : Current(p, d)' => d = c
    BY <1>1, <1>5, OneCurrent DEF Open, Current
  <2> QED
    BY <2>1, <2>2 DEF FetchInv
<1>6. CASE Copy(p, c)
  <2>1. tmp'[c] = "whole" /\ bin' = bin /\ at'[p] = "rename"
    BY <1>1, <1>6 DEF Copy, FetchInv, TypeOK
  <2>2. \A d \in Components : Current(p, d)' => d = c
    BY <1>1, <1>6, OneCurrent DEF Copy, Current
  <2> QED
    BY <2>1, <2>2 DEF FetchInv
<1>7. CASE Rename(p, c)
  <2>1. tmp[c] = "whole" /\ at'[p] = "service"
    BY <1>1, <1>7 DEF Rename, FetchInv, TypeOK
  <2>2. bin' = [bin EXCEPT ![c] = tmp[c]]
    BY <1>7 DEF Rename
  <2> QED
    BY <2>1, <2>2 DEF FetchInv, TypeOK
<1>8. CASE FetchFails(p, c)
  <2>1. at'[p] = "act" /\ bin' = bin
    BY <1>8 DEF FetchFails, TypeOK
  <2> QED
    BY <2>1 DEF FetchInv
<1> QED
  BY <1>5, <1>6, <1>7, <1>8

\* Every other step.
LEMMA FetchKept ==
  ASSUME Sound, TypeOK, Alone, FetchInv, [Next]_vars
  PROVE  FetchInv'
<1>1. CASE UNCHANGED vars
  BY <1>1 DEF vars, FetchInv, Current
<1>2. ASSUME NEW p \in Procs, NEW c \in Runs[p], Run(p, c)
      PROVE  FetchInv'
  <2>1. todo'[p] \subseteq Requires(c.name) \union {c.name}
    BY <1>2 DEF Run, FetchInv
  <2> QED
    BY <1>2, <2>1, OthersFetch DEF Run, TypeOK, Fetching
<1>3. ASSUME NEW p \in Procs, Leaves(p)
      PROVE  FetchInv'
  BY <1>3, OthersFetch DEF Leaves, TypeOK, Fetching
<1>4. ASSUME NEW p \in Procs,
             Load(p) \/ Seed(p) \/ SeedNotSaved(p) \/ Truncate(p) \/ Write(p)
      PROVE  FetchInv'
  <2>1. /\ tmp' = tmp /\ bin' = bin /\ command' = command /\ todo' = todo
        /\ \A q \in Procs \ {p} : at'[q] = at[q]
        /\ at'[p] \notin Fetching \union {"off"}
    BY <1>4 DEF Load, Seed, SeedNotSaved, Truncate, Write, TypeOK, Fetching
  <2> QED
    BY <2>1, OthersFetch DEF FetchInv
<1>5. ASSUME NEW p \in Procs, PlanInstall(p) \/ PlanUninstall(p)
      PROVE  FetchInv'
  <2>1. /\ tmp' = tmp /\ bin' = bin /\ command' = command
        /\ \A q \in Procs \ {p} : at'[q] = at[q] /\ todo'[q] = todo[q]
        /\ at'[p] = "save"
    BY <1>5 DEF PlanInstall, PlanUninstall, TypeOK
  <2>2. command[p].verb = "install"
          => todo'[p] \subseteq Requires(command[p].name) \union {command[p].name}
    BY <1>5 DEF PlanInstall, PlanUninstall, NewlyInstalled, TypeOK
  <2> QED
    BY <2>1, <2>2, OthersFetch DEF FetchInv, Fetching
<1>6. ASSUME NEW p \in Procs, NEW c \in Components,
             Begin(p, c) \/ Service(p, c) \/ Deactivate(p, c)
      PROVE  FetchInv'
  <2>1. /\ tmp' = tmp /\ bin' = bin /\ command' = command
        /\ \A q \in Procs \ {p} : at'[q] = at[q] /\ todo'[q] = todo[q]
        /\ todo'[p] \subseteq todo[p]
        /\ at'[p] = "act" \/ (at'[p] = "fetch" /\ command[p].verb = "install")
    BY <1>6 DEF Begin, Service, Deactivate, TypeOK
  <2> QED
    BY <2>1, OthersFetch DEF FetchInv, Fetching
<1> QED
  BY <1>1, <1>2, <1>3, <1>4, <1>5, <1>6, FetchNext
  DEF Next, LoadFails, Finish, Kill

\* install.go:452, "atomic replace": among any number of processes, as long as
\* only one of them ever installs, no step, failure or kill leaves a binary that
\* is not a complete download.
THEOREM BinariesAreWhole ==
  ASSUME Sound, IsFiniteSet(Procs)
  PROVE  Spec => []WholeBinary
<1> DEFINE Inv == Cardinality(Installers) <= 1 => FetchInv
<1>1. Init => Inv
  BY DEF Init, FetchInv, Fetching, Nothing, Current
<1>2. TypeOK /\ Inv /\ [Next]_vars => Inv'
  <2> SUFFICES ASSUME TypeOK, Inv, [Next]_vars, Cardinality(Installers) <= 1
               PROVE  FetchInv'
    OBVIOUS
  <2> QED
    BY OneInstaller, FetchKept
<1>3. Inv => WholeBinary
  BY DEF FetchInv, WholeBinary
<1> QED
  BY <1>1, <1>2, <1>3, TypeCorrect, PTL DEF Spec
=============================================================================
