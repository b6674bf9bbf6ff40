------------------------------ MODULE MCSession ------------------------------
(***************************************************************************)
(* What lives and ends on one machine, for TLC: the processes that share   *)
(* config.json and the Telegram session (Session), and the instances of a  *)
(* component with its socket and its stream of events (Harness).  They     *)
(* share nothing with each other, so a behaviour is one of either.         *)
(***************************************************************************)
EXTENDS TLC

CONSTANTS
  p1,   \* the process, or the instance, that the properties are about
  p2    \* the one beside it

VARIABLES
  part,
  \* Session
  file, app, command, at, marking, opened, auth, update, expired,
  \* Harness
  daemon, life, loop, server, path, call, peer

sessionVars == <<file, app, command, at, marking, opened, auth, update, expired>>
harnessVars == <<daemon, life, loop, server, path, call, peer>>

Session == INSTANCE Session WITH
  Procs <- {p1, p2},
  Runs <- (p1 :> {"daemon", "login"})
       @@ (p2 :> {"other", "direct", "send", "auth", "login", "logout", "hard",
                  "daemon"})

Harness == INSTANCE Harness WITH Instances <- {p1, p2}, Callers <- {p1}

-----------------------------------------------------------------------------
MCInit == part \in {"session", "harness"} /\ Session!Init /\ Harness!Init

MCNext ==
  \/ /\ part = "session" /\ Session!Next
     /\ UNCHANGED <<part, harnessVars>>
  \/ /\ part = "harness" /\ Harness!Next
     /\ UNCHANGED <<part, sessionVars>>

MCSpec ==
  /\ MCInit /\ [][MCNext]_<<part, sessionVars, harnessVars>>
  /\ Session!Fairness /\ Harness!Fairness

-----------------------------------------------------------------------------
(* The properties of the modules.                                          *)

\* sign_in.go: a login that the user goes on answering ends, unless TDLib waits for
\* something the program has no case for (Session).
LoginEnds == Session!LoginEnds(p1)

\* telegram_transport.go: a session that ended is shown as expired (Session).
ExpiryShown == Session!ExpiryShown(p1)

\* subscribe.go: a component that is told to stop ends (Harness).
ComponentEnds == Harness!ComponentEnds(p1)
=============================================================================
