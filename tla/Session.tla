------------------------------ MODULE Session ------------------------------
(***************************************************************************)
(* The Telegram session and config.json, as the processes of one account   *)
(* share them: the commands of zc (cmd/), and the comms daemon among them  *)
(* (`zc init agent').                                                      *)
(*                                                                         *)
(* Every process begins by loading config.json and saving it again, and    *)
(* works on the copy it loaded; a save truncates the file and then writes  *)
(* it.  The session itself is TDLib's: its database is open in one process *)
(* at a time, and it is ready, or waits for something of the login.        *)
(***************************************************************************)
CONSTANTS
  Procs,  \* processes; each runs one command after another
  Runs    \* the commands each process may run

\* "send" stands for those that sign in on their way (send, ask), "direct" for
\* those that need a session (send-file, read, ...), "other" for those that do
\* without.
Commands == {"other", "direct", "send", "auth", "login", "logout", "hard", "daemon"}

\* What TDLib waits for.  "other" is whatever the program has no case for: a
\* registration, an e-mail address, a confirmation on another device.
AuthStates == {"phone", "code", "password", "other", "ready"}

\* The contents of config.json that matter: auth_state, and whether the user's
\* name and phone number are there.
Config == [auth : {"authorized", "unauthorized"}, known : BOOLEAN]
Default == [auth |-> "unauthorized", known |-> FALSE]
Identified == [auth |-> "authorized", known |-> TRUE]

\* What else the file may be: not there, truncated, or a short configuration
\* written over a longer one, which is no JSON.
Missing == [auth |-> "missing", known |-> FALSE]
Empty   == [auth |-> "empty", known |-> FALSE]
Broken  == [auth |-> "broken", known |-> FALSE]

Unreadable == {Empty, Broken}

VARIABLES
  file,      \* config.json
  app,       \* the copy each process works on
  command,   \* the command it runs
  at,        \* where it is in it
  marking,   \* daemons that are recording a remote logout
  opened,    \* the process that has TDLib's database open
  auth,      \* TDLib's authorization state
  update,    \* daemons with an update about their session still to handle
  expired    \* daemons whose Telegram transport shows session_expired

tdlib  == <<opened, auth>>
daemon == <<marking, update, expired>>
vars == <<file, app, command, at, tdlib, daemon>>

Places == {"off", "load", "create", "creating", "loaded", "open", "opened",
           "loop", "logout", "clear", "save", "saving", "remove", "serving"}

Init ==
  /\ file = Missing
  /\ app = [p \in Procs |-> Default]
  /\ command = [p \in Procs |-> "other"]
  /\ at = [p \in Procs |-> "off"]
  /\ marking = {}
  /\ opened = {}
  /\ auth = "phone"
  /\ update = {}
  /\ expired = {}

Move(p, from, to) == at[p] = from /\ at' = [at EXCEPT ![p] = to]

\* The process ends, and leaves nothing; TDLib closes its database with it.
Leaves(p) ==
  /\ app' = [app EXCEPT ![p] = Default]
  /\ command' = [command EXCEPT ![p] = "other"]
  /\ opened' = opened \ {p}
  /\ marking' = marking \ {p}
  /\ update' = update \ {p}
  /\ expired' = expired \ {p}

Ends(p, from) == Move(p, from, "off") /\ Leaves(p) /\ UNCHANGED <<file, auth>>

\* A step that only goes on.
Goes(p, from, to) ==
  Move(p, from, to) /\ UNCHANGED <<file, app, command, tdlib, daemon>>

-----------------------------------------------------------------------------
(* LoadOrCreate and Save.                                                  *)

Run(p, c) ==
  /\ Move(p, "off", "load")
  /\ command' = [command EXCEPT ![p] = c]
  /\ UNCHANGED <<file, app, tdlib, daemon>>

\* loadConfigIfExists and applyDefaults.
Load(p) ==
  /\ Move(p, "load", "create")
  /\ file \notin Unreadable
  /\ app' = [app EXCEPT ![p] = IF file = Missing THEN Default ELSE file]
  /\ UNCHANGED <<file, command, tdlib, daemon>>

\* A file that is no JSON: the command fails.
LoadFails(p) ==
  /\ file \in Unreadable
  /\ p \notin marking
  /\ Ends(p, "load")

\* os.WriteFile opens the file with O_TRUNC ...
Truncate(p) ==
  /\ \/ Move(p, "create", "creating")
     \/ Move(p, "save", "saving")
  /\ file' = Empty
  /\ UNCHANGED <<app, command, tdlib, daemon>>

\* The longer of two configurations: "unauthorized" is longer than "authorized",
\* a name and a number are longer than none.
Longer(c, d) ==
  \/ c.known /\ ~d.known
  \/ c.known = d.known /\ c.auth = "unauthorized" /\ d.auth = "authorized"

\* ... and writes from its start.  What another process wrote meanwhile is
\* overwritten, and its end remains when it is longer.
Written(c) ==
  IF file = Broken \/ (file \in Config /\ Longer(file, c)) THEN Broken ELSE c

\* Where a process goes when it has saved its copy.
Saved(p) ==
  CASE p \in marking -> "serving"
    [] command[p] = "hard" -> "remove"
    [] command[p] = "daemon" -> "serving"
    [] OTHER -> "off"

Created(p) ==
  /\ Move(p, "creating", IF p \in marking THEN "save" ELSE "loaded")
  /\ file' = Written(app[p])
  /\ app' = IF p \in marking THEN [app EXCEPT ![p].auth = "unauthorized"] ELSE app
  /\ UNCHANGED <<command, tdlib, daemon>>

Save(p) ==
  /\ Move(p, "saving", Saved(p))
  /\ file' = Written(app[p])
  /\ IF Saved(p) = "off" THEN Leaves(p) ELSE
       /\ expired' = IF p \in marking THEN expired \union {p} ELSE expired
       /\ marking' = marking \ {p}
       /\ UNCHANGED <<app, command, opened, update>>
  /\ UNCHANGED auth

-----------------------------------------------------------------------------
(* Opening the session.                                                    *)

\* daemonRunning: a daemon answers on the socket.
DaemonRunning == \E q \in Procs : at[q] = "serving" \/ q \in marking

\* requireNoDaemon, and the sends that go through the daemon when there is one.
Guard(p) ==
  IF command[p] = "other" \/ (command[p] # "daemon" /\ DaemonRunning)
  THEN Ends(p, "loaded")
  ELSE Goes(p, "loaded", "open")

\* ApplyTdlibParameters: TDLib refuses a database that is open elsewhere.
Open(p) ==
  /\ opened = {}
  /\ Move(p, "open", IF command[p] \in {"login", "send"} THEN "loop" ELSE
                     IF command[p] \in {"logout", "hard"} THEN "logout"
                     ELSE "opened")
  /\ opened' = {p}
  /\ UNCHANGED <<file, app, command, auth, daemon>>

Refused(p) == opened # {} /\ Ends(p, "open")

\* The session is ready: PersistIdentity.
Identify(p) ==
  /\ command[p] \in {"auth", "daemon"}
  /\ p \in opened
  /\ auth = "ready"
  /\ Move(p, "opened", "save")
  /\ app' = [app EXCEPT ![p] = Identified]
  /\ UNCHANGED <<file, command, tdlib, daemon>>

\* getMe fails: `auth' is over, the daemon goes on without an identity.
NoIdentity(p) ==
  /\ command[p] = "daemon"
  /\ p \in opened
  /\ auth = "ready"
  /\ Goes(p, "opened", "serving")

\* The session is not ready, a command on it is done, or a request fails.
Over(p) == Ends(p, "opened")

-----------------------------------------------------------------------------
(* zc tg login, and the same loop in send and ask.                         *)

\* One round of the loop: the owner gives what TDLib waits for.
Enter(p) ==
  /\ at[p] = "loop"
  /\ p \in opened
  /\ \/ auth = "phone" /\ auth' \in {"code", "other"}
     \/ auth = "code" /\ auth' \in {"password", "other", "ready"}
     \/ auth = "password" /\ auth' = "ready"
  /\ UNCHANGED <<file, app, command, at, opened, daemon>>

\* What he gives is wrong, or the input ends: the command fails.
Rejected(p) ==
  p \in opened /\ auth \in {"phone", "code", "password"} /\ Ends(p, "loop")

\* A state without a case: the loop sleeps and asks again, and nothing has changed.
Sleeps(p) == p \in opened /\ auth = "other" /\ Goes(p, "loop", "loop")

\* It may always happen that TDLib does not answer, and the command fails.
Unanswered(p) == p \in opened /\ auth = "other" /\ Ends(p, "loop")

\* Nothing is saved: auth_state is left to `zc tg auth' and to the daemon.
LoggedIn(p) ==
  /\ p \in opened
  /\ auth = "ready"
  /\ IF command[p] = "login" THEN Ends(p, "loop") ELSE Goes(p, "loop", "opened")

\* Wrong: a closed client is asked again and again.
RenewNot(p) == Goes(p, "loop", "loop")

\* TDLib was closed, or must be initialised again: login makes a new client, and
\* send and ask fail.
Renew(p) ==
  /\ p \notin opened
  /\ IF command[p] = "login" THEN Goes(p, "loop", "open") ELSE Ends(p, "loop")

-----------------------------------------------------------------------------
(* zc tg logout.                                                           *)

\* logOut, whose error is ignored; when it works TDLib closes the database.
LogOut(p) ==
  /\ Move(p, "logout", "clear")
  /\ \/ auth' = "phone" /\ opened' = {}
     \/ UNCHANGED tdlib
  /\ UNCHANGED <<file, app, command, daemon>>

\* clearLocalSessionState, once TDLib has left Ready or five seconds are over.
Clear(p) ==
  /\ Move(p, "clear", "save")
  /\ app' = [app EXCEPT ![p] = Default]
  /\ UNCHANGED <<file, command, tdlib, daemon>>

\* removeTdlibDirWithRetry: the session goes with the database.
Remove(p) ==
  /\ Move(p, "remove", "off")
  /\ Leaves(p)
  /\ auth' = "phone"
  /\ UNCHANGED file

-----------------------------------------------------------------------------
(* The daemon, and Telegram.                                               *)

\* dispatchUpdate: LoggingOut or Closed.
Expire(p) ==
  /\ p \in update
  /\ Move(p, "serving", "load")
  /\ update' = update \ {p}
  /\ marking' = marking \union {p}
  /\ UNCHANGED <<file, app, command, tdlib, expired>>

\* Wrong: an unreadable config.json ends the handler.
NotMarkedSilently(p) ==
  /\ file \in Unreadable
  /\ p \in marking
  /\ Move(p, "load", "serving")
  /\ marking' = marking \ {p}
  /\ UNCHANGED <<file, app, command, tdlib, update, expired>>

\* markConfigUnauthorized gives up on an unreadable config.json.
NotMarked(p) ==
  /\ file \in Unreadable
  /\ p \in marking
  /\ Move(p, "load", "serving")
  /\ marking' = marking \ {p}
  /\ expired' = expired \union {p}
  /\ UNCHANGED <<file, app, command, tdlib, update>>

\* The session is ended from another device.  The daemon's client is told and
\* closed; without a process that has it open, the next one finds out.
Revoke ==
  /\ auth = "ready"
  /\ auth' = "phone"
  /\ opened' = {}
  /\ update' = update \union {p \in opened : command[p] = "daemon"}
  /\ UNCHANGED <<file, app, command, at, marking, expired>>

\* The owner does elsewhere what the program has no case for.
DoneElsewhere ==
  /\ auth = "other"
  /\ opened # {}
  /\ auth' \in {"password", "ready"}
  /\ UNCHANGED <<file, app, command, at, opened, daemon>>

\* The daemon is stopped, or a process dies.
Kill(p) ==
  /\ at[p] # "off"
  /\ at' = [at EXCEPT ![p] = "off"]
  /\ Leaves(p)
  /\ UNCHANGED <<file, auth>>

-----------------------------------------------------------------------------
Step(p) == \/ Load(p)
           \/ LoadFails(p)
           \/ Truncate(p)
           \/ Created(p)
           \/ Save(p)
           \/ Guard(p)
           \/ Open(p)
           \/ Refused(p)
           \/ Identify(p)
           \/ NoIdentity(p)
           \/ Over(p)
           \/ Enter(p)
           \/ Rejected(p)
           \/ Sleeps(p)
           \/ LoggedIn(p)
           \/ Renew(p)
           \/ LogOut(p)
           \/ Clear(p)
           \/ Remove(p)
           \/ Expire(p)
           \/ NotMarked(p)

Next == \/ Revoke
        \/ DoneElsewhere
        \/ \E p \in Procs :
             \/ \E c \in Runs[p] : Run(p, c)
             \/ Step(p)
             \/ Unanswered(p)
             \/ Kill(p)

Spec == Init /\ [][Next]_vars

\* Processes that run go on, and the owner answers a prompt or gives up.  Nobody
\* need do anything elsewhere, and TDLib need not fail.
Fairness == \A p \in Procs : WF_vars(Step(p))

FairSpec == Spec /\ Fairness

-----------------------------------------------------------------------------
(* Properties.                                                             *)

TypeOK ==
  /\ file \in Config \union Unreadable \union {Missing}
  /\ app \in [Procs -> Config]
  /\ command \in [Procs -> Commands]
  /\ at \in [Procs -> Places]
  /\ marking \subseteq Procs
  /\ \E p \in Procs : opened \subseteq {p}
  /\ auth \in AuthStates
  /\ update \subseteq {p \in Procs : command[p] = "daemon"}
  /\ expired \subseteq Procs

\* A login ends or gets a session, although TDLib may be closed under it and its
\* database be open elsewhere; or its TDLib waits for something that the program
\* has no case for, which is asked about for ever.
LoginEnds(p) ==
  at[p] = "loop" ~> \/ at[p] = "off"
                    \/ auth = "ready"
                    \/ p \in opened /\ auth = "other"

\* A remote logout comes to be shown by the daemon that is told of it, whatever
\* other commands do to config.json meanwhile.
ExpiryShown(p) == p \in update ~> p \in expired \/ at[p] = "off"

-----------------------------------------------------------------------------
(* A claim of the repository that the code does not keep.                  *)

\* telegram_transport.go: "A remote logout: keep config.json honest".  When the
\* daemon has recorded one and no other process runs, the file does not say that
\* the session is authorized.
ConfigHonest ==
  \A p \in expired :
    at[p] = "serving" /\ (\A q \in Procs \ {p} : at[q] = "off")
      => file.auth # "authorized"

=============================================================================
