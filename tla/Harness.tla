------------------------------ MODULE Harness ------------------------------
(***************************************************************************)
(* The runtime of a component above the comms daemon (client/harness.go,   *)
(* subscribe.go, module.go): Run subscribes to the daemon's events for as  *)
(* long as the component lives, ServeCommands answers its command socket,  *)
(* and ModuleCommand dials that socket from a command of zc.               *)
(*                                                                         *)
(* The socket is a name in the app directory.  Whoever listens removes it  *)
(* first, and removes it again when it ends, whoever's it is by then.      *)
(***************************************************************************)
CONSTANTS
  Instances,  \* processes of the component, one after the other or not
  Callers     \* commands of zc that drive it

VARIABLES
  daemon,   \* whether the comms daemon listens
  life,     \* per instance: off, on, or told to stop
  loop,     \* where its Run is
  server,   \* where its ServeCommands is
  path,     \* the instance whose socket the name leads to, if any
  call,     \* per caller: where ModuleCommand is
  peer      \* and the instances that have its connection

vars == <<daemon, life, loop, server, path, call, peer>>

Init ==
  /\ daemon = "down"
  /\ life = [i \in Instances |-> "off"]
  /\ loop = [i \in Instances |-> "off"]
  /\ server = [i \in Instances |-> "off"]
  /\ path = {}
  /\ call = [c \in Callers |-> "idle"]
  /\ peer = [c \in Callers |-> {}]

Loop(i, from, to)   == loop[i] = from /\ loop' = [loop EXCEPT ![i] = to]
Server(i, from, to) == server[i] = from /\ server' = [server EXCEPT ![i] = to]
Call(c, from, to)   == call[c] = from /\ call' = [call EXCEPT ![c] = to]

calls == <<call, peer>>
Listening(i) == server[i] = "accept"

-----------------------------------------------------------------------------
(* Processes.                                                              *)

\* The comms daemon starts, or stops and closes its connections.
Daemon ==
  /\ daemon' = IF daemon = "up" THEN "down" ELSE "up"
  /\ UNCHANGED <<life, loop, server, path, calls>>

Start(i) ==
  /\ life[i] = "off"
  /\ life' = [life EXCEPT ![i] = "on"]
  /\ loop' = [loop EXCEPT ![i] = "top"]
  /\ server' = [server EXCEPT ![i] = "remove"]
  /\ UNCHANGED <<daemon, path, calls>>

\* SIGTERM cancels the context.
Cancel(i) ==
  /\ life[i] = "on"
  /\ life' = [life EXCEPT ![i] = "cancelled"]
  /\ UNCHANGED <<daemon, loop, server, path, calls>>

\* The process is gone, and its connections with it; the name stays.
Gone(i) ==
  /\ life' = [life EXCEPT ![i] = "off"]
  /\ loop' = [loop EXCEPT ![i] = "off"]
  /\ server' = [server EXCEPT ![i] = "off"]
  /\ peer' = [c \in Callers |-> peer[c] \ {i}]
  /\ UNCHANGED <<daemon, path, call>>

\* The component ends when both of its loops have.
Exit(i) == loop[i] = "done" /\ server[i] = "done" /\ Gone(i)

Kill(i) == life[i] # "off" /\ Gone(i)

-----------------------------------------------------------------------------
(* Run and SubscribeContext.                                               *)

\* At the top of the loop the context is looked at; then the daemon is dialled.
Subscribe(i) ==
  /\ \/ /\ life[i] = "cancelled"
        /\ Loop(i, "top", "done")
     \/ /\ life[i] = "on"
        /\ Loop(i, "top", IF daemon = "up" THEN "reading" ELSE "waiting")
  /\ UNCHANGED <<daemon, life, server, path, calls>>

\* An event is handled in the reading loop.
Event(i) ==
  /\ daemon = "up"
  /\ Loop(i, "reading", "handling")
  /\ UNCHANGED <<daemon, life, server, path, calls>>

Handled(i) ==
  /\ Loop(i, "handling", "reading")
  /\ UNCHANGED <<daemon, life, server, path, calls>>

\* Wrong: nothing closes the connection of a reader when the context is
\* cancelled.
UnblockNot(i) ==
  /\ life[i] = "cancelled"
  /\ daemon = "down"
  /\ Loop(i, "reading", "done")
  /\ UNCHANGED <<daemon, life, server, path, calls>>

\* Cancelling closes the connection, so that reading ends.
Unblock(i) ==
  /\ life[i] = "cancelled"
  /\ Loop(i, "reading", "done")
  /\ UNCHANGED <<daemon, life, server, path, calls>>

\* The daemon closes the connection, or fails; what it still sent may have been
\* read or not.
Dropped(i) ==
  /\ daemon = "down"
  /\ life[i] = "on"
  /\ Loop(i, "reading", "waiting")
  /\ UNCHANGED <<daemon, life, server, path, calls>>

\* Five seconds, or the end of the context.
Wait(i) ==
  /\ \/ life[i] = "cancelled" /\ Loop(i, "waiting", "done")
     \/ Loop(i, "waiting", "top")
  /\ UNCHANGED <<daemon, life, server, path, calls>>

-----------------------------------------------------------------------------
(* ServeCommands.                                                          *)

RemoveStale(i) ==
  /\ Server(i, "remove", "listen")
  /\ path' = {}
  /\ UNCHANGED <<daemon, life, loop, calls>>

Listen(i) ==
  /\ path = {}
  /\ Server(i, "listen", "accept")
  /\ path' = {i}
  /\ UNCHANGED <<daemon, life, loop, calls>>

\* The name is in use: ServeCommands returns an error.
ListenFails(i) ==
  /\ path # {}
  /\ Server(i, "listen", "done")
  /\ UNCHANGED <<daemon, life, loop, path, calls>>

\* Cancelled, it closes its listener, which removes the name, and removes the
\* name once more.
Close(i) ==
  /\ life[i] = "cancelled"
  /\ Server(i, "accept", "closed")
  /\ path' = {}
  /\ UNCHANGED <<daemon, life, loop, calls>>

RemoveSocket(i) ==
  /\ Server(i, "closed", "done")
  /\ path' = {}
  /\ UNCHANGED <<daemon, life, loop, calls>>

-----------------------------------------------------------------------------
(* ModuleCommand.                                                          *)

\* The socket is dialled; when nobody listens, the component is not running.
Dial(c) ==
  LET there == {i \in path : Listening(i)} IN
    /\ Call(c, "idle", IF there = {} THEN "not running" ELSE "sent")
    /\ peer' = [peer EXCEPT ![c] = there]
    /\ UNCHANGED <<daemon, life, loop, server, path>>

\* serveCommandConn: the handler runs, and replies if the caller is there.
Serve(c) ==
  /\ peer[c] # {}
  /\ peer' = [peer EXCEPT ![c] = {}]
  /\ \/ Call(c, "sent", "answered")
     \/ call[c] # "sent" /\ UNCHANGED call
  /\ UNCHANGED <<daemon, life, loop, server, path>>

\* The connection ends without an answer.
Lost(c) ==
  /\ peer[c] = {}
  /\ Call(c, "sent", "failed")
  /\ UNCHANGED <<daemon, life, loop, server, path, peer>>

\* Five minutes without one.
TimesOut(c) ==
  /\ peer[c] # {}
  /\ Call(c, "sent", "failed")
  /\ UNCHANGED <<daemon, life, loop, server, path, peer>>

Returns(c) ==
  /\ peer[c] = {}
  /\ \E from \in {"not running", "answered", "failed"} : Call(c, from, "idle")
  /\ UNCHANGED <<daemon, life, loop, server, path, peer>>

-----------------------------------------------------------------------------
Running(i) ==
  \/ Subscribe(i) \/ Handled(i) \/ Unblock(i) \/ Dropped(i) \/ Wait(i)
Serving(i) ==
  \/ RemoveStale(i) \/ Listen(i) \/ ListenFails(i) \/ Close(i) \/ RemoveSocket(i)

Next ==
  \/ Daemon
  \/ \E i \in Instances :
       \/ Start(i) \/ Cancel(i) \/ Exit(i) \/ Kill(i)
       \/ Event(i) \/ Running(i) \/ Serving(i)
  \/ \E c \in Callers :
       Dial(c) \/ Serve(c) \/ Lost(c) \/ TimesOut(c) \/ Returns(c)

Spec == Init /\ [][Next]_vars

\* Goroutines run and handlers return.  In a select, and between an event that
\* is there and a context that was cancelled, either may be taken, but not the
\* other one for ever.
Fairness ==
  \A i \in Instances :
    /\ WF_vars(Subscribe(i)) /\ WF_vars(Handled(i)) /\ WF_vars(Dropped(i))
    /\ WF_vars(Wait(i)) /\ SF_vars(Unblock(i)) /\ WF_vars(Serving(i))
    /\ WF_vars(Exit(i))

FairSpec == Spec /\ Fairness

-----------------------------------------------------------------------------
(* Properties.                                                             *)

\* Every variable has its type.
TypeOK ==
  /\ daemon \in {"up", "down"}
  /\ life \in [Instances -> {"off", "on", "cancelled"}]
  /\ loop \in [Instances -> {"off", "top", "reading", "handling", "waiting", "done"}]
  /\ server \in [Instances -> {"off", "remove", "listen", "accept", "closed", "done"}]
  /\ path \subseteq Instances
  /\ call \in [Callers -> {"idle", "not running", "sent", "answered", "failed"}]
  /\ peer \in [Callers -> SUBSET Instances]

\* subscribe.go:25-29: a component that is told to stop ends, though the daemon
\* has nothing to send and no reason to close the connection.
ComponentEnds(i) == life[i] = "cancelled" ~> life[i] = "off"
=============================================================================
