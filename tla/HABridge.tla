------------------------------ MODULE HABridge ------------------------------
(***************************************************************************)
(* The life cycle of the Home Assistant bridge (src/server/ha_mqtt.py):    *)
(* the threads that restart its MQTT client (start() and one thread per    *)
(* saved configuration) and the network thread of every client they        *)
(* create, with the two locks they share.                                  *)
(*                                                                         *)
(* restartLock is _restart_lock, lock is self.lock.  Both are re-entrant.  *)
(* A step of this module is the code between two points where another      *)
(* thread can get in; a region under self.lock that calls nothing which    *)
(* blocks is one step, and the on_connect callback, which publishes and    *)
(* reads files under it, is two.  A client is named by the thread that     *)
(* creates it: a thread restarts once and creates at most one client.      *)
(*                                                                         *)
(* The paho client is external: connect_async and loop_start only arrange  *)
(* for a network thread, which links, reads, loses the link and calls the  *)
(* callbacks it finds installed at that moment; loop_stop waits for it.    *)
(***************************************************************************)

CONSTANTS
  Caller,          \* threads that restart the bridge, each once
  Main,            \* the thread that runs start(), before any save
  Value,           \* configurations that can be saved
  NoHost,          \* the configuration without a host
  Unusable,        \* those whose topic prefix the client library refuses
  None,            \* no thread, no client, no value
  LoopStopRaises   \* whether loop_stop() may raise before it has joined

ASSUME ConstantsAssumption ==
  /\ Main \in Caller
  /\ NoHost \in Value
  /\ Unusable \subseteq Value
  /\ None \notin Caller \cup Value
  /\ LoopStopRaises \in BOOLEAN

VARIABLES
  file,         \* ha_mqtt.json
  config,       \* self.config
  client,       \* self.client
  connected,    \* self.connected
  error,        \* whether self.error holds a message
  restartLock,  \* the thread inside _restart_lock
  lock,         \* the thread, or the client whose network thread, is inside self.lock
  pc,           \* where a restarting thread stands
  want,         \* the configuration it saves; None for start()
  copied,       \* its copy of the configuration (config in _restart)
  old,          \* the client it replaces (old in _restart)
  target,       \* the client it is stopping
  raised,       \* whether stopping that client has raised
  cb,           \* clients with their callbacks installed
  quit,         \* clients told to end their network thread
  net,          \* where the network thread of a client stands
  subscribed    \* the configuration whose command topics a client subscribed to

bridgeVars == <<client, connected, error>>
lockVars   == <<restartLock, lock>>
confVars   == <<file, config>>
locals     == <<want, copied, old, target, raised>>
netFlags   == <<cb, quit, subscribed>>
vars       == <<bridgeVars, lockVars, confVars, pc, locals, net, netFlags>>

Step == {"idle", "enter", "persist", "adopt", "swap", "clear", "disconnect", "stop",
         "join", "create", "install", "start", "fail", "keep", "return", "done", "refused"}

Phase == {"off", "dialing", "acking", "refusing", "announcing", "up",
          "dropping", "message", "command", "dead", "ended"}

TypeOK ==
  /\ file \in Value /\ config \in Value
  /\ client \in Caller \cup {None}
  /\ connected \in BOOLEAN /\ error \in BOOLEAN
  /\ restartLock \in Caller \cup {None}
  /\ lock \in Caller \cup {None}
  /\ pc \in [Caller -> Step]
  /\ want \in [Caller -> Value \cup {None}]
  /\ copied \in [Caller -> Value \cup {None}]
  /\ old \in [Caller -> Caller \cup {None}]
  /\ target \in [Caller -> Caller \cup {None}]
  /\ raised \in [Caller -> BOOLEAN]
  /\ cb \in SUBSET Caller /\ quit \in SUBSET Caller
  /\ net \in [Caller -> Phase]
  /\ subscribed \in [Caller -> Value \cup {None}]

Init ==
  /\ file \in Value /\ config = file
  /\ client = None /\ connected = FALSE /\ error = FALSE
  /\ restartLock = None /\ lock = None
  /\ pc = [t \in Caller |-> IF t = Main THEN "enter" ELSE "idle"]
  /\ want = [t \in Caller |-> None]
  /\ copied = [t \in Caller |-> None]
  /\ old = [t \in Caller |-> None]
  /\ target = [t \in Caller |-> None]
  /\ raised = [t \in Caller |-> FALSE]
  /\ cb = {} /\ quit = {}
  /\ net = [c \in Caller |-> "off"]
  /\ subscribed = [c \in Caller |-> None]

-----------------------------------------------------------------------------
At(t, here) == pc[t] = here
Goto(t, there) == pc' = [pc EXCEPT ![t] = there]
Move(c, phase) == net' = [net EXCEPT ![c] = phase]
Set(f, t, value) == [f EXCEPT ![t] = value]

\* A client whose network thread exists
Running(c) == net[c] \notin {"off", "dead", "ended"}

\* self.lock is free, or x is inside already (an RLock)
MayLock(x) == lock \in {None, x}

-----------------------------------------------------------------------------
(* The restarting threads *)

\* POST of a new configuration: save_config called by a web thread
Save(t, v) ==
  /\ At(t, "idle") /\ At(Main, "done")
  /\ want' = Set(want, t, v)
  /\ Goto(t, "enter")
  /\ UNCHANGED <<bridgeVars, lockVars, confVars, copied, old, target, raised, net, netFlags>>

LifecycleFree == restartLock = None

SaveAlways(t) == "persist"   \* mutant
FirstStep(t) == IF want[t] = None THEN "swap" ELSE "persist"

\* with self._restart_lock
Enter(t) ==
  /\ At(t, "enter") /\ LifecycleFree
  /\ restartLock' = t
  /\ Goto(t, FirstStep(t))
  /\ UNCHANGED <<bridgeVars, lock, confVars, locals, net, netFlags>>

\* The file is replaced in one step; an invalid port, or a file that cannot be
\* written, makes save_config raise
Persist(t) ==
  /\ At(t, "persist")
  /\ \/ file' = want[t] /\ Goto(t, "adopt") /\ UNCHANGED restartLock
     \/ restartLock' = None /\ Goto(t, "refused") /\ UNCHANGED file
  /\ UNCHANGED <<bridgeVars, lock, config, locals, net, netFlags>>

SaveOnly == "return"   \* mutant
AfterSave == "swap"

Adopt(t) ==
  /\ At(t, "adopt") /\ MayLock(t)
  /\ config' = want[t]
  /\ Goto(t, AfterSave)
  /\ UNCHANGED <<bridgeVars, lockVars, file, locals, net, netFlags>>

\* if not config.get("host"): return
AfterOld(value) == IF value = NoHost THEN "return" ELSE "create"

StayInside(t) == lock' = t   \* mutant
LeaveLock(t) == lock' = None

\* The first block of _restart: nothing is current from here on
Swap(t) ==
  /\ At(t, "swap") /\ MayLock(t)
  /\ client' = None /\ connected' = FALSE /\ error' = FALSE
  /\ copied' = Set(copied, t, config)
  /\ old' = Set(old, t, client) /\ target' = Set(target, t, client)
  /\ LeaveLock(t)
  /\ Goto(t, IF client # None THEN "clear" ELSE AfterOld(config))
  /\ UNCHANGED <<restartLock, confVars, want, raised, net, netFlags>>

\* _stop_client: the three callbacks first.  They are cleared one by one,
\* on_connect first; the network thread fetches one callback at a time, so a
\* fetch between two of them is a fetch before or after this step.
ClearCallbacks(t) ==
  /\ At(t, "clear")
  /\ cb' = cb \ {target[t]}
  /\ Goto(t, "disconnect")
  /\ UNCHANGED <<bridgeVars, lockVars, confVars, locals, net, quit, subscribed>>

\* client.disconnect(): it may raise, and loop_stop() is called all the same
Disconnect(t) ==
  /\ At(t, "disconnect")
  /\ \/ quit' = quit \cup {target[t]} /\ UNCHANGED raised
     \/ raised' = Set(raised, t, TRUE) /\ UNCHANGED quit
  /\ Goto(t, "stop")
  /\ UNCHANGED <<bridgeVars, lockVars, confVars, want, copied, old, target, net, cb, subscribed>>

\* Where a stop leads that was of the new client, or of the old one
AfterStop(t, failed) ==
  IF target[t] = t THEN IF failed THEN "keep" ELSE "return"
                   ELSE IF failed THEN "fail" ELSE AfterOld(copied[t])

\* client.loop_stop() in the finally block: tell the thread to end, then wait
LoopStop(t) ==
  /\ At(t, "stop")
  /\ \/ quit' = quit \cup {target[t]} /\ Goto(t, "join")
     \/ LoopStopRaises /\ Goto(t, AfterStop(t, TRUE)) /\ UNCHANGED quit
  /\ UNCHANGED <<bridgeVars, lockVars, confVars, locals, net, cb, subscribed>>

FixedSleep(c) == TRUE   \* mutant
ThreadEnded(c) == ~Running(c)

Join(t) ==
  /\ At(t, "join") /\ ThreadEnded(target[t])
  /\ raised' = Set(raised, t, FALSE)
  /\ Goto(t, AfterStop(t, raised[t]))
  /\ UNCHANGED <<bridgeVars, lockVars, confVars, want, copied, old, target, net, netFlags>>

\* mqtt.Client(...) with its options and callbacks.  target becomes the client
\* that a failure from here on has to clean up; a failure before leaves it at
\* the old one.
Create(t) ==
  /\ At(t, "create")
  /\ \/ cb' = cb \cup {t} /\ target' = Set(target, t, t) /\ Goto(t, "install")
     \/ Goto(t, "fail") /\ UNCHANGED <<cb, target>>
  /\ UNCHANGED <<bridgeVars, lockVars, confVars, want, copied, old, raised,
                 net, quit, subscribed>>

Install(t) ==
  /\ At(t, "install") /\ MayLock(t)
  /\ client' = t
  /\ LeaveLock(t)
  /\ Goto(t, "start")
  /\ UNCHANGED <<connected, error, restartLock, confVars, locals, net, netFlags>>

\* connect_async and loop_start; either may fail
StartLoop(t) ==
  /\ At(t, "start")
  /\ \/ Move(t, "dialing") /\ Goto(t, "return")
     \/ Goto(t, "fail") /\ UNCHANGED net
  /\ UNCHANGED <<bridgeVars, lockVars, confVars, locals, netFlags>>

Silently == UNCHANGED error   \* mutant
ShowError == error' = TRUE

\* The except block: a new client is cleaned up, else the old one is current again
Fail(t) ==
  /\ At(t, "fail") /\ MayLock(t)
  /\ client' = IF target[t] = t THEN None ELSE old[t]
  /\ connected' = FALSE /\ ShowError
  /\ LeaveLock(t)
  /\ Goto(t, IF target[t] = t THEN "clear" ELSE "return")
  /\ UNCHANGED <<restartLock, confVars, locals, net, netFlags>>

\* The clean-up of the new client failed as well
Keep(t) ==
  /\ At(t, "keep") /\ MayLock(t)
  /\ client' = t /\ ShowError
  /\ LeaveLock(t)
  /\ Goto(t, "return")
  /\ UNCHANGED <<connected, restartLock, confVars, locals, net, netFlags>>

Return(t) ==
  /\ At(t, "return")
  /\ restartLock' = None
  /\ Goto(t, "done")
  /\ UNCHANGED <<bridgeVars, lock, confVars, locals, net, netFlags>>

-----------------------------------------------------------------------------
(* The network thread of client c *)

\* The callback found installed decides what an event leads to
Called(c, phase, otherwise) == IF c \in cb THEN phase ELSE otherwise

\* An event of the connection: only the thread itself moves
Event(c, phase) ==
  /\ Move(c, phase)
  /\ UNCHANGED <<bridgeVars, lockVars, confVars, pc, locals, netFlags>>

\* A CONNACK arrives, accepting or refusing; the callback is fetched
Link(c) ==
  /\ net[c] = "dialing" /\ c \notin quit
  /\ \/ Event(c, Called(c, "acking", "up"))
     \/ c \in cb /\ Event(c, "refusing")

\* The link is lost and the client dials again
Drop(c) == net[c] = "up" /\ c \notin quit /\ Event(c, Called(c, "dropping", "dialing"))

\* A command of Home Assistant arrives
Message(c) ==
  /\ net[c] = "up" /\ c \notin quit /\ subscribed[c] # None
  /\ Event(c, Called(c, "message", "up"))

\* The thread sees that it is to end
End(c) == net[c] \in {"dialing", "up"} /\ c \in quit /\ Event(c, "ended")

AnyClient(c) == TRUE   \* mutant
Current(c) == c = client

\* _on_connect enters its block; a client that is not current leaves at once
OnConnect(c) ==
  /\ net[c] = "acking" /\ MayLock(c)
  /\ IF Current(c)
     THEN connected' = TRUE /\ error' = FALSE /\ lock' = c /\ Move(c, "announcing")
     ELSE UNCHANGED <<connected, error, lock>> /\ Move(c, "up")
  /\ UNCHANGED <<client, restartLock, confVars, pc, locals, netFlags>>

\* The rest of the callback, still under the lock: subscribe and publish what
\* Home Assistant needs.  The library raises on a prefix it refuses; reading the
\* device files raises over one that is deleted meanwhile.  An exception in a
\* callback ends the network thread.
Announce(c) ==
  /\ net[c] = "announcing"
  /\ lock' = None
  /\ IF config \in Unusable
     THEN Move(c, "dead") /\ UNCHANGED subscribed
     ELSE (Move(c, "up") \/ Move(c, "dead")) /\ subscribed' = Set(subscribed, c, config)
  /\ UNCHANGED <<bridgeVars, restartLock, confVars, pc, locals, cb, quit>>

StayConnected == connected' = connected   \* mutant
NotConnected == connected' = FALSE

\* _on_connect with a reason code other than 0
OnRefused(c) ==
  /\ net[c] = "refusing" /\ MayLock(c)
  /\ IF Current(c) THEN NotConnected /\ error' = TRUE ELSE UNCHANGED <<connected, error>>
  /\ Move(c, "dialing")
  /\ UNCHANGED <<client, lockVars, confVars, pc, locals, netFlags>>

OnDisconnect(c) ==
  /\ net[c] = "dropping" /\ MayLock(c)
  /\ IF Current(c)
     THEN NotConnected /\ \E failed \in BOOLEAN : error' = (error \/ failed)
     ELSE UNCHANGED <<connected, error>>
  /\ Move(c, "dialing")
  /\ UNCHANGED <<client, lockVars, confVars, pc, locals, netFlags>>

\* _on_message looks at self.client under the lock ...
OnMessage(c) ==
  net[c] = "message" /\ MayLock(c) /\ Event(c, IF Current(c) THEN "command" ELSE "up")

\* ... and calls command_callback after it.  Sending to a device whose connection
\* is broken raises OSError, which _on_message does not catch.
Command(c) == net[c] = "command" /\ (Event(c, "up") \/ Event(c, "dead"))

-----------------------------------------------------------------------------
CallerStep(t) ==
  \/ Enter(t) \/ Persist(t) \/ Adopt(t) \/ Swap(t)
  \/ ClearCallbacks(t) \/ Disconnect(t) \/ LoopStop(t) \/ Join(t)
  \/ Create(t) \/ Install(t) \/ StartLoop(t) \/ Fail(t) \/ Keep(t) \/ Return(t)

CallbackStep(c) ==
  \/ OnConnect(c) \/ Announce(c) \/ OnRefused(c) \/ OnDisconnect(c)
  \/ OnMessage(c) \/ Command(c) \/ End(c)

Network(c) == Link(c) \/ Drop(c) \/ Message(c)

Next ==
  \/ \E t \in Caller, v \in Value : Save(t, v)
  \/ \E t \in Caller : CallerStep(t)
  \/ \E c \in Caller : CallbackStep(c)
  \/ \E c \in Caller : Network(c)

Spec == Init /\ [][Next]_vars

\* Every thread goes on.  A network thread that keeps losing and finding its
\* link releases self.lock each time and then waits at least a second before it
\* dials again (reconnect_delay_set(min_delay=1)): a thread waiting for the lock
\* gets it, which is what the strong fairness of its steps says.
Fairness ==
  \A t \in Caller : SF_vars(CallerStep(t)) /\ SF_vars(CallbackStep(t))

FairSpec == Spec /\ Fairness

-----------------------------------------------------------------------------
(* Properties *)

\* At most one network thread exists: a client is replaced only after its
\* thread has ended, two concurrent restarts never start one each, and no
\* client is started beside one that could not be stopped ("Serialize teardown
\* AND startup").  So Home Assistant never sees two bridges under one client
\* id, and a command is never executed by two of them.
OneLoop ==
  \A c, d \in Caller : Running(c) /\ Running(d) => c = d

\* The bridge reports "connected" only while its current client really serves:
\* its thread exists, its callbacks are installed (so a lost link will be
\* noticed), it subscribed to the command topics or is about to under the lock,
\* and no error is shown.  The one exception is a thread that died in its own
\* callback (an unusable topic prefix, a file deleted under it, a command to a
\* broken connection).
ConnectedIsServed ==
  connected =>
    /\ client # None /\ client \in cb /\ client \notin quit /\ ~error
    /\ \/ net[client] = "announcing" \/ net[client] = "dead"
       \/ net[client] \in {"up", "dropping", "message", "command"} /\ subscribed[client] # None

\* Whenever no restart is under way, the file, the configuration in memory and
\* the running client agree: the last save won, all of it.  A client that runs
\* with another configuration, or none although a host is configured, shows an
\* error.
NewestConfigRuns ==
  restartLock = None /\ At(Main, "done") =>
    /\ file = config
    /\ \/ error
       \/ config = NoHost /\ client = None /\ \A c \in Caller : ~Running(c)
       \/ /\ client # None /\ copied[client] = config /\ client \in cb
          /\ Running(client) \/ net[client] = "dead"

\* A connected client that no restart is about to replace listens on the
\* configured command topics
ListensWhereConfigured ==
  connected /\ net[client] # "announcing" /\ net[client] # "dead"
            /\ (restartLock = None \/ At(restartLock, "persist"))
    => subscribed[client] = config

\* What the bridge shows is changed only by a restart or by the network thread of
\* the current client; the late callbacks of a replaced client change nothing.
OnlyCurrentReports ==
  [][<<connected, error>>' # <<connected, error>> =>
       \/ \E t \in Caller : restartLock = t /\ pc'[t] # pc[t]
       \/ client # None /\ net'[client] # net[client]]_vars

\* Every save and start() returns, although stopping a client waits for a
\* network thread whose callbacks need the lock that restarts need too.
RestartsFinish ==
  \A t \in Caller : At(t, "enter") ~> (At(t, "done") \/ At(t, "refused"))

\* The comment in _restart: an old client whose stop failed "is never considered
\* connected" - a client that is current again without callbacks
NeverConnectedAfterFailedStop ==
  client # None /\ client \notin cb => ~connected

\* The dashboard shows "Connected" (web/index.html:170) for users to confirm that
\* the bridge works: the client it speaks of still has its network thread.
ConnectedMeansRunning == connected => Running(client)
=============================================================================
