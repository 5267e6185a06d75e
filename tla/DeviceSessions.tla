---------------------------- MODULE DeviceSessions ----------------------------
(* The device side of src/server/mqtt_server.py: the table that maps a MAC   *)
(* to the connection serving it, and everybody who touches it: one handler   *)
(* thread per connection, the poller, the offline timers, the web thread     *)
(* that deletes a device, the MEF process that announces a new one, and the  *)
(* crash and restart of the whole server.                                    *)
(*                                                                           *)
(* A step is a region under `sessions_lock`, one file access, or one call    *)
(* that may block; between two steps of one thread any other may run.        *)
(* Time is not counted: a timer may fire whenever it is armed, a session may *)
(* lapse (45 s without a packet) whenever it is served, a pending enrollment *)
(* may age out (15 min) whenever it exists.  One packet with both a status   *)
(* and an event part writes twice; here it counts as two packets.            *)
EXTENDS FiniteSets, Naturals

CONSTANTS
    Mac,          \* device addresses
    Session,      \* connections; each is accepted at most once
    MacOf,        \* the MAC in the client ID of a connection's CONNECT packet
    None,
    MaxDeletes,   \* bound: delete requests of the dashboard
    MaxRestarts   \* bound: crashes of the server process

ASSUME ConstantsAssumption ==
    /\ MacOf \in [Session -> Mac]
    /\ None \notin Session /\ None \notin Mac
    /\ MaxDeletes \in Nat /\ MaxRestarts \in Nat

VARIABLES
    sessions,       \* MQTTServer.sessions
    topic,          \* has the session in the table a command_topic
    lapsed,         \* has it been silent for offline_timeout (now - last_seen)
    offlineTimers,  \* MQTTServer.offline_timers; a timer is named by the session that armed it
    timer,          \* the timer each session armed, and where its thread is
    pc,             \* where the handler of each connection is
    conn,           \* the connection's socket
    prev,           \* `previous` of _handle
    device,         \* does devices/<mac>.json exist
    state,          \* "online" of state/<mac>.json
    pending,        \* pending-enrollment-<mac>.json: none, young enough to enroll, or old
    pollPc, pollTodo, pollCur,    \* the poller thread
    webPc, webMac, webVictim,     \* the web thread that deletes a device
    deletes, restarts,            \* bounded counters
    stray           \* history: the last "online" was written by a connection
                    \* that did not own its slot then

slotVars  == <<sessions, topic, lapsed>>
timerVars == <<offlineTimers, timer>>
tableVars == <<slotVars, timerVars>>
connVars  == <<pc, conn, prev>>
fileVars  == <<device, state, pending, stray>>
pollVars  == <<pollPc, pollTodo, pollCur>>
webVars   == <<webPc, webMac, webVictim>>
boundVars == <<deletes, restarts>>
rest == <<pollVars, webVars, boundVars>>
vars == <<tableVars, connVars, fileVars, rest>>

Opt(S) == S \cup {None}

(* The phases of _handle.  Before "register" a connection is unknown to the  *)
(* rest of the server; in Serving it may be in the table; "final" and        *)
(* "sched" are the two lock regions of its finally block.                    *)
Greeting == {"hello", "readPending", "unlink", "unlinkOld", "enroll", "register"}
Serving  == {"replaced", "online", "onlineWrite", "loop", "report"}
HandlerPc == {"idle", "final", "sched", "done"} \cup Greeting \cup Serving

TimerState == {"none", "armed", "fired", "markCheck", "markWrite", "over"}
(* "gone": the peer has hung up, a blocked read returns.  "closed": close()  *)
(* without shutdown(), which does not wake a read that is already blocked.   *)
(* "shut": nobody will ever block on it again.                               *)
Conn     == {"none", "open", "gone", "closed", "shut"}
PollPc   == {"scan", "expireNow", "expireSoft", "offCheck", "offWrite", "offArm", "hangup"}
WebPc    == {"idle", "disconnect", "shutdown", "device", "state", "pending"}

TypeOK ==
    /\ sessions \in [Mac -> Opt(Session)]
    /\ offlineTimers \in [Mac -> Opt(Session)]
    /\ timer \in [Session -> TimerState]
    /\ pc \in [Session -> HandlerPc]
    /\ conn \in [Session -> Conn]
    /\ prev \in [Session -> Opt(Session)]
    /\ topic \in [Mac -> BOOLEAN] /\ lapsed \in [Mac -> BOOLEAN]
    /\ device \in [Mac -> BOOLEAN]
    /\ state \in [Mac -> {"absent", "offline", "online"}]
    /\ pending \in [Mac -> {"none", "young", "old"}]
    /\ stray \in [Mac -> BOOLEAN]
    /\ pollPc \in PollPc /\ pollTodo \subseteq Session /\ pollCur \in Opt(Session)
    /\ webPc \in WebPc /\ webMac \in Opt(Mac) /\ webVictim \in Opt(Session)
    /\ deletes \in 0 .. MaxDeletes /\ restarts \in 0 .. MaxRestarts

Init ==
    /\ sessions = [m \in Mac |-> None]
    /\ offlineTimers = [m \in Mac |-> None]
    /\ timer = [s \in Session |-> "none"]
    /\ pc = [s \in Session |-> "idle"]
    /\ conn = [s \in Session |-> "none"]
    /\ prev = [s \in Session |-> None]
    /\ topic = [m \in Mac |-> FALSE] /\ lapsed = [m \in Mac |-> FALSE]
    /\ device \in [Mac -> BOOLEAN]
    /\ state = [m \in Mac |-> IF device[m] THEN "offline" ELSE "absent"]
    /\ pending = [m \in Mac |-> "none"]
    /\ stray = [m \in Mac |-> FALSE]
    /\ pollPc = "scan" /\ pollTodo = {} /\ pollCur = None
    /\ webPc = "idle" /\ webMac = None /\ webVictim = None
    /\ deletes = 0 /\ restarts = 0

-------------------------------------------------------------------------------
(* Shared pieces of handlers, timers and poller.                             *)

Owns(s) == sessions[MacOf[s]] = s

Goto(s, phase) == pc' = [pc EXCEPT ![s] = phase]

(* The handler returns and closes its connection.                            *)
End(s) ==
    /\ Goto(s, "done")
    /\ conn' = [conn EXCEPT ![s] = "shut"]

(* Mutant: an entry is replaced but never removed.                           *)
SetSlotForGood(m, x) ==
    /\ sessions' = IF x = None THEN sessions ELSE [sessions EXCEPT ![m] = x]
    /\ topic' = [topic EXCEPT ![m] = FALSE]
    /\ lapsed' = [lapsed EXCEPT ![m] = FALSE]

(* The table's entry of m becomes x: a new session is neither subscribed nor *)
(* silent, and of a session that is out of the table nobody uses either.     *)
SetSlot(m, x) ==
    /\ sessions' = [sessions EXCEPT ![m] = x]
    /\ topic' = [topic EXCEPT ![m] = FALSE]
    /\ lapsed' = [lapsed EXCEPT ![m] = FALSE]

(* The handler is done with a packet and reads the next one: on a socket     *)
(* closed by then, or for a reply that can no longer be sent, it raises.     *)
Resume(s) == Goto(s, IF conn[s] \in {"open", "gone"} THEN "loop" ELSE "final")

(* The write of _set_online and of the two report handlers, by session s.    *)
WriteState(s, online) ==
    /\ state' = [state EXCEPT ![MacOf[s]] = IF online THEN "online" ELSE "offline"]
    /\ stray' = [stray EXCEPT ![MacOf[s]] = online /\ ~Owns(s)]

(* offline_timers.pop(mac) and cancel(): a timer already running is not      *)
(* stopped by it.                                                            *)
Cancelled(m) ==
    [t \in Session |-> IF t = offlineTimers[m] /\ timer[t] = "armed"
                       THEN "over" ELSE timer[t]]

(* Mutant: the offline timer is not started.                                 *)
ArmNothing(s) == UNCHANGED timerVars

(* The second lock region of _schedule_offline, for the timer of session s.  *)
ArmTimer(s) ==
    /\ timer' = [Cancelled(MacOf[s]) EXCEPT ![s] = "armed"]
    /\ offlineTimers' = [offlineTimers EXCEPT ![MacOf[s]] = s]

(* Mutant: the socket of an expired or deleted device is left open.          *)
LeaveOpen(s) == UNCHANGED conn

(* shutdown() and close() of a socket by another thread than its handler.    *)
Hangup(s) == conn' = [conn EXCEPT ![s] = "shut"]

(* DeviceRegistry.lock, held by the web thread from the deletion of the      *)
(* device file to that of the pending file.                                  *)
RegistryLocked == webPc \in {"state", "pending"}

-------------------------------------------------------------------------------
(* _handle: TLS, CONNECT and admission.                                      *)

Accept(s) ==
    /\ pc[s] = "idle"
    /\ Goto(s, "hello")
    /\ conn' = [conn EXCEPT ![s] = "open"]
    /\ UNCHANGED <<tableVars, prev, fileVars, rest>>

(* The handshake fails or the first packet is no CONNECT it can serve.       *)
RefuseConnect(s) ==
    /\ pc[s] = "hello"
    /\ End(s)
    /\ UNCHANGED <<tableVars, prev, fileVars, rest>>

(* DeviceRegistry.by_entity                                                  *)
LookUp(s) ==
    /\ pc[s] = "hello"
    /\ Goto(s, IF device[MacOf[s]] THEN "register" ELSE "readPending")
    /\ UNCHANGED <<tableVars, conn, prev, fileVars, rest>>

(* consume_pending_enrollment: read and judge the file, then unlink whatever *)
(* file is there by then.  Without a file there is nothing to unlink.        *)
ReadPending(s) ==
    /\ pc[s] = "readPending"
    /\ \/ pending[MacOf[s]] = "young" /\ Goto(s, "unlink") /\ UNCHANGED conn
       \/ pending[MacOf[s]] = "old" /\ Goto(s, "unlinkOld") /\ UNCHANGED conn
       \/ pending[MacOf[s]] = "none" /\ End(s)
    /\ UNCHANGED <<tableVars, prev, fileVars, rest>>

(* The file goes in either case; a device whose file was old is refused.     *)
UnlinkPending(s) ==
    /\ pc[s] \in {"unlink", "unlinkOld"}
    /\ pending' = [pending EXCEPT ![MacOf[s]] = "none"]
    /\ IF pc[s] = "unlink" THEN Goto(s, "enroll") /\ UNCHANGED conn ELSE End(s)
    /\ UNCHANGED <<tableVars, prev, device, state, stray, rest>>

(* DeviceRegistry.enroll, under its lock                                     *)
Enroll(s) ==
    /\ pc[s] = "enroll"
    /\ ~RegistryLocked
    /\ device' = [device EXCEPT ![MacOf[s]] = TRUE]
    /\ Goto(s, "register")
    /\ UNCHANGED <<tableVars, conn, prev, state, pending, stray, rest>>

(* Mutant: a connection may register again while it is being served.         *)
RegisterAgain(s) ==
    /\ pc[s] \in {"register", "loop"}
    /\ SetSlot(MacOf[s], s) /\ Goto(s, "online")
    /\ UNCHANGED <<timerVars, conn, prev, fileVars, rest>>

(* DeviceSession() and the lock region that puts it in the table.            *)
Register(s) ==
    /\ pc[s] = "register"
    /\ LET m == MacOf[s] IN
       /\ timer' = Cancelled(m)
       /\ offlineTimers' = [offlineTimers EXCEPT ![m] = None]
       /\ prev' = [prev EXCEPT ![s] = sessions[m]]
       /\ SetSlot(m, s)
       /\ Goto(s, IF sessions[m] = None THEN "online" ELSE "replaced")
    /\ UNCHANGED <<conn, fileVars, rest>>

(* previous.connection.close(), without a shutdown(); `previous` is not used *)
(* again.                                                                    *)
ClosePrevious(s) ==
    /\ pc[s] = "replaced"
    /\ conn' = [conn EXCEPT ![prev[s]] = IF @ = "open" THEN "closed" ELSE "shut"]
    /\ prev' = [prev EXCEPT ![s] = None]
    /\ Goto(s, "online")
    /\ UNCHANGED <<tableVars, fileVars, rest>>

(* _set_online(session, True), by _handle before the CONNACK and by _packet  *)
(* after a PINGRESP: the check of the device file, then the state file.      *)
CheckDevice(s) ==
    /\ pc[s] = "online"
    /\ IF device[MacOf[s]] THEN Goto(s, "onlineWrite") ELSE Resume(s)
    /\ UNCHANGED <<tableVars, conn, prev, fileVars, rest>>

WriteOnline(s) ==
    /\ pc[s] = "onlineWrite"
    /\ WriteState(s, TRUE)
    /\ Resume(s)
    /\ UNCHANGED <<tableVars, conn, prev, device, pending, rest>>

-------------------------------------------------------------------------------
(* _handle: the packet loop, and _packet.                                    *)

(* read_packet returns a packet: also from a socket that was closed while    *)
(* the read was blocked.  What happens next depends on the packet.           *)
Receive(s) ==
    /\ pc[s] = "loop"
    /\ conn[s] # "shut"
    /\ lapsed' = [lapsed EXCEPT ![MacOf[s]] = @ /\ ~Owns(s)]

Subscribe(s) ==
    /\ Receive(s)
    /\ topic' = [topic EXCEPT ![MacOf[s]] = @ \/ Owns(s)]
    /\ Resume(s)
    /\ UNCHANGED <<sessions, timerVars, conn, prev, fileVars, rest>>

Ping(s) ==
    /\ Receive(s)
    /\ conn[s] \in {"open", "gone"}
    /\ Goto(s, "online")
    /\ UNCHANGED <<sessions, topic, timerVars, conn, prev, fileVars, rest>>

(* A PUBLISH that carries a report.  Its PUBACK (QoS 1) needs the socket, a  *)
(* QoS 0 message needs nothing.                                              *)
Publish(s) ==
    /\ Receive(s)
    /\ Goto(s, "report")
    /\ UNCHANGED <<sessions, topic, timerVars, conn, prev, fileVars, rest>>

(* Any other packet: no effect here, or an exception that ends the handler   *)
(* (QoS 2, a truncated packet, a reply that cannot be sent).                 *)
OtherPacket(s) ==
    /\ Receive(s)
    /\ Resume(s) \/ Goto(s, "final")
    /\ UNCHANGED <<sessions, topic, timerVars, conn, prev, fileVars, rest>>

(* Mutant: a report leaves "online" alone.                                   *)
ReportOnly(s) ==
    /\ pc[s] = "report"
    /\ Resume(s)
    /\ UNCHANGED <<tableVars, conn, prev, fileVars, rest>>

(* _status and _events write online without looking for the device file; the *)
(* oneM2M response follows.                                                  *)
WriteReport(s) ==
    /\ pc[s] = "report"
    /\ WriteState(s, TRUE)
    /\ Resume(s)
    /\ UNCHANGED <<tableVars, conn, prev, device, pending, rest>>

(* read_packet returns nothing or raises.                                    *)
ReadEnds(s) ==
    /\ pc[s] = "loop"
    /\ Goto(s, "final")
    /\ UNCHANGED <<tableVars, conn, prev, fileVars, rest>>

(* Mutant: the handler removes whatever is filed under its MAC.              *)
FinallyAnyone(s) ==
    /\ pc[s] = "final"
    /\ SetSlot(MacOf[s], None) /\ Goto(s, "sched")
    /\ UNCHANGED <<timerVars, conn, prev, fileVars, rest>>

(* The finally block of _handle, first lock region: leave the table, but     *)
(* only if this connection is the one in it.                                 *)
Finally(s) ==
    /\ pc[s] = "final"
    /\ IF Owns(s)
       THEN SetSlot(MacOf[s], None) /\ Goto(s, "sched") /\ UNCHANGED conn
       ELSE End(s) /\ UNCHANGED slotVars
    /\ UNCHANGED <<timerVars, prev, fileVars, rest>>

(* Second region, _schedule_offline, and the closing of the connection.      *)
ScheduleOffline(s) ==
    /\ pc[s] = "sched"
    /\ ArmTimer(s)
    /\ End(s)
    /\ UNCHANGED <<slotVars, prev, fileVars, rest>>

(* The peer closes, resets or loses the connection; earlier than this or     *)
(* later nothing looks at the socket.                                        *)
PeerHangsUp(s) ==
    /\ pc[s] \in Serving
    /\ conn[s] \in {"open", "closed"}
    /\ conn' = [conn EXCEPT ![s] = IF @ = "open" THEN "gone" ELSE "shut"]
    /\ UNCHANGED <<tableVars, pc, prev, fileVars, rest>>

(* offline_timeout passes while the handler waits for a packet; to handle one *)
(* takes less.                                                               *)
Lapse(m) ==
    /\ sessions[m] # None /\ ~lapsed[m]
    /\ pc[sessions[m]] = "loop"
    /\ lapsed' = [lapsed EXCEPT ![m] = TRUE]
    /\ UNCHANGED <<sessions, topic, timerVars, connVars, fileVars, rest>>

-------------------------------------------------------------------------------
(* The offline timer: mark() of _schedule_offline.                           *)

TimerFires(s) ==
    /\ timer[s] = "armed"
    /\ timer' = [timer EXCEPT ![s] = "fired"]
    /\ UNCHANGED <<slotVars, offlineTimers, connVars, fileVars, rest>>

(* Its lock region: nothing to do while a session is there; otherwise it     *)
(* drops the table's timer, be it this one or not.                           *)
Mark(s) ==
    /\ timer[s] = "fired"
    /\ IF sessions[MacOf[s]] # None
       THEN /\ timer' = [timer EXCEPT ![s] = "over"]
            /\ UNCHANGED offlineTimers
       ELSE /\ timer' = [timer EXCEPT ![s] = "markCheck"]
            /\ offlineTimers' = [offlineTimers EXCEPT ![MacOf[s]] = None]
    /\ UNCHANGED <<slotVars, connVars, fileVars, rest>>

(* _set_online(session, False), outside the lock                             *)
MarkCheck(s) ==
    /\ timer[s] = "markCheck"
    /\ timer' = [timer EXCEPT ![s] = IF device[MacOf[s]] THEN "markWrite" ELSE "over"]
    /\ UNCHANGED <<slotVars, offlineTimers, connVars, fileVars, rest>>

MarkWrite(s) ==
    /\ timer[s] = "markWrite"
    /\ timer' = [timer EXCEPT ![s] = "over"]
    /\ WriteState(s, FALSE)
    /\ UNCHANGED <<slotVars, offlineTimers, connVars, device, pending, rest>>

-------------------------------------------------------------------------------
(* The poller thread: _poll and _expire.                                     *)

PollUnchanged == UNCHANGED <<webVars, boundVars, pc, prev, device, pending>>

(* Mutant: the copy has an entry for every device, connected or not.         *)
SnapshotOfAll ==
    /\ pollPc = "scan" /\ pollTodo = {}
    /\ pollTodo' = {sessions[m] : m \in Mac}
    /\ PollUnchanged
    /\ UNCHANGED <<tableVars, conn, state, stray, pollPc, pollCur>>

(* The copy of the table, taken once a second when the last one is done.     *)
Snapshot ==
    /\ pollPc = "scan" /\ pollTodo = {}
    /\ pollTodo' = {sessions[m] : m \in Mac} \ {None}
    /\ PollUnchanged
    /\ UNCHANGED <<tableVars, conn, state, stray, pollPc, pollCur>>

(* Mutant: silence is not looked at.                                         *)
PollNoTimeout(s) ==
    /\ pollPc = "scan" /\ s \in pollTodo
    /\ pollTodo' = pollTodo \ {s}
    /\ PollUnchanged
    /\ UNCHANGED <<tableVars, conn, state, stray, pollPc, pollCur>>

(* One session of the copy: silent for too long; or not due, or polled with  *)
(* success; or one that cannot be polled, for want of a subscription or of a *)
(* socket.  What is found of a session that has left the table since the     *)
(* copy was made does not matter: _expire will leave it alone.               *)
PollSession(s) ==
    /\ pollPc = "scan" /\ s \in pollTodo
    /\ pollTodo' = pollTodo \ {s}
    /\ LET m == MacOf[s] IN
       \/ /\ Owns(s) => lapsed[m]
          /\ pollPc' = "expireNow" /\ pollCur' = s
       \/ /\ Owns(s) => ~lapsed[m]
          /\ UNCHANGED <<pollPc, pollCur>>
       \/ /\ Owns(s) => ~lapsed[m] /\ (~topic[m] \/ conn[s] # "open")
          /\ pollPc' = "expireSoft" /\ pollCur' = s
    /\ PollUnchanged
    /\ UNCHANGED <<tableVars, conn, state, stray>>

(* The lock region of _expire: only a session still in the table is taken    *)
(* out, and then marked offline at once or in 45 s.                          *)
ExpirePop ==
    /\ pollPc \in {"expireNow", "expireSoft"}
    /\ IF Owns(pollCur)
       THEN /\ SetSlot(MacOf[pollCur], None)
            /\ pollPc' = IF pollPc = "expireNow" THEN "offCheck" ELSE "offArm"
            /\ UNCHANGED pollCur
       ELSE pollPc' = "scan" /\ pollCur' = None /\ UNCHANGED slotVars
    /\ PollUnchanged
    /\ UNCHANGED <<timerVars, conn, state, stray, pollTodo>>

ExpireCheck ==
    /\ pollPc = "offCheck"
    /\ pollPc' = IF device[MacOf[pollCur]] THEN "offWrite" ELSE "hangup"
    /\ PollUnchanged
    /\ UNCHANGED <<tableVars, conn, state, stray, pollTodo, pollCur>>

ExpireWrite ==
    /\ pollPc = "offWrite"
    /\ WriteState(pollCur, FALSE)
    /\ pollPc' = "hangup"
    /\ PollUnchanged
    /\ UNCHANGED <<tableVars, conn, pollTodo, pollCur>>

ExpireArm ==
    /\ pollPc = "offArm"
    /\ ArmTimer(pollCur)
    /\ pollPc' = "hangup"
    /\ PollUnchanged
    /\ UNCHANGED <<slotVars, conn, state, stray, pollTodo, pollCur>>

ExpireHangup ==
    /\ pollPc = "hangup"
    /\ Hangup(pollCur)
    /\ pollPc' = "scan" /\ pollCur' = None
    /\ PollUnchanged
    /\ UNCHANGED <<tableVars, state, stray, pollTodo>>

-------------------------------------------------------------------------------
(* The web thread: POST .../delete is disconnect(mac), then                  *)
(* DeviceRegistry.delete(mac) file by file.                                  *)

WebUnchanged == UNCHANGED <<pollVars, restarts, pc, prev, timerVars>>

DeleteRequest(m) ==
    /\ webPc = "idle"
    /\ deletes < MaxDeletes
    /\ deletes' = deletes + 1
    /\ webPc' = "disconnect" /\ webMac' = m
    /\ WebUnchanged
    /\ UNCHANGED <<slotVars, conn, fileVars, webVictim>>

Disconnect ==
    /\ webPc = "disconnect"
    /\ webVictim' = sessions[webMac]
    /\ SetSlot(webMac, None)
    /\ webPc' = IF sessions[webMac] = None THEN "device" ELSE "shutdown"
    /\ WebUnchanged
    /\ UNCHANGED <<conn, fileVars, webMac, deletes>>

DisconnectHangup ==
    /\ webPc = "shutdown"
    /\ Hangup(webVictim)
    /\ webPc' = "device" /\ webVictim' = None
    /\ WebUnchanged
    /\ UNCHANGED <<slotVars, fileVars, webMac, deletes>>

DeleteDevice ==
    /\ webPc = "device"
    /\ device' = [device EXCEPT ![webMac] = FALSE]
    /\ IF device[webMac] THEN webPc' = "state" /\ UNCHANGED webMac
                         ELSE webPc' = "idle" /\ webMac' = None
    /\ WebUnchanged
    /\ UNCHANGED <<slotVars, conn, state, pending, stray, webVictim, deletes>>

DeleteState ==
    /\ webPc = "state"
    /\ state' = [state EXCEPT ![webMac] = "absent"]
    /\ stray' = [stray EXCEPT ![webMac] = FALSE]
    /\ webPc' = "pending"
    /\ WebUnchanged
    /\ UNCHANGED <<slotVars, conn, device, pending, webMac, webVictim, deletes>>

DeletePending ==
    /\ webPc = "pending"
    /\ pending' = [pending EXCEPT ![webMac] = "none"]
    /\ webPc' = "idle" /\ webMac' = None
    /\ WebUnchanged
    /\ UNCHANGED <<slotVars, conn, device, state, stray, webVictim, deletes>>

-------------------------------------------------------------------------------
(* The MEF process announces a provisioned device, and the announcement      *)
(* ages.  That of a device already listed is read by nobody.                 *)

EnvUnchanged == UNCHANGED <<tableVars, connVars, device, state, stray, rest>>

Provision(m) == /\ pending[m] # "young" /\ ~device[m]
                /\ pending' = [pending EXCEPT ![m] = "young"]
                /\ EnvUnchanged

PendingAges(m) == /\ pending[m] = "young"
                  /\ pending' = [pending EXCEPT ![m] = "old"]
                  /\ EnvUnchanged

(* The process dies between any two steps and start() runs: threads, tables, *)
(* sockets and timers are gone, the files are what they were, except that    *)
(* start() takes back "online" of every listed device.                       *)
Restart ==
    /\ restarts < MaxRestarts
    /\ restarts' = restarts + 1
    /\ sessions' = [m \in Mac |-> None]
    /\ offlineTimers' = [m \in Mac |-> None]
    /\ timer' = [s \in Session |-> IF timer[s] = "none" THEN "none" ELSE "over"]
    /\ pc' = [s \in Session |-> IF pc[s] = "idle" THEN "idle" ELSE "done"]
    /\ conn' = [s \in Session |-> IF pc[s] = "idle" THEN "none" ELSE "shut"]
    /\ state' = [m \in Mac |-> IF device[m] /\ state[m] = "online" THEN "offline" ELSE state[m]]
    /\ stray' = [m \in Mac |-> stray[m] /\ ~device[m]]
    /\ pollPc' = "scan" /\ pollTodo' = {} /\ pollCur' = None
    /\ webPc' = "idle" /\ webMac' = None /\ webVictim' = None
    /\ prev' = [s \in Session |-> None]
    /\ topic' = [m \in Mac |-> FALSE] /\ lapsed' = [m \in Mac |-> FALSE]
    /\ UNCHANGED <<device, pending, deletes>>

-------------------------------------------------------------------------------
(* The next-state relation and its fairness.                                 *)

(* What a handler does without waiting for its peer.                         *)
HandlerStep(s) ==
    \/ LookUp(s) \/ RefuseConnect(s) \/ ReadPending(s) \/ UnlinkPending(s) \/ Enroll(s)
    \/ Register(s) \/ ClosePrevious(s) \/ CheckDevice(s) \/ WriteOnline(s)
    \/ WriteReport(s) \/ Finally(s) \/ ScheduleOffline(s)

ReadReturns(s) == Subscribe(s) \/ Ping(s) \/ Publish(s) \/ OtherPacket(s) \/ ReadEnds(s)

TimerStep(s) == TimerFires(s) \/ Mark(s) \/ MarkCheck(s) \/ MarkWrite(s)

PollStep == \/ Snapshot
            \/ \E s \in Session : PollSession(s)
            \/ ExpirePop \/ ExpireCheck \/ ExpireWrite \/ ExpireArm \/ ExpireHangup

WebStep == \/ Disconnect \/ DisconnectHangup
           \/ DeleteDevice \/ DeleteState \/ DeletePending

Environment ==
    \/ \E s \in Session : Accept(s) \/ PeerHangsUp(s)
    \/ \E m \in Mac : Lapse(m) \/ DeleteRequest(m) \/ Provision(m) \/ PendingAges(m)

Next == \/ \E s \in Session : HandlerStep(s) \/ ReadReturns(s) \/ TimerStep(s)
        \/ PollStep \/ WebStep \/ Environment \/ Restart

Spec == Init /\ [][Next]_vars

(* Every thread that can run does run, and a read on a socket that is shut   *)
(* or whose peer is gone ends after the finitely many packets still in it.   *)
(* Nothing is promised of a read blocked on a socket that was only closed,   *)
(* nor of the peer.                                                          *)
DeadRead(s) == conn[s] \in {"gone", "shut"} /\ ReadEnds(s)

Fairness ==
    /\ \A s \in Session : /\ WF_vars(HandlerStep(s))
                          /\ SF_vars(DeadRead(s))
                          /\ WF_vars(TimerStep(s))
    /\ WF_vars(PollStep)
    /\ WF_vars(WebStep)

FairSpec == Spec /\ Fairness

-------------------------------------------------------------------------------
(* Safety.                                                                   *)

(* The table points only at connections whose handler is still going to look *)
(* at the table again (_handle 379-384): no entry outlives its handler, and  *)
(* each is filed under the MAC it speaks for.                                *)
TableHoldsLiveHandlers ==
    \A m \in Mac : sessions[m] # None =>
        MacOf[sessions[m]] = m /\ pc[sessions[m]] \in Serving \cup {"final"}

(* Somebody is committed to closing the connection of s.                     *)
ToBeClosed(s) ==
    \/ \E t \in Session : pc[t] = "replaced" /\ prev[t] = s
    \/ pollCur = s /\ pollPc \in {"offCheck", "offWrite", "offArm", "hangup"}
    \/ webVictim = s /\ webPc = "shutdown"

(* A connection that is served but was taken out of the table by somebody    *)
(* else (a successor 363-367, the poller 307-314, a delete 269-277) is       *)
(* closed or about to be: no handler serves on unseen over an open socket.   *)
DisplacedAreClosed ==
    \A s \in Session :
        pc[s] \in Serving /\ ~Owns(s) => conn[s] \in {"closed", "shut"} \/ ToBeClosed(s)

(* A connection is taken out of the table by one thread only, its handler    *)
(* (381-386) or the poller (299-306): it never arms a second offline timer,  *)
(* however the two race.                                                     *)
AboutToArm(s) == pc[s] = "sched" \/ (pollCur = s /\ pollPc = "offArm")

ArmsOnce == \A s \in Session : AboutToArm(s) => timer[s] = "none"

(* Somebody has yet to take back the "online" of m: a connection that is     *)
(* served or being registered or leaving, a timer, the poller, or the        *)
(* deletion of the device.                                                   *)
OfflineIsDue(m) ==
    \/ sessions[m] # None
    \/ \E s \in Session : /\ MacOf[s] = m
                          /\ \/ pc[s] \in {"register", "sched"}
                             \/ timer[s] \in {"armed", "fired", "markCheck", "markWrite"}
                             \/ pollCur = s /\ pollPc \in {"offCheck", "offWrite", "offArm"}
    \/ webMac = m /\ webPc \in {"shutdown", "device", "state"}

(* A listed device shown online without a connection is being taken care of, *)
(* whichever of handler, poller, timer, delete and restart removed its       *)
(* connection, unless the last to write was a connection already removed.    *)
OnlineIsTakenBack ==
    \A m \in Mac : device[m] /\ state[m] = "online" /\ ~stray[m] => OfflineIsDue(m)

(* README_EN.md:405, "An inactive device is marked offline after             *)
(* approximately 45 seconds": the same without the exception.  A handler     *)
(* overtaken by the poller writes "online" last, and nobody takes it back.   *)
InactiveBecomesOffline ==
    \A m \in Mac : /\ device[m] /\ state[m] = "online"
                   /\ \A s \in Session : MacOf[s] = m => pc[s] \notin Serving
                   => OfflineIsDue(m)

(* web/index.html:220, "The device and its stored data will be removed       *)
(* completely": after the delete no state file is left without its device.   *)
DeletedLeavesNoState ==
    \A m \in Mac : ~device[m] /\ ~(webMac = m /\ webPc = "state") => state[m] = "absent"

(* A connection leaves a slot only through its own finally block, through    *)
(* the poller that decided on this very connection, through a successor of   *)
(* the same MAC, through a delete of this MAC, or with the process: never    *)
(* through the clean-up of another connection.                               *)
ReleasedByOwnPath(m) ==
    \/ pc[sessions[m]] = "final"
    \/ pollCur = sessions[m] /\ pollPc \in {"expireNow", "expireSoft"}
    \/ sessions'[m] \in Session /\ pc[sessions'[m]] = "register"
    \/ webMac = m /\ webPc = "disconnect"
    \/ restarts' # restarts

OnlyOwnPathsRelease ==
    [][\A m \in Mac : sessions[m] # None /\ sessions'[m] # sessions[m] => ReleasedByOwnPath(m)]_vars

(* The table keeps the promise of DeviceSlot.                                *)
Slot == INSTANCE DeviceSlot WITH
            owner <- sessions,
            fresh <- {s \in Session : pc[s] \in {"idle"} \cup Greeting}

SlotSpec == Slot!SlotSpec

-------------------------------------------------------------------------------
(* Liveness, under FairSpec.                                                 *)

(* A connection whose peer is gone leaves the table.                         *)
DeadPeerLeaves ==
    \A s \in Session : (Owns(s) /\ conn[s] \in {"gone", "shut"}) ~> ~Owns(s)

(* A silent connection is expired by the poller, unless it speaks again      *)
(* (_poll 286-288).                                                          *)
SilentIsExpired ==
    \A s \in Session : (Owns(s) /\ lapsed[MacOf[s]]) ~> (~Owns(s) \/ ~lapsed[MacOf[s]])

(* "online" with nobody connected is taken back, or made obsolete by a new   *)
(* connection, by a displaced one or by the deletion of the device.          *)
AbandonedGoesOffline ==
    \A m \in Mac : (device[m] /\ state[m] = "online" /\ sessions[m] = None /\ ~stray[m])
                       ~> (state[m] # "online" \/ sessions[m] # None \/ stray[m] \/ ~device[m])

(* A late "offline" of a previous connection (a timer or the poller between  *)
(* its decision and its write) does not last: once one connection keeps the  *)
(* slot and goes on reporting, the device is shown online for good.          *)
ReportingHeals ==
    \A s \in Session : <>[]Owns(s) /\ []<><<WriteReport(s)>>_vars => <>[](state[MacOf[s]] = "online")
===============================================================================
