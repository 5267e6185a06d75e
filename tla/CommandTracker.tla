--------------------------- MODULE CommandTracker ---------------------------
(***************************************************************************)
(* Commands of the dashboard and of Home Assistant on their way to a       *)
(* verdict (src/server/mqtt_server.py): sent to the device, recorded, then *)
(* confirmed by a report, unconfirmed after a timeout, or pruned; and the  *)
(* status request that follows a switch command.                           *)
(*                                                                         *)
(* A step is one region under commands_lock or sessions_lock, or one call  *)
(* that may block.  The device is external: a report may come at any time. *)
(* The session table is here no more than DeviceSlot: the current          *)
(* connection of a MAC (DeviceSessions implements it).                     *)
(***************************************************************************)
EXTENDS Naturals, Sequences, SequencesExt

CONSTANTS
  Mac,        \* devices
  Session,    \* connections
  MacOf,      \* the device a connection belongs to
  Part,       \* what can be switched: the device as a whole, or a channel
  Req,        \* commands, each sent once
  Get,        \* the command STATUS_GET
  None,       \* no connection, no command
  Limit,      \* commands kept before the oldest are dropped (500)
  Keep        \* commands that remain then (400)

ASSUME ConstantsAssumption ==
  /\ MacOf \in [Session -> Mac]
  /\ None \notin Session \cup Req
  /\ Limit \in Nat /\ Keep \in Nat /\ 0 < Keep /\ Keep <= Limit

Switch == {"on", "off"}
Command == [part : Part, value : Switch]      \* POWER_SET, POWERn_SET
State == [Part -> Switch \cup {"unknown"}]    \* the switches as a handler knows them
ASSUME GetAssumption == Get \notin Command /\ None \notin Command /\ Get # None

VARIABLES
  sessions,      \* the current connection of a device
  fresh,         \* connections that have not registered yet
  pc,            \* the thread that sends a command
  sess, cmd,     \* its connection and its command
  commands,      \* the commands recorded, oldest first
  status,        \* their status; "dropped" once they are no longer recorded
  confirmTimer,  \* the timer of a command that gives up waiting
  settled,       \* settled_timers: the command whose timer is filed
  settledTimer,  \* the timer itself
  unasked,       \* history: commands whose device was not asked for its state since
  log            \* history: all commands ever recorded, oldest first

sendVars   == <<pc, sess, cmd>>
trackVars  == <<commands, status, confirmTimer, log>>
settleVars == <<settled, settledTimer, unasked>>
table      == <<sessions, fresh>>
vars       == <<table, sendVars, trackVars, settleVars>>

\* Types; and a command under way has the connection it is sent on (command).
TypeOK ==
  /\ sessions \in [Mac -> Session \cup {None}] /\ fresh \in SUBSET Session
  /\ pc \in [Req -> {"new", "send", "record", "arm", "settle", "done", "refused"}]
  /\ sess \in [Req -> Session \cup {None}]
  /\ cmd \in [Req -> Command \cup {Get, None}]
  /\ \A r \in Req : pc[r] \notin {"new", "refused"} => sess[r] # None /\ cmd[r] # None
  /\ commands \in Seq(Req) /\ log \in Seq(Req)
  /\ status \in [Req -> {"none", "sent", "confirmed", "unconfirmed", "dropped"}]
  /\ confirmTimer \in [Req -> {"off", "armed", "done"}]
  /\ settled \in [Mac -> Req \cup {None}]
  /\ settledTimer \in [Req -> {"off", "armed", "cancelled", "fired", "done"}]
  /\ unasked \in SUBSET Req

Init ==
  /\ sessions = [m \in Mac |-> None] /\ fresh = Session
  /\ pc = [r \in Req |-> "new"] /\ sess = [r \in Req |-> None] /\ cmd = [r \in Req |-> None]
  /\ commands = <<>> /\ log = <<>>
  /\ status = [r \in Req |-> "none"] /\ confirmTimer = [r \in Req |-> "off"]
  /\ settled = [m \in Mac |-> None] /\ settledTimer = [r \in Req |-> "off"] /\ unasked = {}

-----------------------------------------------------------------------------
(* Sending: MQTTServer.command, called by a web thread or _on_message *)

Goto(r, there) == pc' = [pc EXCEPT ![r] = there]
Device(r) == MacOf[sess[r]]

NeverOffline(m) == FALSE   \* mutant
Offline(m) == sessions[m] = None

Look(r, m, c) ==
  /\ pc[r] = "new"
  /\ IF Offline(m)
     THEN Goto(r, "refused") /\ UNCHANGED <<sess, cmd>>
     ELSE /\ sess' = [sess EXCEPT ![r] = sessions[m]]
          /\ cmd' = [cmd EXCEPT ![r] = c]
          /\ Goto(r, "send")
  /\ UNCHANGED <<table, trackVars, settleVars>>

\* session.send: no subscription yet or a broken connection raise
Send(r) ==
  /\ pc[r] = "send"
  /\ \/ Goto(r, "record") /\ unasked' = IF cmd[r] = Get THEN unasked ELSE unasked \cup {r}
     \/ Goto(r, "refused") /\ UNCHANGED unasked
  /\ UNCHANGED <<table, sess, cmd, trackVars, settled, settledTimer>>

\* list(commands)[:-Keep] is dropped
DropNewest(all) == SubSeq(all, 1, Keep)   \* mutant
Newest(all) == SubSeq(all, Len(all) - Keep + 1, Len(all))

Record(r) ==
  /\ pc[r] = "record"
  /\ LET all == Append(commands, r)
     IN  commands' = IF Len(all) > Limit THEN Newest(all) ELSE all
  /\ status' = [q \in Req |->
       IF q \notin ToSet(commands) \cup {r} THEN status[q]
       ELSE IF q \notin ToSet(commands') THEN "dropped"
       ELSE IF q = r THEN "sent" ELSE status[q]]
  /\ log' = Append(log, r)
  /\ Goto(r, "arm")
  /\ UNCHANGED <<table, sess, cmd, confirmTimer, settleVars>>

ArmNothing(r) == confirmTimer' = confirmTimer   \* mutant
ArmConfirm(r) == confirmTimer' = [confirmTimer EXCEPT ![r] = "armed"]

\* The confirmation timer is started after commands_lock is released; only a
\* switch command has a settled status request
Arm(r) ==
  /\ pc[r] = "arm"
  /\ ArmConfirm(r)
  /\ Goto(r, IF cmd[r] = Get THEN "done" ELSE "settle")
  /\ UNCHANGED <<table, sess, cmd, commands, status, log, settleVars>>

\* The timer filed for the device is cancelled, which a timer that has fired ignores
CancelNothing(m) == settledTimer   \* mutant
Cancelled(m) ==
  [q \in Req |-> IF q = settled[m] /\ settledTimer[q] = "armed" THEN "cancelled" ELSE settledTimer[q]]

\* _schedule_settled_status
Settle(r) ==
  /\ pc[r] = "settle"
  /\ settledTimer' = [Cancelled(Device(r)) EXCEPT ![r] = "armed"]
  /\ settled' = [settled EXCEPT ![Device(r)] = r]
  /\ Goto(r, "done")
  /\ UNCHANGED <<table, sess, cmd, trackVars, unasked>>

-----------------------------------------------------------------------------
(* Timers *)

AnyStatus(r) == TRUE   \* mutant
Waiting(r) == status[r] = "sent"

\* _mark_unconfirmed
TimeOut(r) ==
  /\ confirmTimer[r] = "armed"
  /\ confirmTimer' = [confirmTimer EXCEPT ![r] = "done"]
  /\ status' = IF r \in ToSet(commands) /\ Waiting(r)
               THEN [status EXCEPT ![r] = "unconfirmed"] ELSE status
  /\ UNCHANGED <<table, sendVars, commands, log, settleVars>>

SettledFires(r) ==
  /\ settledTimer[r] = "armed"
  /\ settledTimer' = [settledTimer EXCEPT ![r] = "fired"]
  /\ UNCHANGED <<table, sendVars, trackVars, settled, unasked>>

StillCurrent(r) == sessions[Device(r)] = sess[r]
OfNoSession(r) == FALSE   \* mutant
AsksFor(r) == StillCurrent(r)

\* run(): only the connection that is current is asked.  A request that cannot be
\* sent counts as asked: _safe_status ignores the error, the poller will expire
\* the connection.
RunSettled(r) ==
  /\ settledTimer[r] = "fired"
  /\ settledTimer' = [settledTimer EXCEPT ![r] = "done"]
  /\ unasked' = IF AsksFor(r) THEN {q \in unasked : sess[q] # sess[r]} ELSE unasked
  /\ UNCHANGED <<table, sendVars, trackVars, settled>>

-----------------------------------------------------------------------------
(* Reports *)

\* What a handler compares with: the state it has merged a report into and written
\* (StateReports).  Whatever that was, it is of its own device.
Answers(r, state, isStatus) ==
  IF cmd[r] = Get THEN isStatus ELSE state[cmd[r].part] = cmd[r].value

\* _confirm_commands, called by _status (a status report) or _events of device m
Confirm(m, state, isStatus) ==
  /\ status' = [r \in Req |->
       IF r \in ToSet(commands) /\ Waiting(r) /\ Device(r) = m /\ Answers(r, state, isStatus)
       THEN "confirmed" ELSE status[r]]
  /\ UNCHANGED <<table, sendVars, commands, log, confirmTimer, settleVars>>

-----------------------------------------------------------------------------
(* The session table is any that keeps the promises of DeviceSlot: what         *)
(* DeviceSessions implements.                                                    *)

Slot == INSTANCE DeviceSlot WITH owner <- sessions

Table ==
  /\ \/ \E s \in Session : Slot!Claim(s)
     \/ \E m \in Mac : Slot!Release(m)
  /\ UNCHANGED <<sendVars, trackVars, settleVars>>

-----------------------------------------------------------------------------
SenderStep(r) == Send(r) \/ Record(r) \/ Arm(r) \/ Settle(r)
SettledStep(r) == SettledFires(r) \/ RunSettled(r)

Next ==
  \/ \E r \in Req, m \in Mac, c \in Command \cup {Get} : Look(r, m, c)
  \/ \E r \in Req : SenderStep(r) \/ TimeOut(r) \/ SettledStep(r)
  \/ \E m \in Mac, state \in State, isStatus \in BOOLEAN : Confirm(m, state, isStatus)
  \/ Table

Spec == Init /\ [][Next]_vars

\* Threads and timers go on; the device and the session table may do nothing.
Fairness ==
  \A r \in Req : WF_vars(SenderStep(r)) /\ WF_vars(TimeOut(r)) /\ WF_vars(SettledStep(r))

FairSpec == Spec /\ Fairness

-----------------------------------------------------------------------------
(* Properties *)

\* However many threads send at once, the commands that can be looked up are the
\* newest ones, at least Keep of them and at most Limit, and only the others have
\* lost their status (_command_sent).
TheNewestAreKept ==
  /\ Len(commands) <= Limit
  /\ IsSuffix(commands, log)
  /\ Len(commands) >= Keep \/ commands = log
  /\ \A r \in ToSet(log) : status[r] = "dropped" <=> r \notin ToSet(commands)

\* A verdict stands: neither a late timeout nor a late report changes it
\* (_mark_unconfirmed, _confirm_commands).
VerdictIsFinal ==
  [][\A r \in Req : status[r] \in {"confirmed", "unconfirmed"}
                      => status'[r] \in {status[r], "dropped"}]_vars

\* At most one settled-status timer of a device is running, and it is the one that
\* the next command will cancel (_schedule_settled_status).
OneSettledTimer ==
  \A r \in Req : settledTimer[r] = "armed" =>
    /\ settled[Device(r)] = r
    /\ \A q \in Req : settledTimer[q] = "armed" /\ Device(q) = Device(r) => q = r

\* Every recorded command gets a verdict or is dropped, also when the device's
\* answer came before the command was recorded.
EveryCommandSettles ==
  \A r \in Req : (status[r] = "sent") ~> (status[r] # "sent")

\* After a switch command was sent the device is asked for its state, unless its
\* connection changes, or a command sent on another connection of the device files
\* its timer in the meantime.
AskedAfterSwitch ==
  \A r \in Req : r \in unasked ~>
    \/ r \notin unasked
    \/ sessions[Device(r)] # sess[r]
    \/ settled[Device(r)] # None /\ sess[settled[Device(r)]] # sess[r]
=============================================================================
