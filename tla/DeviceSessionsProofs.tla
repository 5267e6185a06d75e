------------------------- MODULE DeviceSessionsProofs -------------------------
(* What holds of the session table of DeviceSessions for any number of       *)
(* devices, connections, deletes and crashes.                                *)
EXTENDS DeviceSessions, TLAPS

(* The values a thread's local variables have in the phases that use them.   *)
LocalsOK ==
    /\ \A s \in Session : pc[s] = "replaced" => prev[s] \in Session
    /\ pollPc # "scan" => pollCur \in Session
    /\ webPc # "idle" => webMac \in Mac
    /\ webPc = "shutdown" => webVictim \in Session

(* A timer is filed under the MAC of the session that armed it.              *)
TimersAreFiled ==
    \A m \in Mac : offlineTimers[m] # None => MacOf[offlineTimers[m]] = m

Inv == TypeOK /\ LocalsOK

USE DEF Goto, End, Resume, Owns, WriteState, ArmTimer, Cancelled, Hangup, SetSlot, Opt,
        Greeting, Serving

(* Type correctness of every variable, and of the locals of the threads: the *)
(* initial state has it, and every step of every thread keeps it.            *)
LEMMA InitInv == Init => Inv
  BY ConstantsAssumption DEF Init, Inv, TypeOK, LocalsOK, HandlerPc, TimerState, Conn, PollPc, WebPc

LEMMA StepInv == Inv /\ [Next]_vars => Inv'
<1> SUFFICES ASSUME Inv, [Next]_vars PROVE Inv'
  OBVIOUS
<1> USE ConstantsAssumption DEF Inv, TypeOK, LocalsOK, HandlerPc, TimerState, Conn, PollPc, WebPc,
        slotVars, timerVars, tableVars, connVars, fileVars, pollVars, webVars, boundVars, rest,
        PollUnchanged, WebUnchanged, EnvUnchanged, RegistryLocked, Receive
<1>1. ASSUME NEW s \in Session, HandlerStep(s) PROVE Inv'
  <2>1. CASE LookUp(s) BY <2>1 DEF LookUp
  <2>2. CASE RefuseConnect(s) BY <2>2 DEF RefuseConnect
  <2>3. CASE ReadPending(s) BY <2>3 DEF ReadPending
  <2>4. CASE UnlinkPending(s) BY <2>4 DEF UnlinkPending
  <2>5. CASE Enroll(s) BY <2>5 DEF Enroll
  <2>6. CASE Register(s) BY <2>6 DEF Register
  <2>7. CASE ClosePrevious(s) BY <2>7 DEF ClosePrevious
  <2>8. CASE CheckDevice(s) BY <2>8 DEF CheckDevice
  <2>9. CASE WriteOnline(s) BY <2>9 DEF WriteOnline
  <2>10. CASE WriteReport(s) BY <2>10 DEF WriteReport
  <2>11. CASE Finally(s)
    <3>1. CASE Owns(s)
      <4>1. SetSlot(MacOf[s], None) /\ Goto(s, "sched") /\ UNCHANGED conn
        BY <2>11, <3>1 DEF Finally
      <4>2. UNCHANGED <<timerVars, prev, fileVars, rest>>
        BY <2>11 DEF Finally
      <4>3. MacOf[s] \in Mac /\ None \in Opt(Session) /\ "sched" \in HandlerPc
        OBVIOUS
      <4>4. sessions' \in [Mac -> Opt(Session)]
        BY <4>1, <4>3
      <4>5. pc' \in [Session -> HandlerPc]
        BY <4>1, <4>3
      <4>6. topic' \in [Mac -> BOOLEAN] /\ lapsed' \in [Mac -> BOOLEAN]
        BY <4>1, <4>3
      <4>7. \A t \in Session : pc'[t] = "replaced" => prev'[t] \in Session
        BY <4>1, <4>2
      <4> QED BY <4>1, <4>2, <4>4, <4>5, <4>6, <4>7
    <3>2. CASE ~Owns(s) BY <2>11, <3>2 DEF Finally
    <3> QED BY <3>1, <3>2
  <2>12. CASE ScheduleOffline(s) BY <2>12 DEF ScheduleOffline
  <2> QED BY <1>1, <2>1, <2>2, <2>3, <2>4, <2>5, <2>6, <2>7, <2>8, <2>9, <2>10, <2>11, <2>12
          DEF HandlerStep
<1>2. ASSUME NEW s \in Session, ReadReturns(s) PROVE Inv'
  <2>1. CASE Subscribe(s) BY <2>1 DEF Subscribe
  <2>2. CASE Ping(s) BY <2>2 DEF Ping
  <2>3. CASE Publish(s) BY <2>3 DEF Publish
  <2>4. CASE OtherPacket(s) BY <2>4 DEF OtherPacket
  <2>5. CASE ReadEnds(s) BY <2>5 DEF ReadEnds
  <2> QED BY <1>2, <2>1, <2>2, <2>3, <2>4, <2>5 DEF ReadReturns
<1>3. ASSUME NEW s \in Session, TimerStep(s) PROVE Inv'
  <2>1. CASE TimerFires(s) BY <2>1 DEF TimerFires
  <2>2. CASE Mark(s) BY <2>2 DEF Mark
  <2>3. CASE MarkCheck(s) BY <2>3 DEF MarkCheck
  <2>4. CASE MarkWrite(s) BY <2>4 DEF MarkWrite
  <2> QED BY <1>3, <2>1, <2>2, <2>3, <2>4 DEF TimerStep
<1>4. CASE PollStep
  <2>1. CASE Snapshot BY <2>1 DEF Snapshot
  <2>2. ASSUME NEW s \in Session, PollSession(s) PROVE Inv' BY <2>2 DEF PollSession
  <2>3. CASE ExpirePop BY <2>3 DEF ExpirePop
  <2>4. CASE ExpireCheck BY <2>4 DEF ExpireCheck
  <2>5. CASE ExpireWrite BY <2>5 DEF ExpireWrite
  <2>6. CASE ExpireArm BY <2>6 DEF ExpireArm
  <2>7. CASE ExpireHangup BY <2>7 DEF ExpireHangup
  <2> QED BY <1>4, <2>1, <2>2, <2>3, <2>4, <2>5, <2>6, <2>7 DEF PollStep
<1>5. CASE WebStep
  <2>1. CASE Disconnect BY <2>1 DEF Disconnect
  <2>2. CASE DisconnectHangup BY <2>2 DEF DisconnectHangup
  <2>3. CASE DeleteDevice BY <2>3 DEF DeleteDevice
  <2>4. CASE DeleteState BY <2>4 DEF DeleteState
  <2>5. CASE DeletePending BY <2>5 DEF DeletePending
  <2> QED BY <1>5, <2>1, <2>2, <2>3, <2>4, <2>5 DEF WebStep
<1>6. CASE Environment
  <2>1. ASSUME NEW s \in Session, Accept(s) PROVE Inv' BY <2>1 DEF Accept
  <2>2. ASSUME NEW s \in Session, PeerHangsUp(s) PROVE Inv' BY <2>2 DEF PeerHangsUp
  <2>3. ASSUME NEW m \in Mac, Lapse(m) PROVE Inv' BY <2>3 DEF Lapse
  <2>4. ASSUME NEW m \in Mac, DeleteRequest(m) PROVE Inv' BY <2>4 DEF DeleteRequest
  <2>5. ASSUME NEW m \in Mac, Provision(m) PROVE Inv' BY <2>5 DEF Provision
  <2>6. ASSUME NEW m \in Mac, PendingAges(m) PROVE Inv' BY <2>6 DEF PendingAges
  <2> QED BY <1>6, <2>1, <2>2, <2>3, <2>4, <2>5, <2>6 DEF Environment
<1>7. CASE Restart
  BY <1>7 DEF Restart
<1>8. CASE UNCHANGED vars
  BY <1>8 DEF vars
<1> QED BY <1>1, <1>2, <1>3, <1>4, <1>5, <1>6, <1>7, <1>8 DEF Next

(* Every variable has its type in every reachable state of the server.       *)
THEOREM TypeCorrect == Spec => []TypeOK
<1>1. Spec => []Inv
  BY InitInv, StepInv, PTL DEF Spec
<1> QED BY <1>1, PTL DEF Inv

-------------------------------------------------------------------------------
(* The table holds live handlers: only Register and the three removals write *)
(* it, and an owner moves from Serving to "final", where it looks again.     *)
LEMMA StepTable == Inv /\ TableHoldsLiveHandlers /\ [Next]_vars => TableHoldsLiveHandlers'
<1> SUFFICES ASSUME Inv, TableHoldsLiveHandlers, [Next]_vars PROVE TableHoldsLiveHandlers'
  OBVIOUS
<1> USE ConstantsAssumption DEF Inv, TypeOK, LocalsOK, TableHoldsLiveHandlers, HandlerPc,
        slotVars, timerVars, tableVars, connVars, fileVars, pollVars, webVars, boundVars, rest,
        PollUnchanged, WebUnchanged, EnvUnchanged, Receive
<1>1. ASSUME NEW s \in Session, HandlerStep(s) PROVE TableHoldsLiveHandlers'
  <2>1. CASE LookUp(s) BY <2>1 DEF LookUp
  <2>2. CASE RefuseConnect(s) BY <2>2 DEF RefuseConnect
  <2>3. CASE ReadPending(s) BY <2>3 DEF ReadPending
  <2>4. CASE UnlinkPending(s) BY <2>4 DEF UnlinkPending
  <2>5. CASE Enroll(s) BY <2>5 DEF Enroll
  <2>6. CASE Register(s) BY <2>6 DEF Register
  <2>7. CASE ClosePrevious(s) BY <2>7 DEF ClosePrevious
  <2>8. CASE CheckDevice(s) BY <2>8 DEF CheckDevice
  <2>9. CASE WriteOnline(s) BY <2>9 DEF WriteOnline
  <2>10. CASE WriteReport(s) BY <2>10 DEF WriteReport
  <2>11. CASE Finally(s) BY <2>11 DEF Finally
  <2>12. CASE ScheduleOffline(s) BY <2>12 DEF ScheduleOffline
  <2> QED BY <1>1, <2>1, <2>2, <2>3, <2>4, <2>5, <2>6, <2>7, <2>8, <2>9, <2>10, <2>11, <2>12 DEF HandlerStep
<1>2. ASSUME NEW s \in Session, ReadReturns(s) PROVE TableHoldsLiveHandlers'
  <2>1. CASE Subscribe(s) BY <2>1 DEF Subscribe
  <2>2. CASE Ping(s) BY <2>2 DEF Ping
  <2>3. CASE Publish(s) BY <2>3 DEF Publish
  <2>4. CASE OtherPacket(s) BY <2>4 DEF OtherPacket
  <2>5. CASE ReadEnds(s) BY <2>5 DEF ReadEnds
  <2> QED BY <1>2, <2>1, <2>2, <2>3, <2>4, <2>5 DEF ReadReturns
<1>3. ASSUME NEW s \in Session, TimerStep(s) PROVE TableHoldsLiveHandlers'
  <2>1. CASE TimerFires(s) BY <2>1 DEF TimerFires
  <2>2. CASE Mark(s) BY <2>2 DEF Mark
  <2>3. CASE MarkCheck(s) BY <2>3 DEF MarkCheck
  <2>4. CASE MarkWrite(s) BY <2>4 DEF MarkWrite
  <2> QED BY <1>3, <2>1, <2>2, <2>3, <2>4 DEF TimerStep
<1>4. CASE PollStep
  <2>1. CASE Snapshot BY <2>1 DEF Snapshot
  <2>2. ASSUME NEW s \in Session, PollSession(s) PROVE TableHoldsLiveHandlers' BY <2>2 DEF PollSession
  <2>3. CASE ExpirePop BY <2>3 DEF ExpirePop
  <2>4. CASE ExpireCheck BY <2>4 DEF ExpireCheck
  <2>5. CASE ExpireWrite BY <2>5 DEF ExpireWrite
  <2>6. CASE ExpireArm BY <2>6 DEF ExpireArm
  <2>7. CASE ExpireHangup BY <2>7 DEF ExpireHangup
  <2> QED BY <1>4, <2>1, <2>2, <2>3, <2>4, <2>5, <2>6, <2>7 DEF PollStep
<1>5. CASE WebStep
  <2>1. CASE Disconnect BY <2>1 DEF Disconnect
  <2>2. CASE DisconnectHangup BY <2>2 DEF DisconnectHangup
  <2>3. CASE DeleteDevice BY <2>3 DEF DeleteDevice
  <2>4. CASE DeleteState BY <2>4 DEF DeleteState
  <2>5. CASE DeletePending BY <2>5 DEF DeletePending
  <2> QED BY <1>5, <2>1, <2>2, <2>3, <2>4, <2>5 DEF WebStep
<1>6. CASE Environment
  <2>1. ASSUME NEW s \in Session, Accept(s) PROVE TableHoldsLiveHandlers' BY <2>1 DEF Accept
  <2>2. ASSUME NEW s \in Session, PeerHangsUp(s) PROVE TableHoldsLiveHandlers' BY <2>2 DEF PeerHangsUp
  <2>3. ASSUME NEW m \in Mac, Lapse(m) PROVE TableHoldsLiveHandlers' BY <2>3 DEF Lapse
  <2>4. ASSUME NEW m \in Mac, DeleteRequest(m) PROVE TableHoldsLiveHandlers' BY <2>4 DEF DeleteRequest
  <2>5. ASSUME NEW m \in Mac, Provision(m) PROVE TableHoldsLiveHandlers' BY <2>5 DEF Provision
  <2>6. ASSUME NEW m \in Mac, PendingAges(m) PROVE TableHoldsLiveHandlers' BY <2>6 DEF PendingAges
  <2> QED BY <1>6, <2>1, <2>2, <2>3, <2>4, <2>5, <2>6 DEF Environment
<1>7. CASE Restart BY <1>7 DEF Restart
<1>8. CASE UNCHANGED vars
  BY <1>8 DEF vars
<1> QED BY <1>1, <1>2, <1>3, <1>4, <1>5, <1>6, <1>7, <1>8 DEF Next

(* No table entry outlives its handler (mqtt_server.py:379-384).             *)
THEOREM LiveTable == Spec => []TableHoldsLiveHandlers
<1>1. Init => TableHoldsLiveHandlers
  BY DEF Init, TableHoldsLiveHandlers
<1>2. Spec => [](Inv /\ TableHoldsLiveHandlers)
  BY InitInv, StepInv, StepTable, <1>1, PTL DEF Spec
<1> QED BY <1>2, PTL

-------------------------------------------------------------------------------
(* A displaced connection is closed or about to be: who takes an entry out   *)
(* of the table remembers it until its socket is closed.                     *)
LEMMA StepDisplaced == Inv /\ DisplacedAreClosed /\ [Next]_vars => DisplacedAreClosed'
<1> SUFFICES ASSUME Inv, DisplacedAreClosed, [Next]_vars PROVE DisplacedAreClosed'
  OBVIOUS
<1> USE ConstantsAssumption DEF Inv, TypeOK, LocalsOK, DisplacedAreClosed, ToBeClosed, HandlerPc, TimerState, Conn, PollPc,
        WebPc, slotVars, timerVars, tableVars, connVars, fileVars, pollVars, webVars, boundVars, rest,
        PollUnchanged, WebUnchanged, EnvUnchanged, Receive
<1>1. ASSUME NEW s \in Session, HandlerStep(s) PROVE DisplacedAreClosed'
  <2>1. CASE LookUp(s) BY <2>1 DEF LookUp
  <2>2. CASE RefuseConnect(s) BY <2>2 DEF RefuseConnect
  <2>3. CASE ReadPending(s) BY <2>3 DEF ReadPending
  <2>4. CASE UnlinkPending(s) BY <2>4 DEF UnlinkPending
  <2>5. CASE Enroll(s) BY <2>5 DEF Enroll
  <2>6. CASE Register(s) BY <2>6 DEF Register
  <2>7. CASE ClosePrevious(s) BY <2>7 DEF ClosePrevious
  <2>8. CASE CheckDevice(s) BY <2>8 DEF CheckDevice
  <2>9. CASE WriteOnline(s) BY <2>9 DEF WriteOnline
  <2>10. CASE WriteReport(s) BY <2>10 DEF WriteReport
  <2>11. CASE Finally(s) BY <2>11 DEF Finally
  <2>12. CASE ScheduleOffline(s) BY <2>12 DEF ScheduleOffline
  <2> QED BY <1>1, <2>1, <2>2, <2>3, <2>4, <2>5, <2>6, <2>7, <2>8, <2>9, <2>10, <2>11, <2>12 DEF HandlerStep
<1>2. ASSUME NEW s \in Session, ReadReturns(s) PROVE DisplacedAreClosed'
  <2>1. CASE Subscribe(s) BY <2>1 DEF Subscribe
  <2>2. CASE Ping(s) BY <2>2 DEF Ping
  <2>3. CASE Publish(s) BY <2>3 DEF Publish
  <2>4. CASE OtherPacket(s) BY <2>4 DEF OtherPacket
  <2>5. CASE ReadEnds(s) BY <2>5 DEF ReadEnds
  <2> QED BY <1>2, <2>1, <2>2, <2>3, <2>4, <2>5 DEF ReadReturns
<1>3. ASSUME NEW s \in Session, TimerStep(s) PROVE DisplacedAreClosed'
  <2>1. CASE TimerFires(s) BY <2>1 DEF TimerFires
  <2>2. CASE Mark(s) BY <2>2 DEF Mark
  <2>3. CASE MarkCheck(s) BY <2>3 DEF MarkCheck
  <2>4. CASE MarkWrite(s) BY <2>4 DEF MarkWrite
  <2> QED BY <1>3, <2>1, <2>2, <2>3, <2>4 DEF TimerStep
<1>4. CASE PollStep
  <2>1. CASE Snapshot BY <2>1 DEF Snapshot
  <2>2. ASSUME NEW s \in Session, PollSession(s) PROVE DisplacedAreClosed' BY <2>2 DEF PollSession
  <2>3. CASE ExpirePop BY <2>3 DEF ExpirePop
  <2>4. CASE ExpireCheck BY <2>4 DEF ExpireCheck
  <2>5. CASE ExpireWrite BY <2>5 DEF ExpireWrite
  <2>6. CASE ExpireArm BY <2>6 DEF ExpireArm
  <2>7. CASE ExpireHangup BY <2>7 DEF ExpireHangup
  <2> QED BY <1>4, <2>1, <2>2, <2>3, <2>4, <2>5, <2>6, <2>7 DEF PollStep
<1>5. CASE WebStep
  <2>1. CASE Disconnect BY <2>1 DEF Disconnect
  <2>2. CASE DisconnectHangup BY <2>2 DEF DisconnectHangup
  <2>3. CASE DeleteDevice BY <2>3 DEF DeleteDevice
  <2>4. CASE DeleteState BY <2>4 DEF DeleteState
  <2>5. CASE DeletePending BY <2>5 DEF DeletePending
  <2> QED BY <1>5, <2>1, <2>2, <2>3, <2>4, <2>5 DEF WebStep
<1>6. CASE Environment
  <2>1. ASSUME NEW s \in Session, Accept(s) PROVE DisplacedAreClosed' BY <2>1 DEF Accept
  <2>2. ASSUME NEW s \in Session, PeerHangsUp(s) PROVE DisplacedAreClosed' BY <2>2 DEF PeerHangsUp
  <2>3. ASSUME NEW m \in Mac, Lapse(m) PROVE DisplacedAreClosed' BY <2>3 DEF Lapse
  <2>4. ASSUME NEW m \in Mac, DeleteRequest(m) PROVE DisplacedAreClosed' BY <2>4 DEF DeleteRequest
  <2>5. ASSUME NEW m \in Mac, Provision(m) PROVE DisplacedAreClosed' BY <2>5 DEF Provision
  <2>6. ASSUME NEW m \in Mac, PendingAges(m) PROVE DisplacedAreClosed' BY <2>6 DEF PendingAges
  <2> QED BY <1>6, <2>1, <2>2, <2>3, <2>4, <2>5, <2>6 DEF Environment
<1>7. CASE Restart BY <1>7 DEF Restart
<1>8. CASE UNCHANGED vars
  BY <1>8 DEF vars
<1> QED BY <1>1, <1>2, <1>3, <1>4, <1>5, <1>6, <1>7, <1>8 DEF Next

(* No handler serves on, unseen, over an open socket.                        *)
THEOREM ClosedWhenDisplaced == Spec => []DisplacedAreClosed
<1>1. Init => DisplacedAreClosed
  BY DEF Init, DisplacedAreClosed
<1>2. Spec => [](Inv /\ DisplacedAreClosed)
  BY InitInv, StepInv, StepDisplaced, <1>1, PTL DEF Spec
<1> QED BY <1>2, PTL

-------------------------------------------------------------------------------
(* An entry of offline_timers is a timer of its own MAC, so that cancelling  *)
(* it takes nothing from another device.                                     *)
LEMMA StepFiled == Inv /\ TimersAreFiled /\ [Next]_vars => TimersAreFiled'
<1> SUFFICES ASSUME Inv, TimersAreFiled, [Next]_vars PROVE TimersAreFiled'
  OBVIOUS
<1> USE ConstantsAssumption DEF Inv, TypeOK, LocalsOK, TimersAreFiled, HandlerPc, TimerState, Conn, PollPc,
        WebPc, slotVars, timerVars, tableVars, connVars, fileVars, pollVars, webVars, boundVars, rest,
        PollUnchanged, WebUnchanged, EnvUnchanged, Receive
<1>1. ASSUME NEW s \in Session, HandlerStep(s) PROVE TimersAreFiled'
  <2>1. CASE LookUp(s) BY <2>1 DEF LookUp
  <2>2. CASE RefuseConnect(s) BY <2>2 DEF RefuseConnect
  <2>3. CASE ReadPending(s) BY <2>3 DEF ReadPending
  <2>4. CASE UnlinkPending(s) BY <2>4 DEF UnlinkPending
  <2>5. CASE Enroll(s) BY <2>5 DEF Enroll
  <2>6. CASE Register(s) BY <2>6 DEF Register
  <2>7. CASE ClosePrevious(s) BY <2>7 DEF ClosePrevious
  <2>8. CASE CheckDevice(s) BY <2>8 DEF CheckDevice
  <2>9. CASE WriteOnline(s) BY <2>9 DEF WriteOnline
  <2>10. CASE WriteReport(s) BY <2>10 DEF WriteReport
  <2>11. CASE Finally(s) BY <2>11 DEF Finally
  <2>12. CASE ScheduleOffline(s) BY <2>12 DEF ScheduleOffline
  <2> QED BY <1>1, <2>1, <2>2, <2>3, <2>4, <2>5, <2>6, <2>7, <2>8, <2>9, <2>10, <2>11, <2>12 DEF HandlerStep
<1>2. ASSUME NEW s \in Session, ReadReturns(s) PROVE TimersAreFiled'
  <2>1. CASE Subscribe(s) BY <2>1 DEF Subscribe
  <2>2. CASE Ping(s) BY <2>2 DEF Ping
  <2>3. CASE Publish(s) BY <2>3 DEF Publish
  <2>4. CASE OtherPacket(s) BY <2>4 DEF OtherPacket
  <2>5. CASE ReadEnds(s) BY <2>5 DEF ReadEnds
  <2> QED BY <1>2, <2>1, <2>2, <2>3, <2>4, <2>5 DEF ReadReturns
<1>3. ASSUME NEW s \in Session, TimerStep(s) PROVE TimersAreFiled'
  <2>1. CASE TimerFires(s) BY <2>1 DEF TimerFires
  <2>2. CASE Mark(s) BY <2>2 DEF Mark
  <2>3. CASE MarkCheck(s) BY <2>3 DEF MarkCheck
  <2>4. CASE MarkWrite(s) BY <2>4 DEF MarkWrite
  <2> QED BY <1>3, <2>1, <2>2, <2>3, <2>4 DEF TimerStep
<1>4. CASE PollStep
  <2>1. CASE Snapshot BY <2>1 DEF Snapshot
  <2>2. ASSUME NEW s \in Session, PollSession(s) PROVE TimersAreFiled' BY <2>2 DEF PollSession
  <2>3. CASE ExpirePop BY <2>3 DEF ExpirePop
  <2>4. CASE ExpireCheck BY <2>4 DEF ExpireCheck
  <2>5. CASE ExpireWrite BY <2>5 DEF ExpireWrite
  <2>6. CASE ExpireArm BY <2>6 DEF ExpireArm
  <2>7. CASE ExpireHangup BY <2>7 DEF ExpireHangup
  <2> QED BY <1>4, <2>1, <2>2, <2>3, <2>4, <2>5, <2>6, <2>7 DEF PollStep
<1>5. CASE WebStep
  <2>1. CASE Disconnect BY <2>1 DEF Disconnect
  <2>2. CASE DisconnectHangup BY <2>2 DEF DisconnectHangup
  <2>3. CASE DeleteDevice BY <2>3 DEF DeleteDevice
  <2>4. CASE DeleteState BY <2>4 DEF DeleteState
  <2>5. CASE DeletePending BY <2>5 DEF DeletePending
  <2> QED BY <1>5, <2>1, <2>2, <2>3, <2>4, <2>5 DEF WebStep
<1>6. CASE Environment
  <2>1. ASSUME NEW s \in Session, Accept(s) PROVE TimersAreFiled' BY <2>1 DEF Accept
  <2>2. ASSUME NEW s \in Session, PeerHangsUp(s) PROVE TimersAreFiled' BY <2>2 DEF PeerHangsUp
  <2>3. ASSUME NEW m \in Mac, Lapse(m) PROVE TimersAreFiled' BY <2>3 DEF Lapse
  <2>4. ASSUME NEW m \in Mac, DeleteRequest(m) PROVE TimersAreFiled' BY <2>4 DEF DeleteRequest
  <2>5. ASSUME NEW m \in Mac, Provision(m) PROVE TimersAreFiled' BY <2>5 DEF Provision
  <2>6. ASSUME NEW m \in Mac, PendingAges(m) PROVE TimersAreFiled' BY <2>6 DEF PendingAges
  <2> QED BY <1>6, <2>1, <2>2, <2>3, <2>4, <2>5, <2>6 DEF Environment
<1>7. CASE Restart BY <1>7 DEF Restart
<1>8. CASE UNCHANGED vars
  BY <1>8 DEF vars
<1> QED BY <1>1, <1>2, <1>3, <1>4, <1>5, <1>6, <1>7, <1>8 DEF Next

(* Arming a timer leaves the timers of other devices alone.                  *)
LEMMA ArmKeepsOthers ==
    ASSUME Inv, TimersAreFiled, NEW s \in Session, ArmTimer(s)
    PROVE  /\ timer'[s] = "armed"
           /\ \A t \in Session : MacOf[t] # MacOf[s] => timer'[t] = timer[t]
<1>1. None \notin Session /\ MacOf[s] \in Mac
  BY ConstantsAssumption
<1>2. \A t \in Session : MacOf[t] # MacOf[s] => t # offlineTimers[MacOf[s]]
  BY <1>1 DEF TimersAreFiled
<1> QED BY <1>1, <1>2 DEF Inv, TypeOK

(* The obligation to take "online" back is handed from the table to the      *)
(* leaving handler or the poller, from them to a timer, and lost by none.    *)
LEMMA StepTakenBack ==
    Inv /\ TimersAreFiled /\ OnlineIsTakenBack /\ [Next]_vars => OnlineIsTakenBack'
<1> SUFFICES ASSUME Inv, TimersAreFiled, OnlineIsTakenBack, [Next]_vars PROVE OnlineIsTakenBack'
  OBVIOUS
<1> USE ConstantsAssumption DEF Inv, TypeOK, LocalsOK, TimersAreFiled, OnlineIsTakenBack, OfflineIsDue,
        HandlerPc, TimerState, Conn, PollPc,
        WebPc, slotVars, timerVars, tableVars, connVars, fileVars, pollVars, webVars, boundVars, rest,
        PollUnchanged, WebUnchanged, EnvUnchanged, Receive
<1>1. ASSUME NEW s \in Session, HandlerStep(s) PROVE OnlineIsTakenBack'
  <2>1. CASE LookUp(s) BY <2>1 DEF LookUp
  <2>2. CASE RefuseConnect(s) BY <2>2 DEF RefuseConnect
  <2>3. CASE ReadPending(s) BY <2>3 DEF ReadPending
  <2>4. CASE UnlinkPending(s) BY <2>4 DEF UnlinkPending
  <2>5. CASE Enroll(s) BY <2>5 DEF Enroll
  <2>6. CASE Register(s) BY <2>6 DEF Register
  <2>7. CASE ClosePrevious(s) BY <2>7 DEF ClosePrevious
  <2>8. CASE CheckDevice(s) BY <2>8 DEF CheckDevice
  <2>9. CASE WriteOnline(s) BY <2>9 DEF WriteOnline
  <2>10. CASE WriteReport(s) BY <2>10 DEF WriteReport
  <2>11. CASE Finally(s) BY <2>11 DEF Finally
  <2>12. CASE ScheduleOffline(s)
    <3> SUFFICES ASSUME NEW m \in Mac, device'[m], state'[m] = "online", ~stray'[m]
                 PROVE  OfflineIsDue(m)'
      BY DEF OnlineIsTakenBack
    <3>1. OfflineIsDue(m)
      BY <2>12 DEF ScheduleOffline
    <3>2. timer'[s] = "armed" /\ \A t \in Session : MacOf[t] # MacOf[s] => timer'[t] = timer[t]
      BY <2>12, ArmKeepsOthers DEF ScheduleOffline
    <3>3. CASE m = MacOf[s]
      BY <2>12, <3>2, <3>3 DEF ScheduleOffline
    <3>4. CASE m # MacOf[s]
      BY <2>12, <3>1, <3>2, <3>4 DEF ScheduleOffline
    <3> QED BY <3>3, <3>4
  <2> QED BY <1>1, <2>1, <2>2, <2>3, <2>4, <2>5, <2>6, <2>7, <2>8, <2>9, <2>10, <2>11, <2>12 DEF HandlerStep
<1>2. ASSUME NEW s \in Session, ReadReturns(s) PROVE OnlineIsTakenBack'
  <2>1. CASE Subscribe(s) BY <2>1 DEF Subscribe
  <2>2. CASE Ping(s) BY <2>2 DEF Ping
  <2>3. CASE Publish(s) BY <2>3 DEF Publish
  <2>4. CASE OtherPacket(s) BY <2>4 DEF OtherPacket
  <2>5. CASE ReadEnds(s) BY <2>5 DEF ReadEnds
  <2> QED BY <1>2, <2>1, <2>2, <2>3, <2>4, <2>5 DEF ReadReturns
<1>3. ASSUME NEW s \in Session, TimerStep(s) PROVE OnlineIsTakenBack'
  <2>1. CASE TimerFires(s) BY <2>1 DEF TimerFires
  <2>2. CASE Mark(s) BY <2>2 DEF Mark
  <2>3. CASE MarkCheck(s) BY <2>3 DEF MarkCheck
  <2>4. CASE MarkWrite(s) BY <2>4 DEF MarkWrite
  <2> QED BY <1>3, <2>1, <2>2, <2>3, <2>4 DEF TimerStep
<1>4. CASE PollStep
  <2>1. CASE Snapshot BY <2>1 DEF Snapshot
  <2>2. ASSUME NEW s \in Session, PollSession(s) PROVE OnlineIsTakenBack' BY <2>2 DEF PollSession
  <2>3. CASE ExpirePop BY <2>3 DEF ExpirePop
  <2>4. CASE ExpireCheck BY <2>4 DEF ExpireCheck
  <2>5. CASE ExpireWrite BY <2>5 DEF ExpireWrite
  <2>6. CASE ExpireArm
    <3> SUFFICES ASSUME NEW m \in Mac, device'[m], state'[m] = "online", ~stray'[m]
                 PROVE  OfflineIsDue(m)'
      BY DEF OnlineIsTakenBack
    <3>1. OfflineIsDue(m)
      BY <2>6 DEF ExpireArm
    <3>2. timer'[pollCur] = "armed" /\ \A t \in Session : MacOf[t] # MacOf[pollCur] => timer'[t] = timer[t]
      BY <2>6, ArmKeepsOthers DEF ExpireArm
    <3>3. CASE m = MacOf[pollCur]
      BY <2>6, <3>2, <3>3 DEF ExpireArm
    <3>4. CASE m # MacOf[pollCur]
      BY <2>6, <3>1, <3>2, <3>4 DEF ExpireArm
    <3> QED BY <3>3, <3>4
  <2>7. CASE ExpireHangup BY <2>7 DEF ExpireHangup
  <2> QED BY <1>4, <2>1, <2>2, <2>3, <2>4, <2>5, <2>6, <2>7 DEF PollStep
<1>5. CASE WebStep
  <2>1. CASE Disconnect BY <2>1 DEF Disconnect
  <2>2. CASE DisconnectHangup BY <2>2 DEF DisconnectHangup
  <2>3. CASE DeleteDevice BY <2>3 DEF DeleteDevice
  <2>4. CASE DeleteState BY <2>4 DEF DeleteState
  <2>5. CASE DeletePending BY <2>5 DEF DeletePending
  <2> QED BY <1>5, <2>1, <2>2, <2>3, <2>4, <2>5 DEF WebStep
<1>6. CASE Environment
  <2>1. ASSUME NEW s \in Session, Accept(s) PROVE OnlineIsTakenBack' BY <2>1 DEF Accept
  <2>2. ASSUME NEW s \in Session, PeerHangsUp(s) PROVE OnlineIsTakenBack' BY <2>2 DEF PeerHangsUp
  <2>3. ASSUME NEW m \in Mac, Lapse(m) PROVE OnlineIsTakenBack' BY <2>3 DEF Lapse
  <2>4. ASSUME NEW m \in Mac, DeleteRequest(m) PROVE OnlineIsTakenBack' BY <2>4 DEF DeleteRequest
  <2>5. ASSUME NEW m \in Mac, Provision(m) PROVE OnlineIsTakenBack' BY <2>5 DEF Provision
  <2>6. ASSUME NEW m \in Mac, PendingAges(m) PROVE OnlineIsTakenBack' BY <2>6 DEF PendingAges
  <2> QED BY <1>6, <2>1, <2>2, <2>3, <2>4, <2>5, <2>6 DEF Environment
<1>7. CASE Restart BY <1>7 DEF Restart
<1>8. CASE UNCHANGED vars
  BY <1>8 DEF vars
<1> QED BY <1>1, <1>2, <1>3, <1>4, <1>5, <1>6, <1>7, <1>8 DEF Next

(* "Online" without a connection is always somebody's to take back, unless a *)
(* connection that had lost its slot wrote it.                               *)
THEOREM TakenBack == Spec => []OnlineIsTakenBack
<1>1. Init => TimersAreFiled /\ OnlineIsTakenBack
  BY DEF Init, TimersAreFiled, OnlineIsTakenBack
<1>2. Spec => [](Inv /\ TimersAreFiled /\ OnlineIsTakenBack)
  BY InitInv, StepInv, StepFiled, StepTakenBack, <1>1, PTL DEF Spec
<1> QED BY <1>2, PTL

-------------------------------------------------------------------------------
(* The life of a connection: it has not been in the table yet, is in it, or  *)
(* has been taken out of it, and then by one thread; before the last step of *)
(* that it has armed no timer.                                               *)
LivesOnce ==
    \A s \in Session :
        /\ pc[s] \in {"idle"} \cup Greeting => ~Owns(s) /\ ~(pollCur = s /\ pollPc = "offArm") /\ timer[s] = "none"
        /\ Owns(s) => pc[s] # "sched" /\ ~(pollCur = s /\ pollPc = "offArm") /\ timer[s] = "none"
        /\ pc[s] = "sched" => ~(pollCur = s /\ pollPc = "offArm")
        /\ AboutToArm(s) => timer[s] = "none"

LEMMA StepLives == Inv /\ LivesOnce /\ [Next]_vars => LivesOnce'
<1> SUFFICES ASSUME Inv, LivesOnce, [Next]_vars PROVE LivesOnce'
  OBVIOUS
<1> USE ConstantsAssumption DEF Inv, TypeOK, LocalsOK, LivesOnce, AboutToArm, HandlerPc, TimerState, Conn, PollPc,
        WebPc, slotVars, timerVars, tableVars, connVars, fileVars, pollVars, webVars, boundVars, rest,
        PollUnchanged, WebUnchanged, EnvUnchanged, Receive
<1>1. ASSUME NEW s \in Session, HandlerStep(s) PROVE LivesOnce'
  <2>1. CASE LookUp(s) BY <2>1 DEF LookUp
  <2>2. CASE RefuseConnect(s) BY <2>2 DEF RefuseConnect
  <2>3. CASE ReadPending(s) BY <2>3 DEF ReadPending
  <2>4. CASE UnlinkPending(s) BY <2>4 DEF UnlinkPending
  <2>5. CASE Enroll(s) BY <2>5 DEF Enroll
  <2>6. CASE Register(s) BY <2>6 DEF Register
  <2>7. CASE ClosePrevious(s) BY <2>7 DEF ClosePrevious
  <2>8. CASE CheckDevice(s) BY <2>8 DEF CheckDevice
  <2>9. CASE WriteOnline(s) BY <2>9 DEF WriteOnline
  <2>10. CASE WriteReport(s) BY <2>10 DEF WriteReport
  <2>11. CASE Finally(s) BY <2>11 DEF Finally
  <2>12. CASE ScheduleOffline(s) BY <2>12 DEF ScheduleOffline
  <2> QED BY <1>1, <2>1, <2>2, <2>3, <2>4, <2>5, <2>6, <2>7, <2>8, <2>9, <2>10, <2>11, <2>12 DEF HandlerStep
<1>2. ASSUME NEW s \in Session, ReadReturns(s) PROVE LivesOnce'
  <2>1. CASE Subscribe(s) BY <2>1 DEF Subscribe
  <2>2. CASE Ping(s) BY <2>2 DEF Ping
  <2>3. CASE Publish(s) BY <2>3 DEF Publish
  <2>4. CASE OtherPacket(s) BY <2>4 DEF OtherPacket
  <2>5. CASE ReadEnds(s) BY <2>5 DEF ReadEnds
  <2> QED BY <1>2, <2>1, <2>2, <2>3, <2>4, <2>5 DEF ReadReturns
<1>3. ASSUME NEW s \in Session, TimerStep(s) PROVE LivesOnce'
  <2>1. CASE TimerFires(s) BY <2>1 DEF TimerFires
  <2>2. CASE Mark(s) BY <2>2 DEF Mark
  <2>3. CASE MarkCheck(s) BY <2>3 DEF MarkCheck
  <2>4. CASE MarkWrite(s) BY <2>4 DEF MarkWrite
  <2> QED BY <1>3, <2>1, <2>2, <2>3, <2>4 DEF TimerStep
<1>4. CASE PollStep
  <2>1. CASE Snapshot BY <2>1 DEF Snapshot
  <2>2. ASSUME NEW s \in Session, PollSession(s) PROVE LivesOnce' BY <2>2 DEF PollSession
  <2>3. CASE ExpirePop BY <2>3 DEF ExpirePop
  <2>4. CASE ExpireCheck BY <2>4 DEF ExpireCheck
  <2>5. CASE ExpireWrite BY <2>5 DEF ExpireWrite
  <2>6. CASE ExpireArm BY <2>6 DEF ExpireArm
  <2>7. CASE ExpireHangup BY <2>7 DEF ExpireHangup
  <2> QED BY <1>4, <2>1, <2>2, <2>3, <2>4, <2>5, <2>6, <2>7 DEF PollStep
<1>5. CASE WebStep
  <2>1. CASE Disconnect BY <2>1 DEF Disconnect
  <2>2. CASE DisconnectHangup BY <2>2 DEF DisconnectHangup
  <2>3. CASE DeleteDevice BY <2>3 DEF DeleteDevice
  <2>4. CASE DeleteState BY <2>4 DEF DeleteState
  <2>5. CASE DeletePending BY <2>5 DEF DeletePending
  <2> QED BY <1>5, <2>1, <2>2, <2>3, <2>4, <2>5 DEF WebStep
<1>6. CASE Environment
  <2>1. ASSUME NEW s \in Session, Accept(s) PROVE LivesOnce' BY <2>1 DEF Accept
  <2>2. ASSUME NEW s \in Session, PeerHangsUp(s) PROVE LivesOnce' BY <2>2 DEF PeerHangsUp
  <2>3. ASSUME NEW m \in Mac, Lapse(m) PROVE LivesOnce' BY <2>3 DEF Lapse
  <2>4. ASSUME NEW m \in Mac, DeleteRequest(m) PROVE LivesOnce' BY <2>4 DEF DeleteRequest
  <2>5. ASSUME NEW m \in Mac, Provision(m) PROVE LivesOnce' BY <2>5 DEF Provision
  <2>6. ASSUME NEW m \in Mac, PendingAges(m) PROVE LivesOnce' BY <2>6 DEF PendingAges
  <2> QED BY <1>6, <2>1, <2>2, <2>3, <2>4, <2>5, <2>6 DEF Environment
<1>7. CASE Restart BY <1>7 DEF Restart
<1>8. CASE UNCHANGED vars
  BY <1>8 DEF vars
<1> QED BY <1>1, <1>2, <1>3, <1>4, <1>5, <1>6, <1>7, <1>8 DEF Next

(* No connection arms a second offline timer.                                *)
THEOREM ArmsAtMostOnce == Spec => []ArmsOnce
<1>1. Init => LivesOnce
  BY ConstantsAssumption DEF Init, LivesOnce, AboutToArm
<1>2. Spec => [](Inv /\ LivesOnce)
  BY InitInv, StepInv, StepLives, <1>1, PTL DEF Spec
<1>3. LivesOnce => ArmsOnce
  BY DEF LivesOnce, ArmsOnce
<1> QED BY <1>2, <1>3, PTL

-------------------------------------------------------------------------------
(* The only steps that take an entry out of the table are the owner's        *)
(* Finally, the poller's ExpirePop, Register, Disconnect and Restart.        *)
LEMMA StepRelease ==
    Inv /\ TableHoldsLiveHandlers /\ [Next]_vars =>
        [\A m \in Mac : sessions[m] # None /\ sessions'[m] # sessions[m] => ReleasedByOwnPath(m)]_vars
<1> DEFINE Released == \A m \in Mac : sessions[m] # None /\ sessions'[m] # sessions[m] => ReleasedByOwnPath(m)
<1> SUFFICES ASSUME Inv, TableHoldsLiveHandlers, [Next]_vars PROVE Released \/ UNCHANGED vars
  OBVIOUS
<1> USE ConstantsAssumption DEF Inv, TypeOK, LocalsOK, TableHoldsLiveHandlers, ReleasedByOwnPath,
        HandlerPc, TimerState, Conn, PollPc,
        WebPc, slotVars, timerVars, tableVars, connVars, fileVars, pollVars, webVars, boundVars, rest,
        PollUnchanged, WebUnchanged, EnvUnchanged, Receive
<1>1. ASSUME NEW s \in Session, HandlerStep(s) PROVE Released
  <2>1. CASE LookUp(s) BY <2>1 DEF LookUp
  <2>2. CASE RefuseConnect(s) BY <2>2 DEF RefuseConnect
  <2>3. CASE ReadPending(s) BY <2>3 DEF ReadPending
  <2>4. CASE UnlinkPending(s) BY <2>4 DEF UnlinkPending
  <2>5. CASE Enroll(s) BY <2>5 DEF Enroll
  <2>6. CASE Register(s) BY <2>6 DEF Register
  <2>7. CASE ClosePrevious(s) BY <2>7 DEF ClosePrevious
  <2>8. CASE CheckDevice(s) BY <2>8 DEF CheckDevice
  <2>9. CASE WriteOnline(s) BY <2>9 DEF WriteOnline
  <2>10. CASE WriteReport(s) BY <2>10 DEF WriteReport
  <2>11. CASE Finally(s) BY <2>11 DEF Finally
  <2>12. CASE ScheduleOffline(s) BY <2>12 DEF ScheduleOffline
  <2> QED BY <1>1, <2>1, <2>2, <2>3, <2>4, <2>5, <2>6, <2>7, <2>8, <2>9, <2>10, <2>11, <2>12 DEF HandlerStep
<1>2. ASSUME NEW s \in Session, ReadReturns(s) PROVE Released
  <2>1. CASE Subscribe(s) BY <2>1 DEF Subscribe
  <2>2. CASE Ping(s) BY <2>2 DEF Ping
  <2>3. CASE Publish(s) BY <2>3 DEF Publish
  <2>4. CASE OtherPacket(s) BY <2>4 DEF OtherPacket
  <2>5. CASE ReadEnds(s) BY <2>5 DEF ReadEnds
  <2> QED BY <1>2, <2>1, <2>2, <2>3, <2>4, <2>5 DEF ReadReturns
<1>3. ASSUME NEW s \in Session, TimerStep(s) PROVE Released
  <2>1. CASE TimerFires(s) BY <2>1 DEF TimerFires
  <2>2. CASE Mark(s) BY <2>2 DEF Mark
  <2>3. CASE MarkCheck(s) BY <2>3 DEF MarkCheck
  <2>4. CASE MarkWrite(s) BY <2>4 DEF MarkWrite
  <2> QED BY <1>3, <2>1, <2>2, <2>3, <2>4 DEF TimerStep
<1>4. CASE PollStep
  <2>1. CASE Snapshot BY <2>1 DEF Snapshot
  <2>2. ASSUME NEW s \in Session, PollSession(s) PROVE Released BY <2>2 DEF PollSession
  <2>3. CASE ExpirePop BY <2>3 DEF ExpirePop
  <2>4. CASE ExpireCheck BY <2>4 DEF ExpireCheck
  <2>5. CASE ExpireWrite BY <2>5 DEF ExpireWrite
  <2>6. CASE ExpireArm BY <2>6 DEF ExpireArm
  <2>7. CASE ExpireHangup BY <2>7 DEF ExpireHangup
  <2> QED BY <1>4, <2>1, <2>2, <2>3, <2>4, <2>5, <2>6, <2>7 DEF PollStep
<1>5. CASE WebStep
  <2>1. CASE Disconnect BY <2>1 DEF Disconnect
  <2>2. CASE DisconnectHangup BY <2>2 DEF DisconnectHangup
  <2>3. CASE DeleteDevice BY <2>3 DEF DeleteDevice
  <2>4. CASE DeleteState BY <2>4 DEF DeleteState
  <2>5. CASE DeletePending BY <2>5 DEF DeletePending
  <2> QED BY <1>5, <2>1, <2>2, <2>3, <2>4, <2>5 DEF WebStep
<1>6. CASE Environment
  <2>1. ASSUME NEW s \in Session, Accept(s) PROVE Released BY <2>1 DEF Accept
  <2>2. ASSUME NEW s \in Session, PeerHangsUp(s) PROVE Released BY <2>2 DEF PeerHangsUp
  <2>3. ASSUME NEW m \in Mac, Lapse(m) PROVE Released BY <2>3 DEF Lapse
  <2>4. ASSUME NEW m \in Mac, DeleteRequest(m) PROVE Released BY <2>4 DEF DeleteRequest
  <2>5. ASSUME NEW m \in Mac, Provision(m) PROVE Released BY <2>5 DEF Provision
  <2>6. ASSUME NEW m \in Mac, PendingAges(m) PROVE Released BY <2>6 DEF PendingAges
  <2> QED BY <1>6, <2>1, <2>2, <2>3, <2>4, <2>5, <2>6 DEF Environment
<1>7. CASE Restart BY <1>7 DEF Restart
<1> QED BY <1>1, <1>2, <1>3, <1>4, <1>5, <1>6, <1>7 DEF Next

(* A connection is removed by its own paths only.                            *)
THEOREM OwnPathsOnly == Spec => OnlyOwnPathsRelease
<1>1. Init => TableHoldsLiveHandlers
  BY DEF Init, TableHoldsLiveHandlers
<1> QED BY InitInv, StepInv, StepTable, StepRelease, <1>1, PTL DEF Spec, OnlyOwnPathsRelease

-------------------------------------------------------------------------------
(* Refinement: Register claims the slot, the removals release it, a greeting *)
(* that ends early is rejected, a restart is a crash; all else stutters.     *)
LEMMA StepSlot == Inv /\ [Next]_vars => [Slot!SlotNext]_(Slot!slotVars)
<1> SUFFICES ASSUME Inv, [Next]_vars PROVE [Slot!SlotNext]_(Slot!slotVars)
  OBVIOUS
<1> USE ConstantsAssumption DEF Inv, TypeOK, LocalsOK, HandlerPc, TimerState, Conn, PollPc,
        WebPc, slotVars, timerVars, tableVars, connVars, fileVars, pollVars, webVars, boundVars, rest,
        PollUnchanged, WebUnchanged, EnvUnchanged, Receive,
        Slot!slotVars, Slot!SlotNext, Slot!Claim, Slot!Reject, Slot!Release, Slot!Crash
<1>1. ASSUME NEW s \in Session, HandlerStep(s) PROVE [Slot!SlotNext]_(Slot!slotVars)
  <2>1. CASE LookUp(s) BY <2>1 DEF LookUp
  <2>2. CASE RefuseConnect(s) BY <2>2 DEF RefuseConnect
  <2>3. CASE ReadPending(s) BY <2>3 DEF ReadPending
  <2>4. CASE UnlinkPending(s) BY <2>4 DEF UnlinkPending
  <2>5. CASE Enroll(s) BY <2>5 DEF Enroll
  <2>6. CASE Register(s) BY <2>6 DEF Register
  <2>7. CASE ClosePrevious(s) BY <2>7 DEF ClosePrevious
  <2>8. CASE CheckDevice(s) BY <2>8 DEF CheckDevice
  <2>9. CASE WriteOnline(s) BY <2>9 DEF WriteOnline
  <2>10. CASE WriteReport(s) BY <2>10 DEF WriteReport
  <2>11. CASE Finally(s) BY <2>11 DEF Finally
  <2>12. CASE ScheduleOffline(s) BY <2>12 DEF ScheduleOffline
  <2> QED BY <1>1, <2>1, <2>2, <2>3, <2>4, <2>5, <2>6, <2>7, <2>8, <2>9, <2>10, <2>11, <2>12 DEF HandlerStep
<1>2. ASSUME NEW s \in Session, ReadReturns(s) PROVE [Slot!SlotNext]_(Slot!slotVars)
  <2>1. CASE Subscribe(s) BY <2>1 DEF Subscribe
  <2>2. CASE Ping(s) BY <2>2 DEF Ping
  <2>3. CASE Publish(s) BY <2>3 DEF Publish
  <2>4. CASE OtherPacket(s) BY <2>4 DEF OtherPacket
  <2>5. CASE ReadEnds(s) BY <2>5 DEF ReadEnds
  <2> QED BY <1>2, <2>1, <2>2, <2>3, <2>4, <2>5 DEF ReadReturns
<1>3. ASSUME NEW s \in Session, TimerStep(s) PROVE [Slot!SlotNext]_(Slot!slotVars)
  <2>1. CASE TimerFires(s) BY <2>1 DEF TimerFires
  <2>2. CASE Mark(s) BY <2>2 DEF Mark
  <2>3. CASE MarkCheck(s) BY <2>3 DEF MarkCheck
  <2>4. CASE MarkWrite(s) BY <2>4 DEF MarkWrite
  <2> QED BY <1>3, <2>1, <2>2, <2>3, <2>4 DEF TimerStep
<1>4. CASE PollStep
  <2>1. CASE Snapshot BY <2>1 DEF Snapshot
  <2>2. ASSUME NEW s \in Session, PollSession(s) PROVE [Slot!SlotNext]_(Slot!slotVars) BY <2>2 DEF PollSession
  <2>3. CASE ExpirePop BY <2>3 DEF ExpirePop
  <2>4. CASE ExpireCheck BY <2>4 DEF ExpireCheck
  <2>5. CASE ExpireWrite BY <2>5 DEF ExpireWrite
  <2>6. CASE ExpireArm BY <2>6 DEF ExpireArm
  <2>7. CASE ExpireHangup BY <2>7 DEF ExpireHangup
  <2> QED BY <1>4, <2>1, <2>2, <2>3, <2>4, <2>5, <2>6, <2>7 DEF PollStep
<1>5. CASE WebStep
  <2>1. CASE Disconnect
    <3>1. /\ webMac \in Mac /\ sessions' = [sessions EXCEPT ![webMac] = None]
          /\ pc' = pc /\ sessions \in [Mac -> Opt(Session)]
      BY <2>1 DEF Disconnect
    <3>2. CASE sessions[webMac] = None
      <4>1. sessions' = sessions
        BY <3>1, <3>2
      <4> QED BY <3>1, <4>1
    <3>3. CASE sessions[webMac] # None
      <4>1. Slot!Release(webMac)
        BY <3>1, <3>3
      <4> QED BY <3>1, <4>1
    <3> QED BY <3>2, <3>3
  <2>2. CASE DisconnectHangup BY <2>2 DEF DisconnectHangup
  <2>3. CASE DeleteDevice BY <2>3 DEF DeleteDevice
  <2>4. CASE DeleteState BY <2>4 DEF DeleteState
  <2>5. CASE DeletePending BY <2>5 DEF DeletePending
  <2> QED BY <1>5, <2>1, <2>2, <2>3, <2>4, <2>5 DEF WebStep
<1>6. CASE Environment
  <2>1. ASSUME NEW s \in Session, Accept(s) PROVE [Slot!SlotNext]_(Slot!slotVars) BY <2>1 DEF Accept
  <2>2. ASSUME NEW s \in Session, PeerHangsUp(s) PROVE [Slot!SlotNext]_(Slot!slotVars) BY <2>2 DEF PeerHangsUp
  <2>3. ASSUME NEW m \in Mac, Lapse(m) PROVE [Slot!SlotNext]_(Slot!slotVars) BY <2>3 DEF Lapse
  <2>4. ASSUME NEW m \in Mac, DeleteRequest(m) PROVE [Slot!SlotNext]_(Slot!slotVars) BY <2>4 DEF DeleteRequest
  <2>5. ASSUME NEW m \in Mac, Provision(m) PROVE [Slot!SlotNext]_(Slot!slotVars) BY <2>5 DEF Provision
  <2>6. ASSUME NEW m \in Mac, PendingAges(m) PROVE [Slot!SlotNext]_(Slot!slotVars) BY <2>6 DEF PendingAges
  <2> QED BY <1>6, <2>1, <2>2, <2>3, <2>4, <2>5, <2>6 DEF Environment
<1>7. CASE Restart BY <1>7 DEF Restart
<1>8. CASE UNCHANGED vars
  BY <1>8 DEF vars
<1> QED BY <1>1, <1>2, <1>3, <1>4, <1>5, <1>6, <1>7, <1>8 DEF Next

(* The table implements DeviceSlot: one owner per MAC, and no connection     *)
(* owns its slot twice.                                                      *)
THEOREM TableImplementsSlot == Spec => SlotSpec
<1>1. Init => Slot!SlotInit
  BY DEF Init, Slot!SlotInit
<1> QED BY InitInv, StepInv, StepSlot, <1>1, PTL DEF Spec, SlotSpec, Slot!SlotSpec
===============================================================================
