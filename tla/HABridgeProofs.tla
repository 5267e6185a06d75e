--------------------------- MODULE HABridgeProofs ---------------------------
(* What holds of the bridge of HABridge for any number of concurrent saves   *)
(* and any set of configurations.                                            *)
EXTENDS HABridge, TLAPS

(* t is inside _restart_lock.                                                *)
Inside(t) == pc[t] \notin {"idle", "enter", "done", "refused"}

(* t has not created its client, and has not begun to replace the old one.   *)
Early(t) == pc[t] \in {"idle", "enter", "persist", "adopt", "swap"}

Stopping(t) == pc[t] \in {"clear", "disconnect", "stop", "join"}

(* The lifecycle lock admits one thread at a time.                           *)
Mutex == \A t \in Caller : Inside(t) <=> restartLock = t

(* A thread that is about to save has a configuration to save.               *)
Wants == \A t \in Caller : pc[t] \in {"persist", "adopt"} => want[t] # None

(* A client that its thread has yet to create is nobody's.                   *)
Uncreated ==
  \A t \in Caller : Early(t) =>
    /\ net[t] = "off" /\ client # t /\ t \notin cb \cup quit
    /\ \A u \in Caller : old[u] # t /\ target[u] # t

(* What a thread stops, and what it cleans up after a failure.               *)
Targets ==
  \A t \in Caller :
    /\ Stopping(t) => target[t] \in Caller /\ target[t] \in {t, old[t]}
    /\ pc[t] = "fail" => target[t] \in {t, old[t]}
    /\ pc[t] \in {"install", "start", "keep"} => target[t] = t
    /\ pc[t] = "create" => target[t] = old[t]
    /\ pc[t] = "start" => client = t
    /\ old[t] # t
    /\ pc[t] \notin {"return", "done"} => net[t] = "off"

(* Which network thread may exist at each point of a restart.                *)
Loops ==
  /\ restartLock = None => \A c \in Caller : Running(c) => c = client
  /\ \A t, c \in Caller : Running(c) =>
       /\ pc[t] \in {"persist", "adopt", "swap", "return"} => c = client
       /\ Stopping(t) \/ pc[t] = "fail" => c = target[t]
       /\ pc[t] \notin {"create", "install", "start", "keep"}

LoopInv == TypeOK /\ Wants /\ Mutex /\ Uncreated /\ Targets /\ Loops

USE DEF At, Goto, Move, Set, MayLock, Called, Running, Event, Current, LifecycleFree, FirstStep,
        AfterSave, AfterOld, LeaveLock, ThreadEnded, ShowError, NotConnected

LEMMA InitLoop == Init => LoopInv
<1> SUFFICES ASSUME Init PROVE LoopInv
  OBVIOUS
<1> USE ConstantsAssumption DEF Init
<1>1. TypeOK
  BY DEF TypeOK, Step, Phase
<1>2. Wants /\ Mutex
  BY DEF Wants, Mutex, Inside
<1>3. Uncreated
  BY DEF Uncreated, Early
<1>4. Targets
  BY DEF Targets, Stopping
<1>5. Loops
  BY DEF Loops, Stopping
<1> QED BY <1>1, <1>2, <1>3, <1>4, <1>5 DEF LoopInv

(* Type correctness is kept by every step.                                   *)
LEMMA StepType == LoopInv /\ [Next]_vars => TypeOK'
<1> SUFFICES ASSUME LoopInv, [Next]_vars PROVE TypeOK'
  OBVIOUS
<1> USE ConstantsAssumption DEF LoopInv, Wants, Targets, Stopping, TypeOK, Step, Phase, bridgeVars, lockVars, confVars, locals,
        netFlags, AfterStop
<1>1. ASSUME NEW t \in Caller, NEW v \in Value, Save(t, v) PROVE TypeOK'
  BY <1>1 DEF Save
<1>2. ASSUME NEW t \in Caller, CallerStep(t) PROVE TypeOK'
  <2>1. CASE Enter(t) BY <2>1 DEF Enter
  <2>2. CASE Persist(t) BY <2>2 DEF Persist
  <2>3. CASE Adopt(t) BY <2>3 DEF Adopt
  <2>4. CASE Swap(t) BY <2>4 DEF Swap
  <2>5. CASE ClearCallbacks(t) BY <2>5 DEF ClearCallbacks
  <2>6. CASE Disconnect(t)
    <3>1. raised' \in [Caller -> BOOLEAN]
      <4>1. CASE raised' = raised
        BY <4>1
      <4>2. CASE raised' = [raised EXCEPT ![t] = TRUE]
        BY <4>2
      <4> QED BY <2>6, <4>1, <4>2 DEF Disconnect
    <3>2. quit' \in SUBSET Caller
      BY <2>6 DEF Disconnect
    <3>3. pc' \in [Caller -> Step]
      BY <2>6 DEF Disconnect
    <3>4. UNCHANGED <<bridgeVars, lockVars, confVars, want, copied, old, target, net, cb, subscribed>>
      BY <2>6 DEF Disconnect
    <3> QED BY <3>1, <3>2, <3>3, <3>4
  <2>7. CASE LoopStop(t) BY <2>7 DEF LoopStop
  <2>8. CASE Join(t) BY <2>8 DEF Join
  <2>9. CASE Create(t) BY <2>9 DEF Create
  <2>10. CASE Install(t) BY <2>10 DEF Install
  <2>11. CASE StartLoop(t) BY <2>11 DEF StartLoop
  <2>12. CASE Fail(t) BY <2>12 DEF Fail
  <2>13. CASE Keep(t) BY <2>13 DEF Keep
  <2>14. CASE Return(t) BY <2>14 DEF Return
  <2> QED
    BY <1>2, <2>1, <2>2, <2>3, <2>4, <2>5, <2>6, <2>7, <2>8, <2>9, <2>10, <2>11, <2>12, <2>13, <2>14
    DEF CallerStep
<1>3. ASSUME NEW c \in Caller, CallbackStep(c) PROVE TypeOK'
  <2>1. CASE OnConnect(c)
    <3>1. connected' \in BOOLEAN /\ error' \in BOOLEAN
      <4>1. CASE c = client
        BY <2>1, <4>1 DEF OnConnect
      <4>2. CASE c # client
        BY <2>1, <4>2 DEF OnConnect
      <4> QED BY <4>1, <4>2
    <3>2. client' = client /\ net' \in [Caller -> Phase]
      BY <2>1 DEF OnConnect
    <3>3. lock' \in Caller \cup {None} /\ restartLock' = restartLock
      BY <2>1 DEF OnConnect
    <3>4. UNCHANGED <<confVars, pc, locals, netFlags>>
      BY <2>1 DEF OnConnect
    <3> QED BY <3>1, <3>2, <3>3, <3>4
  <2>2. CASE Announce(c) BY <2>2 DEF Announce
  <2>3. CASE OnRefused(c)
    <3>1. connected' \in BOOLEAN /\ error' \in BOOLEAN
      <4>1. CASE c = client
        BY <2>3, <4>1 DEF OnRefused
      <4>2. CASE c # client
        BY <2>3, <4>2 DEF OnRefused
      <4> QED BY <4>1, <4>2
    <3>2. client' = client /\ net' \in [Caller -> Phase]
      BY <2>3 DEF OnRefused
    <3>3. lock' \in Caller \cup {None} /\ restartLock' = restartLock
      BY <2>3 DEF OnRefused
    <3>4. UNCHANGED <<confVars, pc, locals, netFlags>>
      BY <2>3 DEF OnRefused
    <3> QED BY <3>1, <3>2, <3>3, <3>4
  <2>4. CASE OnDisconnect(c)
    <3>1. connected' \in BOOLEAN /\ error' \in BOOLEAN
      <4>1. CASE c = client
        BY <2>4, <4>1 DEF OnDisconnect
      <4>2. CASE c # client
        BY <2>4, <4>2 DEF OnDisconnect
      <4> QED BY <4>1, <4>2
    <3>2. client' = client /\ net' \in [Caller -> Phase]
      BY <2>4 DEF OnDisconnect
    <3>3. lock' \in Caller \cup {None} /\ restartLock' = restartLock
      BY <2>4 DEF OnDisconnect
    <3>4. UNCHANGED <<confVars, pc, locals, netFlags>>
      BY <2>4 DEF OnDisconnect
    <3> QED BY <3>1, <3>2, <3>3, <3>4
  <2>5. CASE OnMessage(c) BY <2>5 DEF OnMessage
  <2>6. CASE Command(c) BY <2>6 DEF Command
  <2>7. CASE End(c) BY <2>7 DEF End
  <2> QED BY <1>3, <2>1, <2>2, <2>3, <2>4, <2>5, <2>6, <2>7 DEF CallbackStep
<1>4. ASSUME NEW c \in Caller, Network(c) PROVE TypeOK'
  <2>1. CASE Link(c) BY <2>1 DEF Link
  <2>2. CASE Drop(c) BY <2>2 DEF Drop
  <2>3. CASE Message(c) BY <2>3 DEF Message
  <2> QED BY <1>4, <2>1, <2>2, <2>3 DEF Network
<1>5. CASE UNCHANGED vars
  BY <1>5 DEF vars
<1> QED BY <1>1, <1>2, <1>3, <1>4, <1>5 DEF Next


LEMMA StepWants == LoopInv /\ [Next]_vars => Wants'
<1> SUFFICES ASSUME LoopInv, [Next]_vars PROVE Wants'
  OBVIOUS
<1> USE ConstantsAssumption DEF LoopInv, TypeOK, Step, Phase, bridgeVars, lockVars, confVars, locals,
        netFlags, AfterStop, Wants
<1>1. ASSUME NEW t \in Caller, NEW v \in Value, Save(t, v) PROVE Wants'
  BY <1>1 DEF Save
<1>2. ASSUME NEW t \in Caller, CallerStep(t) PROVE Wants'
  <2>1. CASE Enter(t) BY <2>1 DEF Enter
  <2>2. CASE Persist(t) BY <2>2 DEF Persist
  <2>3. CASE Adopt(t) BY <2>3 DEF Adopt
  <2>4. CASE Swap(t) BY <2>4 DEF Swap
  <2>5. CASE ClearCallbacks(t) BY <2>5 DEF ClearCallbacks
  <2>6. CASE Disconnect(t) BY <2>6 DEF Disconnect
  <2>7. CASE LoopStop(t) BY <2>7 DEF LoopStop
  <2>8. CASE Join(t) BY <2>8 DEF Join
  <2>9. CASE Create(t) BY <2>9 DEF Create
  <2>10. CASE Install(t) BY <2>10 DEF Install
  <2>11. CASE StartLoop(t) BY <2>11 DEF StartLoop
  <2>12. CASE Fail(t) BY <2>12 DEF Fail
  <2>13. CASE Keep(t) BY <2>13 DEF Keep
  <2>14. CASE Return(t) BY <2>14 DEF Return
  <2> QED
    BY <1>2, <2>1, <2>2, <2>3, <2>4, <2>5, <2>6, <2>7, <2>8, <2>9, <2>10, <2>11, <2>12, <2>13, <2>14
    DEF CallerStep
<1>3. ASSUME NEW c \in Caller, CallbackStep(c) PROVE Wants'
  <2>1. CASE OnConnect(c) BY <2>1 DEF OnConnect
  <2>2. CASE Announce(c) BY <2>2 DEF Announce
  <2>3. CASE OnRefused(c) BY <2>3 DEF OnRefused
  <2>4. CASE OnDisconnect(c) BY <2>4 DEF OnDisconnect
  <2>5. CASE OnMessage(c) BY <2>5 DEF OnMessage
  <2>6. CASE Command(c) BY <2>6 DEF Command
  <2>7. CASE End(c) BY <2>7 DEF End
  <2> QED BY <1>3, <2>1, <2>2, <2>3, <2>4, <2>5, <2>6, <2>7 DEF CallbackStep
<1>4. ASSUME NEW c \in Caller, Network(c) PROVE Wants'
  <2>1. CASE Link(c) BY <2>1 DEF Link
  <2>2. CASE Drop(c) BY <2>2 DEF Drop
  <2>3. CASE Message(c) BY <2>3 DEF Message
  <2> QED BY <1>4, <2>1, <2>2, <2>3 DEF Network
<1>5. CASE UNCHANGED vars
  BY <1>5 DEF vars
<1> QED BY <1>1, <1>2, <1>3, <1>4, <1>5 DEF Next

LEMMA StepMutex == LoopInv /\ [Next]_vars => Mutex'
<1> SUFFICES ASSUME LoopInv, [Next]_vars PROVE Mutex'
  OBVIOUS
<1> USE ConstantsAssumption DEF LoopInv, TypeOK, Step, Phase, bridgeVars, lockVars, confVars, locals,
        netFlags, AfterStop, Mutex, Inside
<1>1. ASSUME NEW t \in Caller, NEW v \in Value, Save(t, v) PROVE Mutex'
  BY <1>1 DEF Save
<1>2. ASSUME NEW t \in Caller, CallerStep(t) PROVE Mutex'
  <2>1. CASE Enter(t) BY <2>1 DEF Enter
  <2>2. CASE Persist(t) BY <2>2 DEF Persist
  <2>3. CASE Adopt(t) BY <2>3 DEF Adopt
  <2>4. CASE Swap(t) BY <2>4 DEF Swap
  <2>5. CASE ClearCallbacks(t) BY <2>5 DEF ClearCallbacks
  <2>6. CASE Disconnect(t) BY <2>6 DEF Disconnect
  <2>7. CASE LoopStop(t) BY <2>7 DEF LoopStop
  <2>8. CASE Join(t) BY <2>8 DEF Join
  <2>9. CASE Create(t) BY <2>9 DEF Create
  <2>10. CASE Install(t) BY <2>10 DEF Install
  <2>11. CASE StartLoop(t) BY <2>11 DEF StartLoop
  <2>12. CASE Fail(t) BY <2>12 DEF Fail
  <2>13. CASE Keep(t) BY <2>13 DEF Keep
  <2>14. CASE Return(t) BY <2>14 DEF Return
  <2> QED
    BY <1>2, <2>1, <2>2, <2>3, <2>4, <2>5, <2>6, <2>7, <2>8, <2>9, <2>10, <2>11, <2>12, <2>13, <2>14
    DEF CallerStep
<1>3. ASSUME NEW c \in Caller, CallbackStep(c) PROVE Mutex'
  <2>1. CASE OnConnect(c) BY <2>1 DEF OnConnect
  <2>2. CASE Announce(c) BY <2>2 DEF Announce
  <2>3. CASE OnRefused(c) BY <2>3 DEF OnRefused
  <2>4. CASE OnDisconnect(c) BY <2>4 DEF OnDisconnect
  <2>5. CASE OnMessage(c) BY <2>5 DEF OnMessage
  <2>6. CASE Command(c) BY <2>6 DEF Command
  <2>7. CASE End(c) BY <2>7 DEF End
  <2> QED BY <1>3, <2>1, <2>2, <2>3, <2>4, <2>5, <2>6, <2>7 DEF CallbackStep
<1>4. ASSUME NEW c \in Caller, Network(c) PROVE Mutex'
  <2>1. CASE Link(c) BY <2>1 DEF Link
  <2>2. CASE Drop(c) BY <2>2 DEF Drop
  <2>3. CASE Message(c) BY <2>3 DEF Message
  <2> QED BY <1>4, <2>1, <2>2, <2>3 DEF Network
<1>5. CASE UNCHANGED vars
  BY <1>5 DEF vars
<1> QED BY <1>1, <1>2, <1>3, <1>4, <1>5 DEF Next

LEMMA StepUncreated == LoopInv /\ [Next]_vars => Uncreated'
<1> SUFFICES ASSUME LoopInv, [Next]_vars PROVE Uncreated'
  OBVIOUS
<1> USE ConstantsAssumption DEF LoopInv, TypeOK, Step, Phase, bridgeVars, lockVars, confVars, locals,
        netFlags, AfterStop, Mutex, Uncreated, Targets, Inside, Early, Stopping
<1>1. ASSUME NEW t \in Caller, NEW v \in Value, Save(t, v) PROVE Uncreated'
  BY <1>1 DEF Save
<1>2. ASSUME NEW t \in Caller, CallerStep(t) PROVE Uncreated'
  <2>1. CASE Enter(t) BY <2>1 DEF Enter
  <2>2. CASE Persist(t) BY <2>2 DEF Persist
  <2>3. CASE Adopt(t) BY <2>3 DEF Adopt
  <2>4. CASE Swap(t) BY <2>4 DEF Swap
  <2>5. CASE ClearCallbacks(t) BY <2>5 DEF ClearCallbacks
  <2>6. CASE Disconnect(t) BY <2>6 DEF Disconnect
  <2>7. CASE LoopStop(t) BY <2>7 DEF LoopStop
  <2>8. CASE Join(t) BY <2>8 DEF Join
  <2>9. CASE Create(t) BY <2>9 DEF Create
  <2>10. CASE Install(t) BY <2>10 DEF Install
  <2>11. CASE StartLoop(t) BY <2>11 DEF StartLoop
  <2>12. CASE Fail(t) BY <2>12 DEF Fail
  <2>13. CASE Keep(t) BY <2>13 DEF Keep
  <2>14. CASE Return(t) BY <2>14 DEF Return
  <2> QED
    BY <1>2, <2>1, <2>2, <2>3, <2>4, <2>5, <2>6, <2>7, <2>8, <2>9, <2>10, <2>11, <2>12, <2>13, <2>14
    DEF CallerStep
<1>3. ASSUME NEW c \in Caller, CallbackStep(c) PROVE Uncreated'
  <2>1. CASE OnConnect(c) BY <2>1 DEF OnConnect
  <2>2. CASE Announce(c) BY <2>2 DEF Announce
  <2>3. CASE OnRefused(c) BY <2>3 DEF OnRefused
  <2>4. CASE OnDisconnect(c) BY <2>4 DEF OnDisconnect
  <2>5. CASE OnMessage(c) BY <2>5 DEF OnMessage
  <2>6. CASE Command(c) BY <2>6 DEF Command
  <2>7. CASE End(c) BY <2>7 DEF End
  <2> QED BY <1>3, <2>1, <2>2, <2>3, <2>4, <2>5, <2>6, <2>7 DEF CallbackStep
<1>4. ASSUME NEW c \in Caller, Network(c) PROVE Uncreated'
  <2>1. CASE Link(c) BY <2>1 DEF Link
  <2>2. CASE Drop(c) BY <2>2 DEF Drop
  <2>3. CASE Message(c) BY <2>3 DEF Message
  <2> QED BY <1>4, <2>1, <2>2, <2>3 DEF Network
<1>5. CASE UNCHANGED vars
  BY <1>5 DEF vars
<1> QED BY <1>1, <1>2, <1>3, <1>4, <1>5 DEF Next

LEMMA StepTargets == LoopInv /\ [Next]_vars => Targets'
<1> SUFFICES ASSUME LoopInv, [Next]_vars PROVE Targets'
  OBVIOUS
<1> USE ConstantsAssumption DEF LoopInv, TypeOK, Step, Phase, bridgeVars, lockVars, confVars, locals,
        netFlags, AfterStop, Mutex, Uncreated, Targets, Inside, Early, Stopping
<1>1. ASSUME NEW t \in Caller, NEW v \in Value, Save(t, v) PROVE Targets'
  BY <1>1 DEF Save
<1>2. ASSUME NEW t \in Caller, CallerStep(t) PROVE Targets'
  <2>1. CASE Enter(t) BY <2>1 DEF Enter
  <2>2. CASE Persist(t) BY <2>2 DEF Persist
  <2>3. CASE Adopt(t) BY <2>3 DEF Adopt
  <2>4. CASE Swap(t) BY <2>4 DEF Swap
  <2>5. CASE ClearCallbacks(t) BY <2>5 DEF ClearCallbacks
  <2>6. CASE Disconnect(t) BY <2>6 DEF Disconnect
  <2>7. CASE LoopStop(t) BY <2>7 DEF LoopStop
  <2>8. CASE Join(t) BY <2>8 DEF Join
  <2>9. CASE Create(t) BY <2>9 DEF Create
  <2>10. CASE Install(t) BY <2>10 DEF Install
  <2>11. CASE StartLoop(t) BY <2>11 DEF StartLoop
  <2>12. CASE Fail(t) BY <2>12 DEF Fail
  <2>13. CASE Keep(t) BY <2>13 DEF Keep
  <2>14. CASE Return(t) BY <2>14 DEF Return
  <2> QED
    BY <1>2, <2>1, <2>2, <2>3, <2>4, <2>5, <2>6, <2>7, <2>8, <2>9, <2>10, <2>11, <2>12, <2>13, <2>14
    DEF CallerStep
<1>3. ASSUME NEW c \in Caller, CallbackStep(c) PROVE Targets'
  <2>1. CASE OnConnect(c) BY <2>1 DEF OnConnect
  <2>2. CASE Announce(c) BY <2>2 DEF Announce
  <2>3. CASE OnRefused(c) BY <2>3 DEF OnRefused
  <2>4. CASE OnDisconnect(c) BY <2>4 DEF OnDisconnect
  <2>5. CASE OnMessage(c) BY <2>5 DEF OnMessage
  <2>6. CASE Command(c) BY <2>6 DEF Command
  <2>7. CASE End(c) BY <2>7 DEF End
  <2> QED BY <1>3, <2>1, <2>2, <2>3, <2>4, <2>5, <2>6, <2>7 DEF CallbackStep
<1>4. ASSUME NEW c \in Caller, Network(c) PROVE Targets'
  <2>1. CASE Link(c) BY <2>1 DEF Link
  <2>2. CASE Drop(c) BY <2>2 DEF Drop
  <2>3. CASE Message(c) BY <2>3 DEF Message
  <2> QED BY <1>4, <2>1, <2>2, <2>3 DEF Network
<1>5. CASE UNCHANGED vars
  BY <1>5 DEF vars
<1> QED BY <1>1, <1>2, <1>3, <1>4, <1>5 DEF Next

LEMMA StepLoops == LoopInv /\ [Next]_vars => Loops'
<1> SUFFICES ASSUME LoopInv, [Next]_vars PROVE Loops'
  OBVIOUS
<1> USE ConstantsAssumption DEF LoopInv, TypeOK, Step, Phase, bridgeVars, lockVars, confVars, locals,
        netFlags, AfterStop, Mutex, Uncreated, Targets, Loops, Inside, Early, Stopping
<1>1. ASSUME NEW t \in Caller, NEW v \in Value, Save(t, v) PROVE Loops'
  BY <1>1 DEF Save
<1>2. ASSUME NEW t \in Caller, CallerStep(t) PROVE Loops'
  <2>1. CASE Enter(t) BY <2>1 DEF Enter
  <2>2. CASE Persist(t) BY <2>2 DEF Persist
  <2>3. CASE Adopt(t) BY <2>3 DEF Adopt
  <2>4. CASE Swap(t) BY <2>4 DEF Swap
  <2>5. CASE ClearCallbacks(t) BY <2>5 DEF ClearCallbacks
  <2>6. CASE Disconnect(t) BY <2>6 DEF Disconnect
  <2>7. CASE LoopStop(t) BY <2>7 DEF LoopStop
  <2>8. CASE Join(t) BY <2>8 DEF Join
  <2>9. CASE Create(t) BY <2>9 DEF Create
  <2>10. CASE Install(t) BY <2>10 DEF Install
  <2>11. CASE StartLoop(t) BY <2>11 DEF StartLoop
  <2>12. CASE Fail(t) BY <2>12 DEF Fail
  <2>13. CASE Keep(t) BY <2>13 DEF Keep
  <2>14. CASE Return(t) BY <2>14 DEF Return
  <2> QED
    BY <1>2, <2>1, <2>2, <2>3, <2>4, <2>5, <2>6, <2>7, <2>8, <2>9, <2>10, <2>11, <2>12, <2>13, <2>14
    DEF CallerStep
<1>3. ASSUME NEW c \in Caller, CallbackStep(c) PROVE Loops'
  <2>1. CASE OnConnect(c) BY <2>1 DEF OnConnect
  <2>2. CASE Announce(c) BY <2>2 DEF Announce
  <2>3. CASE OnRefused(c) BY <2>3 DEF OnRefused
  <2>4. CASE OnDisconnect(c) BY <2>4 DEF OnDisconnect
  <2>5. CASE OnMessage(c) BY <2>5 DEF OnMessage
  <2>6. CASE Command(c) BY <2>6 DEF Command
  <2>7. CASE End(c) BY <2>7 DEF End
  <2> QED BY <1>3, <2>1, <2>2, <2>3, <2>4, <2>5, <2>6, <2>7 DEF CallbackStep
<1>4. ASSUME NEW c \in Caller, Network(c) PROVE Loops'
  <2>1. CASE Link(c) BY <2>1 DEF Link
  <2>2. CASE Drop(c) BY <2>2 DEF Drop
  <2>3. CASE Message(c) BY <2>3 DEF Message
  <2> QED BY <1>4, <2>1, <2>2, <2>3 DEF Network
<1>5. CASE UNCHANGED vars
  BY <1>5 DEF vars
<1> QED BY <1>1, <1>2, <1>3, <1>4, <1>5 DEF Next

LEMMA StepLoop == LoopInv /\ [Next]_vars => LoopInv'
  BY StepType, StepWants, StepMutex, StepUncreated, StepTargets, StepLoops DEF LoopInv

LEMMA AlwaysLoop == Spec => []LoopInv
  BY InitLoop, StepLoop, PTL DEF Spec

(* Type correctness: every variable keeps its type.                          *)
THEOREM TypeCorrect == Spec => []TypeOK
<1>1. LoopInv => TypeOK
  BY DEF LoopInv
<1> QED BY <1>1, AlwaysLoop, PTL

(* No interleaving of concurrent restarts, with whatever failures, ever has  *)
(* two network threads.                                                      *)
THEOREM AtMostOneLoop == Spec => []OneLoop
<1>1. LoopInv => OneLoop
  <2> SUFFICES ASSUME LoopInv, NEW c \in Caller, NEW d \in Caller, Running(c), Running(d)
               PROVE c = d
    BY DEF OneLoop
  <2>1. CASE restartLock = None
    BY <2>1 DEF LoopInv, Loops
  <2>2. CASE restartLock # None
    <3>1. restartLock \in Caller /\ Inside(restartLock)
      BY <2>2 DEF LoopInv, TypeOK, Mutex
    <3> QED BY <3>1 DEF LoopInv, TypeOK, Step, Loops, Inside, Stopping
  <2> QED BY <2>1, <2>2
<1> QED BY <1>1, AlwaysLoop, PTL

(* What the bridge shows is changed by a restart or by the current client:   *)
(* every other callback leaves it alone.                                     *)
LEMMA StepReports ==
  LoopInv /\ [Next]_vars =>
    (<<connected, error>>' # <<connected, error>> =>
       \/ \E t \in Caller : restartLock = t /\ pc'[t] # pc[t]
       \/ client # None /\ net'[client] # net[client])
<1> DEFINE Reports ==
      <<connected, error>>' # <<connected, error>> =>
       \/ \E t \in Caller : restartLock = t /\ pc'[t] # pc[t]
       \/ client # None /\ net'[client] # net[client]
<1> SUFFICES ASSUME LoopInv, [Next]_vars PROVE Reports
  OBVIOUS
<1> USE ConstantsAssumption DEF LoopInv, TypeOK, Step, Phase, Mutex, Inside, bridgeVars, AfterStop
<1>1. ASSUME NEW t \in Caller, NEW v \in Value, Save(t, v) PROVE Reports
  BY <1>1 DEF Save
<1>2. ASSUME NEW t \in Caller, CallerStep(t) PROVE Reports
  <2>1. CASE Enter(t) BY <2>1 DEF Enter
  <2>2. CASE Persist(t) BY <2>2 DEF Persist
  <2>3. CASE Adopt(t) BY <2>3 DEF Adopt
  <2>4. CASE Swap(t) BY <2>4 DEF Swap
  <2>5. CASE ClearCallbacks(t) BY <2>5 DEF ClearCallbacks
  <2>6. CASE Disconnect(t) BY <2>6 DEF Disconnect
  <2>7. CASE LoopStop(t) BY <2>7 DEF LoopStop
  <2>8. CASE Join(t) BY <2>8 DEF Join
  <2>9. CASE Create(t) BY <2>9 DEF Create
  <2>10. CASE Install(t) BY <2>10 DEF Install
  <2>11. CASE StartLoop(t) BY <2>11 DEF StartLoop
  <2>12. CASE Fail(t) BY <2>12 DEF Fail
  <2>13. CASE Keep(t) BY <2>13 DEF Keep
  <2>14. CASE Return(t) BY <2>14 DEF Return
  <2> QED
    BY <1>2, <2>1, <2>2, <2>3, <2>4, <2>5, <2>6, <2>7, <2>8, <2>9, <2>10, <2>11, <2>12, <2>13, <2>14
    DEF CallerStep
<1>3. ASSUME NEW c \in Caller, CallbackStep(c) PROVE Reports
  <2>1. CASE OnConnect(c) BY <2>1 DEF OnConnect
  <2>2. CASE Announce(c) BY <2>2 DEF Announce
  <2>3. CASE OnRefused(c) BY <2>3 DEF OnRefused
  <2>4. CASE OnDisconnect(c) BY <2>4 DEF OnDisconnect
  <2>5. CASE OnMessage(c) BY <2>5 DEF OnMessage
  <2>6. CASE Command(c) BY <2>6 DEF Command
  <2>7. CASE End(c) BY <2>7 DEF End
  <2> QED BY <1>3, <2>1, <2>2, <2>3, <2>4, <2>5, <2>6, <2>7 DEF CallbackStep
<1>4. ASSUME NEW c \in Caller, Network(c) PROVE Reports
  <2>1. CASE Link(c) BY <2>1 DEF Link
  <2>2. CASE Drop(c) BY <2>2 DEF Drop
  <2>3. CASE Message(c) BY <2>3 DEF Message
  <2> QED BY <1>4, <2>1, <2>2, <2>3 DEF Network
<1>5. CASE UNCHANGED vars
  BY <1>5 DEF vars
<1> QED BY <1>1, <1>2, <1>3, <1>4, <1>5 DEF Next

(* As a property of every behaviour: late callbacks change nothing.           *)
THEOREM ReportsOfCurrent == Spec => OnlyCurrentReports
  BY AlwaysLoop, StepReports, PTL DEF Spec, OnlyCurrentReports

-----------------------------------------------------------------------------
(* The rest holds when loop_stop() returns only after the thread has ended.  *)

(* From the swap to the installation of the new client no client is current. *)
NoneCurrent ==
  \A t \in Caller :
    \/ Stopping(t)
    \/ pc[t] \in {"create", "install", "keep"}
    \/ pc[t] = "fail" /\ target[t] # t
    => client = None

(* A client to be started has its callbacks and has not been told to stop.   *)
ReadyToStart ==
  \A t \in Caller :
    /\ Inside(t) /\ target[t] # t => t \notin quit
    /\ pc[t] \in {"install", "start"} => t \in cb /\ t \notin quit

(* A failed stop leaves no thread behind.                                    *)
FailedHasEnded == \A t, c \in Caller : pc[t] = "fail" => ~Running(c)

(* The current client, while its thread runs, is whole.                      *)
CurrentIsWhole == client # None /\ Running(client) => client \in cb /\ client \notin quit

ServeInv == LoopInv /\ NoneCurrent /\ ReadyToStart /\ FailedHasEnded /\ CurrentIsWhole
                    /\ ConnectedIsServed

LEMMA InitServe == Init => ServeInv
<1> SUFFICES ASSUME Init PROVE ServeInv
  OBVIOUS
<1>1. NoneCurrent /\ ReadyToStart /\ FailedHasEnded
  BY ConstantsAssumption DEF Init, NoneCurrent, ReadyToStart, FailedHasEnded, Stopping, Inside
<1>2. CurrentIsWhole /\ ConnectedIsServed
  BY ConstantsAssumption DEF Init, CurrentIsWhole, ConnectedIsServed
<1> QED BY <1>1, <1>2, InitLoop DEF ServeInv

(* A client about to be installed, or kept after a failure, is not connected. *)
LEMMA NotYetConnected ==
  ASSUME ServeInv, NEW t \in Caller, pc[t] \in {"install", "keep"} PROVE ~connected
<1>1. client = None
  BY DEF ServeInv, NoneCurrent, Stopping
<1> QED BY <1>1 DEF ServeInv, ConnectedIsServed

LEMMA StepNoneCurrent ==
  ASSUME LoopStopRaises = FALSE PROVE ServeInv /\ [Next]_vars => NoneCurrent'
<1> SUFFICES ASSUME ServeInv, [Next]_vars PROVE NoneCurrent'
  OBVIOUS
<1> USE ConstantsAssumption DEF ServeInv, LoopInv, TypeOK, Step, Phase, bridgeVars, lockVars,
        confVars, locals, netFlags, AfterStop, Mutex, Uncreated, Targets, Loops, Inside, Early,
        Stopping, NoneCurrent, ReadyToStart, FailedHasEnded, CurrentIsWhole
<1>1. ASSUME NEW t \in Caller, NEW v \in Value, Save(t, v) PROVE NoneCurrent'
  BY <1>1 DEF Save
<1>2. ASSUME NEW t \in Caller, CallerStep(t) PROVE NoneCurrent'
  <2>1. CASE Enter(t) BY <2>1 DEF Enter
  <2>2. CASE Persist(t) BY <2>2 DEF Persist
  <2>3. CASE Adopt(t) BY <2>3 DEF Adopt
  <2>4. CASE Swap(t) BY <2>4 DEF Swap
  <2>5. CASE ClearCallbacks(t) BY <2>5 DEF ClearCallbacks
  <2>6. CASE Disconnect(t) BY <2>6 DEF Disconnect
  <2>7. CASE LoopStop(t) BY <2>7 DEF LoopStop
  <2>8. CASE Join(t) BY <2>8 DEF Join
  <2>9. CASE Create(t) BY <2>9 DEF Create
  <2>10. CASE Install(t) BY <2>10 DEF Install
  <2>11. CASE StartLoop(t) BY <2>11 DEF StartLoop
  <2>12. CASE Fail(t) BY <2>12 DEF Fail
  <2>13. CASE Keep(t) BY <2>13 DEF Keep
  <2>14. CASE Return(t) BY <2>14 DEF Return
  <2> QED
    BY <1>2, <2>1, <2>2, <2>3, <2>4, <2>5, <2>6, <2>7, <2>8, <2>9, <2>10, <2>11, <2>12, <2>13, <2>14
    DEF CallerStep
<1>3. ASSUME NEW c \in Caller, CallbackStep(c) PROVE NoneCurrent'
  <2>1. CASE OnConnect(c) BY <2>1 DEF OnConnect
  <2>2. CASE Announce(c) BY <2>2 DEF Announce
  <2>3. CASE OnRefused(c) BY <2>3 DEF OnRefused
  <2>4. CASE OnDisconnect(c) BY <2>4 DEF OnDisconnect
  <2>5. CASE OnMessage(c) BY <2>5 DEF OnMessage
  <2>6. CASE Command(c) BY <2>6 DEF Command
  <2>7. CASE End(c) BY <2>7 DEF End
  <2> QED BY <1>3, <2>1, <2>2, <2>3, <2>4, <2>5, <2>6, <2>7 DEF CallbackStep
<1>4. ASSUME NEW c \in Caller, Network(c) PROVE NoneCurrent'
  <2>1. CASE Link(c) BY <2>1 DEF Link
  <2>2. CASE Drop(c) BY <2>2 DEF Drop
  <2>3. CASE Message(c) BY <2>3 DEF Message
  <2> QED BY <1>4, <2>1, <2>2, <2>3 DEF Network
<1>5. CASE UNCHANGED vars
  BY <1>5 DEF vars
<1> QED BY <1>1, <1>2, <1>3, <1>4, <1>5 DEF Next

LEMMA StepReadyToStart ==
  ASSUME LoopStopRaises = FALSE PROVE ServeInv /\ [Next]_vars => ReadyToStart'
<1> SUFFICES ASSUME ServeInv, [Next]_vars PROVE ReadyToStart'
  OBVIOUS
<1> USE ConstantsAssumption DEF ServeInv, LoopInv, TypeOK, Step, Phase, bridgeVars, lockVars,
        confVars, locals, netFlags, AfterStop, Mutex, Uncreated, Targets, Loops, Inside, Early,
        Stopping, NoneCurrent, ReadyToStart, FailedHasEnded, CurrentIsWhole
<1>1. ASSUME NEW t \in Caller, NEW v \in Value, Save(t, v) PROVE ReadyToStart'
  BY <1>1 DEF Save
<1>2. ASSUME NEW t \in Caller, CallerStep(t) PROVE ReadyToStart'
  <2>1. CASE Enter(t) BY <2>1 DEF Enter
  <2>2. CASE Persist(t) BY <2>2 DEF Persist
  <2>3. CASE Adopt(t) BY <2>3 DEF Adopt
  <2>4. CASE Swap(t) BY <2>4 DEF Swap
  <2>5. CASE ClearCallbacks(t) BY <2>5 DEF ClearCallbacks
  <2>6. CASE Disconnect(t) BY <2>6 DEF Disconnect
  <2>7. CASE LoopStop(t) BY <2>7 DEF LoopStop
  <2>8. CASE Join(t) BY <2>8 DEF Join
  <2>9. CASE Create(t) BY <2>9 DEF Create
  <2>10. CASE Install(t) BY <2>10 DEF Install
  <2>11. CASE StartLoop(t) BY <2>11 DEF StartLoop
  <2>12. CASE Fail(t) BY <2>12 DEF Fail
  <2>13. CASE Keep(t) BY <2>13 DEF Keep
  <2>14. CASE Return(t) BY <2>14 DEF Return
  <2> QED
    BY <1>2, <2>1, <2>2, <2>3, <2>4, <2>5, <2>6, <2>7, <2>8, <2>9, <2>10, <2>11, <2>12, <2>13, <2>14
    DEF CallerStep
<1>3. ASSUME NEW c \in Caller, CallbackStep(c) PROVE ReadyToStart'
  <2>1. CASE OnConnect(c) BY <2>1 DEF OnConnect
  <2>2. CASE Announce(c) BY <2>2 DEF Announce
  <2>3. CASE OnRefused(c) BY <2>3 DEF OnRefused
  <2>4. CASE OnDisconnect(c) BY <2>4 DEF OnDisconnect
  <2>5. CASE OnMessage(c) BY <2>5 DEF OnMessage
  <2>6. CASE Command(c) BY <2>6 DEF Command
  <2>7. CASE End(c) BY <2>7 DEF End
  <2> QED BY <1>3, <2>1, <2>2, <2>3, <2>4, <2>5, <2>6, <2>7 DEF CallbackStep
<1>4. ASSUME NEW c \in Caller, Network(c) PROVE ReadyToStart'
  <2>1. CASE Link(c) BY <2>1 DEF Link
  <2>2. CASE Drop(c) BY <2>2 DEF Drop
  <2>3. CASE Message(c) BY <2>3 DEF Message
  <2> QED BY <1>4, <2>1, <2>2, <2>3 DEF Network
<1>5. CASE UNCHANGED vars
  BY <1>5 DEF vars
<1> QED BY <1>1, <1>2, <1>3, <1>4, <1>5 DEF Next

LEMMA StepFailedHasEnded ==
  ASSUME LoopStopRaises = FALSE PROVE ServeInv /\ [Next]_vars => FailedHasEnded'
<1> SUFFICES ASSUME ServeInv, [Next]_vars PROVE FailedHasEnded'
  OBVIOUS
<1> USE ConstantsAssumption DEF ServeInv, LoopInv, TypeOK, Step, Phase, bridgeVars, lockVars,
        confVars, locals, netFlags, AfterStop, Mutex, Uncreated, Targets, Loops, Inside, Early,
        Stopping, NoneCurrent, ReadyToStart, FailedHasEnded, CurrentIsWhole
<1>1. ASSUME NEW t \in Caller, NEW v \in Value, Save(t, v) PROVE FailedHasEnded'
  BY <1>1 DEF Save
<1>2. ASSUME NEW t \in Caller, CallerStep(t) PROVE FailedHasEnded'
  <2>1. CASE Enter(t) BY <2>1 DEF Enter
  <2>2. CASE Persist(t) BY <2>2 DEF Persist
  <2>3. CASE Adopt(t) BY <2>3 DEF Adopt
  <2>4. CASE Swap(t) BY <2>4 DEF Swap
  <2>5. CASE ClearCallbacks(t) BY <2>5 DEF ClearCallbacks
  <2>6. CASE Disconnect(t) BY <2>6 DEF Disconnect
  <2>7. CASE LoopStop(t) BY <2>7 DEF LoopStop
  <2>8. CASE Join(t) BY <2>8 DEF Join
  <2>9. CASE Create(t) BY <2>9 DEF Create
  <2>10. CASE Install(t) BY <2>10 DEF Install
  <2>11. CASE StartLoop(t) BY <2>11 DEF StartLoop
  <2>12. CASE Fail(t) BY <2>12 DEF Fail
  <2>13. CASE Keep(t) BY <2>13 DEF Keep
  <2>14. CASE Return(t) BY <2>14 DEF Return
  <2> QED
    BY <1>2, <2>1, <2>2, <2>3, <2>4, <2>5, <2>6, <2>7, <2>8, <2>9, <2>10, <2>11, <2>12, <2>13, <2>14
    DEF CallerStep
<1>3. ASSUME NEW c \in Caller, CallbackStep(c) PROVE FailedHasEnded'
  <2>1. CASE OnConnect(c) BY <2>1 DEF OnConnect
  <2>2. CASE Announce(c) BY <2>2 DEF Announce
  <2>3. CASE OnRefused(c) BY <2>3 DEF OnRefused
  <2>4. CASE OnDisconnect(c) BY <2>4 DEF OnDisconnect
  <2>5. CASE OnMessage(c) BY <2>5 DEF OnMessage
  <2>6. CASE Command(c) BY <2>6 DEF Command
  <2>7. CASE End(c) BY <2>7 DEF End
  <2> QED BY <1>3, <2>1, <2>2, <2>3, <2>4, <2>5, <2>6, <2>7 DEF CallbackStep
<1>4. ASSUME NEW c \in Caller, Network(c) PROVE FailedHasEnded'
  <2>1. CASE Link(c) BY <2>1 DEF Link
  <2>2. CASE Drop(c) BY <2>2 DEF Drop
  <2>3. CASE Message(c) BY <2>3 DEF Message
  <2> QED BY <1>4, <2>1, <2>2, <2>3 DEF Network
<1>5. CASE UNCHANGED vars
  BY <1>5 DEF vars
<1> QED BY <1>1, <1>2, <1>3, <1>4, <1>5 DEF Next

LEMMA StepCurrentIsWhole ==
  ASSUME LoopStopRaises = FALSE PROVE ServeInv /\ [Next]_vars => CurrentIsWhole'
<1> SUFFICES ASSUME ServeInv, [Next]_vars PROVE CurrentIsWhole'
  OBVIOUS
<1> USE ConstantsAssumption DEF ServeInv, LoopInv, TypeOK, Step, Phase, bridgeVars, lockVars,
        confVars, locals, netFlags, AfterStop, Mutex, Uncreated, Targets, Loops, Inside, Early,
        Stopping, NoneCurrent, ReadyToStart, FailedHasEnded, CurrentIsWhole
<1>1. ASSUME NEW t \in Caller, NEW v \in Value, Save(t, v) PROVE CurrentIsWhole'
  BY <1>1 DEF Save
<1>2. ASSUME NEW t \in Caller, CallerStep(t) PROVE CurrentIsWhole'
  <2>1. CASE Enter(t) BY <2>1 DEF Enter
  <2>2. CASE Persist(t) BY <2>2 DEF Persist
  <2>3. CASE Adopt(t) BY <2>3 DEF Adopt
  <2>4. CASE Swap(t) BY <2>4 DEF Swap
  <2>5. CASE ClearCallbacks(t) BY <2>5 DEF ClearCallbacks
  <2>6. CASE Disconnect(t) BY <2>6 DEF Disconnect
  <2>7. CASE LoopStop(t) BY <2>7 DEF LoopStop
  <2>8. CASE Join(t) BY <2>8 DEF Join
  <2>9. CASE Create(t) BY <2>9 DEF Create
  <2>10. CASE Install(t) BY <2>10 DEF Install
  <2>11. CASE StartLoop(t) BY <2>11 DEF StartLoop
  <2>12. CASE Fail(t) BY <2>12 DEF Fail
  <2>13. CASE Keep(t) BY <2>13 DEF Keep
  <2>14. CASE Return(t) BY <2>14 DEF Return
  <2> QED
    BY <1>2, <2>1, <2>2, <2>3, <2>4, <2>5, <2>6, <2>7, <2>8, <2>9, <2>10, <2>11, <2>12, <2>13, <2>14
    DEF CallerStep
<1>3. ASSUME NEW c \in Caller, CallbackStep(c) PROVE CurrentIsWhole'
  <2>1. CASE OnConnect(c) BY <2>1 DEF OnConnect
  <2>2. CASE Announce(c) BY <2>2 DEF Announce
  <2>3. CASE OnRefused(c) BY <2>3 DEF OnRefused
  <2>4. CASE OnDisconnect(c) BY <2>4 DEF OnDisconnect
  <2>5. CASE OnMessage(c) BY <2>5 DEF OnMessage
  <2>6. CASE Command(c) BY <2>6 DEF Command
  <2>7. CASE End(c) BY <2>7 DEF End
  <2> QED BY <1>3, <2>1, <2>2, <2>3, <2>4, <2>5, <2>6, <2>7 DEF CallbackStep
<1>4. ASSUME NEW c \in Caller, Network(c) PROVE CurrentIsWhole'
  <2>1. CASE Link(c) BY <2>1 DEF Link
  <2>2. CASE Drop(c) BY <2>2 DEF Drop
  <2>3. CASE Message(c) BY <2>3 DEF Message
  <2> QED BY <1>4, <2>1, <2>2, <2>3 DEF Network
<1>5. CASE UNCHANGED vars
  BY <1>5 DEF vars
<1> QED BY <1>1, <1>2, <1>3, <1>4, <1>5 DEF Next

LEMMA StepConnectedIsServed ==
  ASSUME LoopStopRaises = FALSE PROVE ServeInv /\ [Next]_vars => ConnectedIsServed'
<1> SUFFICES ASSUME ServeInv, [Next]_vars PROVE ConnectedIsServed'
  OBVIOUS
<1> USE ConstantsAssumption DEF ServeInv, LoopInv, TypeOK, Step, Phase, bridgeVars, lockVars,
        confVars, locals, netFlags, AfterStop, Mutex, Uncreated, Targets, Loops, Inside, Early,
        Stopping, NoneCurrent, ReadyToStart, FailedHasEnded, CurrentIsWhole, ConnectedIsServed
<1>1. ASSUME NEW t \in Caller, NEW v \in Value, Save(t, v) PROVE ConnectedIsServed'
  BY <1>1 DEF Save
<1>2. ASSUME NEW t \in Caller, CallerStep(t) PROVE ConnectedIsServed'
  <2>1. CASE Enter(t) BY <2>1 DEF Enter
  <2>2. CASE Persist(t) BY <2>2 DEF Persist
  <2>3. CASE Adopt(t) BY <2>3 DEF Adopt
  <2>4. CASE Swap(t) BY <2>4 DEF Swap
  <2>5. CASE ClearCallbacks(t) BY <2>5 DEF ClearCallbacks
  <2>6. CASE Disconnect(t) BY <2>6 DEF Disconnect
  <2>7. CASE LoopStop(t) BY <2>7 DEF LoopStop
  <2>8. CASE Join(t) BY <2>8 DEF Join
  <2>9. CASE Create(t) BY <2>9 DEF Create
  <2>10. CASE Install(t)
    <3>1. ~connected
      BY <2>10, NotYetConnected DEF Install
    <3>2. ~connected'
      BY <2>10, <3>1 DEF Install
    <3> QED BY <3>2
  <2>11. CASE StartLoop(t) BY <2>11 DEF StartLoop
  <2>12. CASE Fail(t) BY <2>12 DEF Fail
  <2>13. CASE Keep(t)
    <3>1. ~connected
      BY <2>13, NotYetConnected DEF Keep
    <3>2. ~connected'
      BY <2>13, <3>1 DEF Keep
    <3> QED BY <3>2
  <2>14. CASE Return(t) BY <2>14 DEF Return
  <2> QED
    BY <1>2, <2>1, <2>2, <2>3, <2>4, <2>5, <2>6, <2>7, <2>8, <2>9, <2>10, <2>11, <2>12, <2>13, <2>14
    DEF CallerStep
<1>3. ASSUME NEW c \in Caller, CallbackStep(c) PROVE ConnectedIsServed'
  <2>1. CASE OnConnect(c)
    <3>1. CASE c = client
      <4>1. client' = client /\ cb' = cb /\ quit' = quit /\ net'[c] = "announcing" /\ ~error'
        BY <2>1, <3>1 DEF OnConnect
      <4>2. client # None /\ client \in cb /\ client \notin quit
        BY <2>1, <3>1 DEF OnConnect
      <4> QED BY <3>1, <4>1, <4>2
    <3>2. CASE c # client
      <4>1. UNCHANGED <<client, connected, error, cb, quit, subscribed>>
        BY <2>1, <3>2 DEF OnConnect
      <4>2. client # None => net'[client] = net[client]
        BY <2>1, <3>2 DEF OnConnect
      <4> QED BY <4>1, <4>2
    <3> QED BY <3>1, <3>2
  <2>2. CASE Announce(c) BY <2>2 DEF Announce
  <2>3. CASE OnRefused(c)
    <3>1. CASE c = client
      <4>1. ~connected'
        BY <2>3, <3>1 DEF OnRefused
      <4> QED BY <4>1
    <3>2. CASE c # client
      <4>1. UNCHANGED <<client, connected, error, cb, quit, subscribed>>
        BY <2>3, <3>2 DEF OnRefused
      <4>2. client # None => net'[client] = net[client]
        BY <2>3, <3>2 DEF OnRefused
      <4> QED BY <4>1, <4>2
    <3> QED BY <3>1, <3>2
  <2>4. CASE OnDisconnect(c)
    <3>1. CASE c = client
      <4>1. ~connected'
        BY <2>4, <3>1 DEF OnDisconnect
      <4> QED BY <4>1
    <3>2. CASE c # client
      <4>1. UNCHANGED <<client, connected, error, cb, quit, subscribed>>
        BY <2>4, <3>2 DEF OnDisconnect
      <4>2. client # None => net'[client] = net[client]
        BY <2>4, <3>2 DEF OnDisconnect
      <4> QED BY <4>1, <4>2
    <3> QED BY <3>1, <3>2
  <2>5. CASE OnMessage(c) BY <2>5 DEF OnMessage
  <2>6. CASE Command(c)
    <3>1. UNCHANGED <<client, connected, error, cb, quit, subscribed>>
      BY <2>6 DEF Command
    <3>2. net[c] = "command" /\ net'[c] \in {"up", "dead"}
      BY <2>6 DEF Command
    <3>3. client # None /\ client # c => net'[client] = net[client]
      BY <2>6 DEF Command
    <3> QED BY <3>1, <3>2, <3>3
  <2>7. CASE End(c) BY <2>7 DEF End
  <2> QED BY <1>3, <2>1, <2>2, <2>3, <2>4, <2>5, <2>6, <2>7 DEF CallbackStep
<1>4. ASSUME NEW c \in Caller, Network(c) PROVE ConnectedIsServed'
  <2>1. CASE Link(c)
    <3>1. UNCHANGED <<client, connected, error, cb, quit, subscribed>>
      BY <2>1 DEF Link
    <3>2. client = c => ~connected
      BY <2>1 DEF Link
    <3>3. client # None /\ client # c => net'[client] = net[client]
      BY <2>1 DEF Link
    <3> QED BY <3>1, <3>2, <3>3
  <2>2. CASE Drop(c) BY <2>2 DEF Drop
  <2>3. CASE Message(c) BY <2>3 DEF Message
  <2> QED BY <1>4, <2>1, <2>2, <2>3 DEF Network
<1>5. CASE UNCHANGED vars
  BY <1>5 DEF vars
<1> QED BY <1>1, <1>2, <1>3, <1>4, <1>5 DEF Next

LEMMA AlwaysServe == ASSUME LoopStopRaises = FALSE PROVE Spec => []ServeInv
<1>1. ServeInv /\ [Next]_vars => ServeInv'
  BY StepLoop, StepNoneCurrent, StepReadyToStart, StepFailedHasEnded, StepCurrentIsWhole,
     StepConnectedIsServed DEF ServeInv
<1> QED BY <1>1, InitServe, PTL DEF Spec

(* "Connected" is shown only of a client that serves.                        *)
THEOREM ConnectedServes == ASSUME LoopStopRaises = FALSE PROVE Spec => []ConnectedIsServed
<1>1. ServeInv => ConnectedIsServed
  BY DEF ServeInv
<1> QED BY <1>1, AlwaysServe, PTL

-----------------------------------------------------------------------------
(* Only saving threads have something to save, and they begin after start(). *)
SavesFollowStart == \A t \in Caller : want[t] # None => pc[Main] = "done" /\ t # Main

(* File, memory and the restarting thread's copy agree as far as it has come. *)
CopiesAgree ==
  /\ restartLock = None => file = config
  /\ \A t \in Caller :
       /\ pc[t] = "adopt" => file = want[t]
       /\ Inside(t) /\ pc[t] # "adopt" => file = config
       /\ pc[t] \notin {"idle", "enter", "persist", "adopt", "swap", "refused", "done"}
            => copied[t] = config

(* A cleaned-up failure shows its error.                                     *)
CleanupHasError ==
  \A t \in Caller : (Stopping(t) /\ target[t] = t) \/ pc[t] = "keep" => error

(* Nothing is half done: no restart, or one that has finished or only saved. *)
Settled ==
  \/ restartLock = None /\ pc[Main] = "done"
  \/ \E t \in Caller : pc[t] \in {"persist", "return"}

ServesConfig ==
  /\ client # None /\ Running(client) => copied[client] = config
  /\ \/ error
     \/ config = NoHost /\ client = None /\ \A c \in Caller : ~Running(c)
     \/ /\ client # None /\ copied[client] = config /\ client \in cb
        /\ Running(client) \/ net[client] = "dead"

ConfigInv == ServeInv /\ SavesFollowStart /\ CopiesAgree /\ CleanupHasError
                      /\ (Settled => ServesConfig)

LEMMA InitConfig == Init => ConfigInv
<1> SUFFICES ASSUME Init PROVE ConfigInv
  OBVIOUS
<1>1. SavesFollowStart /\ CopiesAgree /\ CleanupHasError /\ ~Settled
  BY ConstantsAssumption DEF Init, SavesFollowStart, CopiesAgree, CleanupHasError, Settled,
     Stopping, Inside
<1> QED BY <1>1, InitServe DEF ConfigInv

LEMMA StepSavesFollowStart ==
  ASSUME LoopStopRaises = FALSE PROVE ConfigInv /\ [Next]_vars => SavesFollowStart'
<1> SUFFICES ASSUME ConfigInv, [Next]_vars PROVE SavesFollowStart'
  OBVIOUS
<1> USE ConstantsAssumption DEF ConfigInv, ServeInv, LoopInv, TypeOK, Step, Phase, bridgeVars,
        lockVars, confVars, locals, netFlags, AfterStop, Wants, Mutex, Uncreated, Targets, Inside,
        Early, Stopping, SavesFollowStart
<1>1. ASSUME NEW t \in Caller, NEW v \in Value, Save(t, v) PROVE SavesFollowStart'
  BY <1>1 DEF Save
<1>2. ASSUME NEW t \in Caller, CallerStep(t) PROVE SavesFollowStart'
  <2>1. CASE Enter(t) BY <2>1 DEF Enter
  <2>2. CASE Persist(t) BY <2>2 DEF Persist
  <2>3. CASE Adopt(t) BY <2>3 DEF Adopt
  <2>4. CASE Swap(t) BY <2>4 DEF Swap
  <2>5. CASE ClearCallbacks(t) BY <2>5 DEF ClearCallbacks
  <2>6. CASE Disconnect(t) BY <2>6 DEF Disconnect
  <2>7. CASE LoopStop(t) BY <2>7 DEF LoopStop
  <2>8. CASE Join(t) BY <2>8 DEF Join
  <2>9. CASE Create(t) BY <2>9 DEF Create
  <2>10. CASE Install(t) BY <2>10 DEF Install
  <2>11. CASE StartLoop(t) BY <2>11 DEF StartLoop
  <2>12. CASE Fail(t) BY <2>12 DEF Fail
  <2>13. CASE Keep(t) BY <2>13 DEF Keep
  <2>14. CASE Return(t) BY <2>14 DEF Return
  <2> QED
    BY <1>2, <2>1, <2>2, <2>3, <2>4, <2>5, <2>6, <2>7, <2>8, <2>9, <2>10, <2>11, <2>12, <2>13, <2>14
    DEF CallerStep
<1>3. ASSUME NEW c \in Caller, CallbackStep(c) PROVE SavesFollowStart'
  <2>1. CASE OnConnect(c) BY <2>1 DEF OnConnect
  <2>2. CASE Announce(c) BY <2>2 DEF Announce
  <2>3. CASE OnRefused(c) BY <2>3 DEF OnRefused
  <2>4. CASE OnDisconnect(c) BY <2>4 DEF OnDisconnect
  <2>5. CASE OnMessage(c) BY <2>5 DEF OnMessage
  <2>6. CASE Command(c) BY <2>6 DEF Command
  <2>7. CASE End(c) BY <2>7 DEF End
  <2> QED BY <1>3, <2>1, <2>2, <2>3, <2>4, <2>5, <2>6, <2>7 DEF CallbackStep
<1>4. ASSUME NEW c \in Caller, Network(c) PROVE SavesFollowStart'
  <2>1. CASE Link(c) BY <2>1 DEF Link
  <2>2. CASE Drop(c) BY <2>2 DEF Drop
  <2>3. CASE Message(c) BY <2>3 DEF Message
  <2> QED BY <1>4, <2>1, <2>2, <2>3 DEF Network
<1>5. CASE UNCHANGED vars
  BY <1>5 DEF vars
<1> QED BY <1>1, <1>2, <1>3, <1>4, <1>5 DEF Next

LEMMA StepCopiesAgree ==
  ASSUME LoopStopRaises = FALSE PROVE ConfigInv /\ [Next]_vars => CopiesAgree'
<1> SUFFICES ASSUME ConfigInv, [Next]_vars PROVE CopiesAgree'
  OBVIOUS
<1> USE ConstantsAssumption DEF ConfigInv, ServeInv, LoopInv, TypeOK, Step, Phase, bridgeVars,
        lockVars, confVars, locals, netFlags, AfterStop, Wants, Mutex, Uncreated, Targets, Inside,
        Early, Stopping, CopiesAgree
<1>1. ASSUME NEW t \in Caller, NEW v \in Value, Save(t, v) PROVE CopiesAgree'
  BY <1>1 DEF Save
<1>2. ASSUME NEW t \in Caller, CallerStep(t) PROVE CopiesAgree'
  <2>1. CASE Enter(t) BY <2>1 DEF Enter
  <2>2. CASE Persist(t) BY <2>2 DEF Persist
  <2>3. CASE Adopt(t) BY <2>3 DEF Adopt
  <2>4. CASE Swap(t) BY <2>4 DEF Swap
  <2>5. CASE ClearCallbacks(t) BY <2>5 DEF ClearCallbacks
  <2>6. CASE Disconnect(t) BY <2>6 DEF Disconnect
  <2>7. CASE LoopStop(t) BY <2>7 DEF LoopStop
  <2>8. CASE Join(t) BY <2>8 DEF Join
  <2>9. CASE Create(t) BY <2>9 DEF Create
  <2>10. CASE Install(t) BY <2>10 DEF Install
  <2>11. CASE StartLoop(t) BY <2>11 DEF StartLoop
  <2>12. CASE Fail(t) BY <2>12 DEF Fail
  <2>13. CASE Keep(t) BY <2>13 DEF Keep
  <2>14. CASE Return(t) BY <2>14 DEF Return
  <2> QED
    BY <1>2, <2>1, <2>2, <2>3, <2>4, <2>5, <2>6, <2>7, <2>8, <2>9, <2>10, <2>11, <2>12, <2>13, <2>14
    DEF CallerStep
<1>3. ASSUME NEW c \in Caller, CallbackStep(c) PROVE CopiesAgree'
  <2>1. CASE OnConnect(c) BY <2>1 DEF OnConnect
  <2>2. CASE Announce(c) BY <2>2 DEF Announce
  <2>3. CASE OnRefused(c) BY <2>3 DEF OnRefused
  <2>4. CASE OnDisconnect(c) BY <2>4 DEF OnDisconnect
  <2>5. CASE OnMessage(c) BY <2>5 DEF OnMessage
  <2>6. CASE Command(c) BY <2>6 DEF Command
  <2>7. CASE End(c) BY <2>7 DEF End
  <2> QED BY <1>3, <2>1, <2>2, <2>3, <2>4, <2>5, <2>6, <2>7 DEF CallbackStep
<1>4. ASSUME NEW c \in Caller, Network(c) PROVE CopiesAgree'
  <2>1. CASE Link(c) BY <2>1 DEF Link
  <2>2. CASE Drop(c) BY <2>2 DEF Drop
  <2>3. CASE Message(c) BY <2>3 DEF Message
  <2> QED BY <1>4, <2>1, <2>2, <2>3 DEF Network
<1>5. CASE UNCHANGED vars
  BY <1>5 DEF vars
<1> QED BY <1>1, <1>2, <1>3, <1>4, <1>5 DEF Next

LEMMA StepCleanupHasError ==
  ASSUME LoopStopRaises = FALSE PROVE ConfigInv /\ [Next]_vars => CleanupHasError'
<1> SUFFICES ASSUME ConfigInv, [Next]_vars PROVE CleanupHasError'
  OBVIOUS
<1> USE ConstantsAssumption DEF ConfigInv, ServeInv, LoopInv, TypeOK, Step, Phase, bridgeVars,
        lockVars, confVars, locals, netFlags, AfterStop, Wants, Mutex, Uncreated, Targets, Inside,
        Early, Stopping, CleanupHasError, NoneCurrent
<1>1. ASSUME NEW t \in Caller, NEW v \in Value, Save(t, v) PROVE CleanupHasError'
  BY <1>1 DEF Save
<1>2. ASSUME NEW t \in Caller, CallerStep(t) PROVE CleanupHasError'
  <2>1. CASE Enter(t) BY <2>1 DEF Enter
  <2>2. CASE Persist(t) BY <2>2 DEF Persist
  <2>3. CASE Adopt(t) BY <2>3 DEF Adopt
  <2>4. CASE Swap(t) BY <2>4 DEF Swap
  <2>5. CASE ClearCallbacks(t) BY <2>5 DEF ClearCallbacks
  <2>6. CASE Disconnect(t) BY <2>6 DEF Disconnect
  <2>7. CASE LoopStop(t) BY <2>7 DEF LoopStop
  <2>8. CASE Join(t) BY <2>8 DEF Join
  <2>9. CASE Create(t) BY <2>9 DEF Create
  <2>10. CASE Install(t) BY <2>10 DEF Install
  <2>11. CASE StartLoop(t) BY <2>11 DEF StartLoop
  <2>12. CASE Fail(t) BY <2>12 DEF Fail
  <2>13. CASE Keep(t) BY <2>13 DEF Keep
  <2>14. CASE Return(t) BY <2>14 DEF Return
  <2> QED
    BY <1>2, <2>1, <2>2, <2>3, <2>4, <2>5, <2>6, <2>7, <2>8, <2>9, <2>10, <2>11, <2>12, <2>13, <2>14
    DEF CallerStep
<1>3. ASSUME NEW c \in Caller, CallbackStep(c) PROVE CleanupHasError'
  <2>1. CASE OnConnect(c) BY <2>1 DEF OnConnect
  <2>2. CASE Announce(c) BY <2>2 DEF Announce
  <2>3. CASE OnRefused(c) BY <2>3 DEF OnRefused
  <2>4. CASE OnDisconnect(c) BY <2>4 DEF OnDisconnect
  <2>5. CASE OnMessage(c) BY <2>5 DEF OnMessage
  <2>6. CASE Command(c) BY <2>6 DEF Command
  <2>7. CASE End(c) BY <2>7 DEF End
  <2> QED BY <1>3, <2>1, <2>2, <2>3, <2>4, <2>5, <2>6, <2>7 DEF CallbackStep
<1>4. ASSUME NEW c \in Caller, Network(c) PROVE CleanupHasError'
  <2>1. CASE Link(c) BY <2>1 DEF Link
  <2>2. CASE Drop(c) BY <2>2 DEF Drop
  <2>3. CASE Message(c) BY <2>3 DEF Message
  <2> QED BY <1>4, <2>1, <2>2, <2>3 DEF Network
<1>5. CASE UNCHANGED vars
  BY <1>5 DEF vars
<1> QED BY <1>1, <1>2, <1>3, <1>4, <1>5 DEF Next

LEMMA StepServes ==
  ASSUME LoopStopRaises = FALSE PROVE ConfigInv /\ [Next]_vars => (Settled => ServesConfig)'
<1> SUFFICES ASSUME ConfigInv, [Next]_vars PROVE (Settled => ServesConfig)'
  OBVIOUS
<1> USE ConstantsAssumption DEF ConfigInv, ServeInv, LoopInv, TypeOK, Step, Phase, bridgeVars,
        lockVars, confVars, locals, netFlags, AfterStop, Wants, Mutex, Uncreated, Targets, Inside,
        Early, Stopping, SavesFollowStart, CopiesAgree, CleanupHasError, Settled,
        ServesConfig, NoneCurrent, ReadyToStart, FailedHasEnded, CurrentIsWhole, Loops
<1>1. ASSUME NEW t \in Caller, NEW v \in Value, Save(t, v) PROVE (Settled => ServesConfig)'
  BY <1>1 DEF Save
<1>2. ASSUME NEW t \in Caller, CallerStep(t) PROVE (Settled => ServesConfig)'
  <2>1. CASE Enter(t) BY <2>1 DEF Enter
  <2>2. CASE Persist(t) BY <2>2 DEF Persist
  <2>3. CASE Adopt(t) BY <2>3 DEF Adopt
  <2>4. CASE Swap(t) BY <2>4 DEF Swap
  <2>5. CASE ClearCallbacks(t) BY <2>5 DEF ClearCallbacks
  <2>6. CASE Disconnect(t) BY <2>6 DEF Disconnect
  <2>7. CASE LoopStop(t) BY <2>7 DEF LoopStop
  <2>8. CASE Join(t) BY <2>8 DEF Join
  <2>9. CASE Create(t) BY <2>9 DEF Create
  <2>10. CASE Install(t) BY <2>10 DEF Install
  <2>11. CASE StartLoop(t) BY <2>11 DEF StartLoop
  <2>12. CASE Fail(t) BY <2>12 DEF Fail
  <2>13. CASE Keep(t) BY <2>13 DEF Keep
  <2>14. CASE Return(t) BY <2>14 DEF Return
  <2> QED
    BY <1>2, <2>1, <2>2, <2>3, <2>4, <2>5, <2>6, <2>7, <2>8, <2>9, <2>10, <2>11, <2>12, <2>13, <2>14
    DEF CallerStep
<1>3. ASSUME NEW c \in Caller, CallbackStep(c) PROVE (Settled => ServesConfig)'
  <2>1. CASE OnConnect(c) BY <2>1 DEF OnConnect
  <2>2. CASE Announce(c) BY <2>2 DEF Announce
  <2>3. CASE OnRefused(c) BY <2>3 DEF OnRefused
  <2>4. CASE OnDisconnect(c) BY <2>4 DEF OnDisconnect
  <2>5. CASE OnMessage(c) BY <2>5 DEF OnMessage
  <2>6. CASE Command(c) BY <2>6 DEF Command
  <2>7. CASE End(c) BY <2>7 DEF End
  <2> QED BY <1>3, <2>1, <2>2, <2>3, <2>4, <2>5, <2>6, <2>7 DEF CallbackStep
<1>4. ASSUME NEW c \in Caller, Network(c) PROVE (Settled => ServesConfig)'
  <2>1. CASE Link(c) BY <2>1 DEF Link
  <2>2. CASE Drop(c) BY <2>2 DEF Drop
  <2>3. CASE Message(c) BY <2>3 DEF Message
  <2> QED BY <1>4, <2>1, <2>2, <2>3 DEF Network
<1>5. CASE UNCHANGED vars
  BY <1>5 DEF vars
<1> QED BY <1>1, <1>2, <1>3, <1>4, <1>5 DEF Next

LEMMA AlwaysConfig == ASSUME LoopStopRaises = FALSE PROVE Spec => []ConfigInv
<1>1. ServeInv /\ [Next]_vars => ServeInv'
  BY StepLoop, StepNoneCurrent, StepReadyToStart, StepFailedHasEnded, StepCurrentIsWhole,
     StepConnectedIsServed DEF ServeInv
<1>2. ConfigInv /\ [Next]_vars => ConfigInv'
  BY <1>1, StepSavesFollowStart, StepCopiesAgree, StepCleanupHasError, StepServes DEF ConfigInv
<1> QED BY <1>2, InitConfig, PTL DEF Spec

(* Between restarts, file, memory and running client agree: the last save is *)
(* what runs, or an error is shown.                                          *)
THEOREM LastSaveRuns == ASSUME LoopStopRaises = FALSE PROVE Spec => []NewestConfigRuns
<1>1. ConfigInv => NewestConfigRuns
  BY DEF ConfigInv, NewestConfigRuns, CopiesAgree, Settled, ServesConfig
<1> QED BY <1>1, AlwaysConfig, PTL

-----------------------------------------------------------------------------
(* What ListensWhereConfigured needs to be inductive: the subscription holds  *)
(* at every point of a restart but the swap, whether or not the restart has   *)
(* begun to replace the client.  The memory changes only on the way to the    *)
(* swap, and the swap leaves nothing connected until a client has subscribed. *)
ListensUntilSwap ==
  connected /\ net[client] # "announcing" /\ net[client] # "dead"
            /\ (restartLock = None \/ pc[restartLock] # "swap")
    => subscribed[client] = config

ListenInv == ServeInv /\ ListensUntilSwap

LEMMA StepListens ==
  ASSUME LoopStopRaises = FALSE PROVE ListenInv /\ [Next]_vars => ListensUntilSwap'
<1> SUFFICES ASSUME ListenInv, [Next]_vars PROVE ListensUntilSwap'
  OBVIOUS
<1> USE ConstantsAssumption DEF ListenInv, ServeInv, LoopInv, TypeOK, Step, Phase, bridgeVars,
        lockVars, confVars, locals, netFlags, AfterStop, Mutex, Inside, ConnectedIsServed,
        ListensUntilSwap
<1>1. ASSUME NEW t \in Caller, NEW v \in Value, Save(t, v) PROVE ListensUntilSwap'
  BY <1>1 DEF Save
<1>2. ASSUME NEW t \in Caller, CallerStep(t) PROVE ListensUntilSwap'
  <2>1. CASE Enter(t) BY <2>1 DEF Enter
  <2>2. CASE Persist(t) BY <2>2 DEF Persist
  <2>3. CASE Adopt(t) BY <2>3 DEF Adopt
  <2>4. CASE Swap(t) BY <2>4 DEF Swap
  <2>5. CASE ClearCallbacks(t) BY <2>5 DEF ClearCallbacks
  <2>6. CASE Disconnect(t) BY <2>6 DEF Disconnect
  <2>7. CASE LoopStop(t) BY <2>7 DEF LoopStop
  <2>8. CASE Join(t) BY <2>8 DEF Join
  <2>9. CASE Create(t) BY <2>9 DEF Create
  <2>10. CASE Install(t)
    <3>1. ~connected
      BY <2>10, NotYetConnected DEF Install
    <3>2. ~connected'
      BY <2>10, <3>1 DEF Install
    <3> QED BY <3>2
  <2>11. CASE StartLoop(t)
    <3>1. client = t /\ net[t] = "off"
      BY <2>11 DEF StartLoop, Targets
    <3>2. ~connected
      BY <3>1
    <3>3. ~connected'
      BY <2>11, <3>2 DEF StartLoop
    <3> QED BY <3>3
  <2>12. CASE Fail(t) BY <2>12 DEF Fail
  <2>13. CASE Keep(t)
    <3>1. ~connected
      BY <2>13, NotYetConnected DEF Keep
    <3>2. ~connected'
      BY <2>13, <3>1 DEF Keep
    <3> QED BY <3>2
  <2>14. CASE Return(t) BY <2>14 DEF Return
  <2> QED
    BY <1>2, <2>1, <2>2, <2>3, <2>4, <2>5, <2>6, <2>7, <2>8, <2>9, <2>10, <2>11, <2>12, <2>13, <2>14
    DEF CallerStep
<1>3. ASSUME NEW c \in Caller, CallbackStep(c) PROVE ListensUntilSwap'
  <2>1. CASE OnConnect(c)
    <3>1. CASE c = client
      <4>1. client' = client /\ net'[c] = "announcing"
        BY <2>1, <3>1 DEF OnConnect
      <4> QED BY <3>1, <4>1
    <3>2. CASE c # client
      <4>1. UNCHANGED <<client, connected, subscribed, config, restartLock, pc>>
        BY <2>1, <3>2 DEF OnConnect
      <4>2. client # None => net'[client] = net[client]
        BY <2>1, <3>2 DEF OnConnect
      <4> QED BY <4>1, <4>2
    <3> QED BY <3>1, <3>2
  <2>2. CASE Announce(c) BY <2>2 DEF Announce
  <2>3. CASE OnRefused(c) BY <2>3 DEF OnRefused
  <2>4. CASE OnDisconnect(c) BY <2>4 DEF OnDisconnect
  <2>5. CASE OnMessage(c) BY <2>5 DEF OnMessage
  <2>6. CASE Command(c)
    <3>1. UNCHANGED <<client, connected, subscribed, config, restartLock, pc>>
      BY <2>6 DEF Command
    <3>2. net[c] = "command"
      BY <2>6 DEF Command
    <3>3. client # None /\ client # c => net'[client] = net[client]
      BY <2>6 DEF Command
    <3> QED BY <3>1, <3>2, <3>3
  <2>7. CASE End(c) BY <2>7 DEF End
  <2> QED BY <1>3, <2>1, <2>2, <2>3, <2>4, <2>5, <2>6, <2>7 DEF CallbackStep
<1>4. ASSUME NEW c \in Caller, Network(c) PROVE ListensUntilSwap'
  <2>1. CASE Link(c)
    <3>1. UNCHANGED <<client, connected, subscribed, config, restartLock, pc>>
      BY <2>1 DEF Link
    <3>2. client = c => ~connected
      BY <2>1 DEF Link
    <3>3. client # None /\ client # c => net'[client] = net[client]
      BY <2>1 DEF Link
    <3> QED BY <3>1, <3>2, <3>3
  <2>2. CASE Drop(c) BY <2>2 DEF Drop
  <2>3. CASE Message(c) BY <2>3 DEF Message
  <2> QED BY <1>4, <2>1, <2>2, <2>3 DEF Network
<1>5. CASE UNCHANGED vars
  BY <1>5 DEF vars
<1> QED BY <1>1, <1>2, <1>3, <1>4, <1>5 DEF Next

LEMMA AlwaysListens == ASSUME LoopStopRaises = FALSE PROVE Spec => []ListenInv
<1>1. Init => ListenInv
  BY InitServe DEF Init, ListenInv, ListensUntilSwap
<1>2. ServeInv /\ [Next]_vars => ServeInv'
  BY StepLoop, StepNoneCurrent, StepReadyToStart, StepFailedHasEnded, StepCurrentIsWhole,
     StepConnectedIsServed DEF ServeInv
<1>3. ListenInv /\ [Next]_vars => ListenInv'
  BY <1>2, StepListens DEF ListenInv
<1> QED BY <1>1, <1>3, PTL DEF Spec

(* A connected client that no restart is about to replace listens on the      *)
(* topics that are configured, whatever restarts came before it.              *)
THEOREM ListensOnConfigured ==
  ASSUME LoopStopRaises = FALSE PROVE Spec => []ListensWhereConfigured
<1>1. ListenInv => ListensWhereConfigured
  BY ConstantsAssumption
  DEF ListenInv, ServeInv, LoopInv, TypeOK, ListensUntilSwap, ListensWhereConfigured
<1> QED BY <1>1, AlwaysListens, PTL
=============================================================================
