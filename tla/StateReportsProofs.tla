-------------------------- MODULE StateReportsProofs --------------------------
(* What holds of the event streams of StateReports for any number of writers, *)
(* pages and reports.                                                         *)
EXTENDS StateReports, TLAPS

ReportInv == TypeOK /\ ChangesAreOnTheirWay /\ NoWakeUpIsLost

(* At first nothing has changed and no stream is open.                        *)
LEMMA InitReports == Init => ReportInv
<1> SUFFICES ASSUME Init PROVE ReportInv
  OBVIOUS
<1> USE ConstantsAssumption DEF Init
<1>1. [f \in Field |-> 0] \in Content
  BY DEF Content
<1>2. TypeOK
  BY <1>1 DEF TypeOK
<1>3. ChangesAreOnTheirWay /\ NoWakeUpIsLost
  BY DEF ChangesAreOnTheirWay, NoWakeUpIsLost
<1> QED BY <1>2, <1>3 DEF ReportInv

(* No step breaks a type, or lets a stream see a revision that is yet to come. *)
LEMMA TypeStep == ASSUME TypeOK, [Next]_vars PROVE TypeOK'
<1> USE ConstantsAssumption
    DEF TypeOK, fileVars, brokerVars, pageVars,
        Goto, AfterWrite, NotifyAll, Start, Changed, Due, SetFetch
<1>1. ASSUME NEW w \in Handler, NEW fields \in SUBSET Field \ {{}}, Report(w, fields) PROVE TypeOK'
  <2>1. reports' \in 0..MaxReports /\ reports' = reports + 1
    BY <1>1 DEF Report
  <2>2. ASSUME NEW c \in Content
        PROVE  [f \in Field |-> IF f \in fields THEN reports' ELSE c[f]] \in Content
    BY <2>1 DEF Content
  <2>3. /\ view' = [view EXCEPT ![w] = [f \in Field |-> IF f \in fields THEN reports' ELSE file[f]]]
        /\ reported' = [f \in Field |-> IF f \in fields THEN reports' ELSE reported[f]]
    BY <1>1 DEF Report
  <2>4. reported' \in Content /\ view' \in [Writer -> Content]
    BY <2>2, <2>3
  <2>5. writerPc' \in [Writer -> {"idle", "write", "publish"}]
    BY <1>1 DEF Report
  <2>6. UNCHANGED <<file, marks, brokerVars, pageVars>>
    BY <1>1 DEF Report
  <2> QED BY <2>1, <2>4, <2>5, <2>6
<1>2. ASSUME NEW w \in Writer, Mark(w) PROVE TypeOK'
  BY <1>2 DEF Mark
<1>3. ASSUME NEW w \in Writer, Write(w) PROVE TypeOK'
  BY <1>3 DEF Write
<1>4. ASSUME NEW w \in Writer, Publish(w) PROVE TypeOK'
  BY <1>4 DEF Publish
<1>5. ASSUME NEW p \in Page, Open(p) PROVE TypeOK'
  BY <1>5 DEF Open
<1>6. ASSUME NEW p \in Page, Check(p) PROVE TypeOK'
  BY <1>6 DEF Check
<1>7. ASSUME NEW p \in Page, Send(p) PROVE TypeOK'
  BY <1>7 DEF Send
<1>8. ASSUME NEW p \in Page, Keepalive(p) PROVE TypeOK'
  BY <1>8 DEF Keepalive
<1>9. ASSUME NEW p \in Page, Break(p) PROVE TypeOK'
  BY <1>9 DEF Break
<1>10. ASSUME NEW p \in Page, Take(p) PROVE TypeOK'
  BY <1>10 DEF Take
<1>11. ASSUME NEW p \in Page, NEW k \in Slot, TimerFires(p, k) PROVE TypeOK'
  BY <1>11 DEF TimerFires
<1>12. ASSUME NEW p \in Page, NEW k \in Slot, Refresh(p, k) PROVE TypeOK'
  BY <1>12 DEF Refresh
<1>13. ASSUME NEW p \in Page, NEW k \in Slot, Answer(p, k) PROVE TypeOK'
  BY <1>13 DEF Answer
<1>14. ASSUME NEW p \in Page, NEW k \in Slot, Show(p, k) PROVE TypeOK'
  BY <1>14 DEF Show
<1>15. ASSUME NEW p \in Page, NEW k \in Slot, Fail(p, k) PROVE TypeOK'
  BY <1>15 DEF Fail
<1>16. CASE UNCHANGED vars
  BY <1>16 DEF vars
<1> QED
  BY <1>1, <1>2, <1>3, <1>4, <1>5, <1>6, <1>7, <1>8, <1>9,
     <1>10, <1>11, <1>12, <1>13, <1>14, <1>15, <1>16
  DEF Next, WriterStep, StreamStep, PageStep

(* A change stays on its way until its stream has told of it.                 *)
LEMMA OnTheirWayStep == ASSUME TypeOK /\ ChangesAreOnTheirWay, [Next]_vars PROVE ChangesAreOnTheirWay'
<1> USE ConstantsAssumption
    DEF TypeOK, ChangesAreOnTheirWay, fileVars, brokerVars, pageVars,
        Goto, AfterWrite, NotifyAll, Start, Changed, Due, SetFetch
<1>1. ASSUME NEW w \in Handler, NEW fields \in SUBSET Field \ {{}}, Report(w, fields) PROVE ChangesAreOnTheirWay'
  BY <1>1 DEF Report
<1>2. ASSUME NEW w \in Writer, Mark(w) PROVE ChangesAreOnTheirWay'
  BY <1>2 DEF Mark
<1>3. ASSUME NEW w \in Writer, Write(w) PROVE ChangesAreOnTheirWay'
  BY <1>3 DEF Write
<1>4. ASSUME NEW w \in Writer, Publish(w) PROVE ChangesAreOnTheirWay'
  BY <1>4 DEF Publish
<1>5. ASSUME NEW p \in Page, Open(p) PROVE ChangesAreOnTheirWay'
  BY <1>5 DEF Open
<1>6. ASSUME NEW p \in Page, Check(p) PROVE ChangesAreOnTheirWay'
  BY <1>6 DEF Check
<1>7. ASSUME NEW p \in Page, Send(p) PROVE ChangesAreOnTheirWay'
  BY <1>7 DEF Send
<1>8. ASSUME NEW p \in Page, Keepalive(p) PROVE ChangesAreOnTheirWay'
  BY <1>8 DEF Keepalive
<1>9. ASSUME NEW p \in Page, Break(p) PROVE ChangesAreOnTheirWay'
  BY <1>9 DEF Break
<1>10. ASSUME NEW p \in Page, Take(p) PROVE ChangesAreOnTheirWay'
  BY <1>10 DEF Take
<1>11. ASSUME NEW p \in Page, NEW k \in Slot, TimerFires(p, k) PROVE ChangesAreOnTheirWay'
  BY <1>11 DEF TimerFires
<1>12. ASSUME NEW p \in Page, NEW k \in Slot, Refresh(p, k) PROVE ChangesAreOnTheirWay'
  BY <1>12 DEF Refresh
<1>13. ASSUME NEW p \in Page, NEW k \in Slot, Answer(p, k) PROVE ChangesAreOnTheirWay'
  BY <1>13 DEF Answer
<1>14. ASSUME NEW p \in Page, NEW k \in Slot, Show(p, k) PROVE ChangesAreOnTheirWay'
  BY <1>14 DEF Show
<1>15. ASSUME NEW p \in Page, NEW k \in Slot, Fail(p, k) PROVE ChangesAreOnTheirWay'
  BY <1>15 DEF Fail
<1>16. CASE UNCHANGED vars
  BY <1>16 DEF vars
<1> QED
  BY <1>1, <1>2, <1>3, <1>4, <1>5, <1>6, <1>7, <1>8, <1>9,
     <1>10, <1>11, <1>12, <1>13, <1>14, <1>15, <1>16
  DEF Next, WriterStep, StreamStep, PageStep

(* Who publishes wakes everyone who sleeps.                                   *)
LEMMA WakeStep == ASSUME TypeOK /\ NoWakeUpIsLost, [Next]_vars PROVE NoWakeUpIsLost'
<1> USE ConstantsAssumption
    DEF TypeOK, NoWakeUpIsLost, fileVars, brokerVars, pageVars,
        Goto, AfterWrite, NotifyAll, Start, Changed, Due, SetFetch
<1>1. ASSUME NEW w \in Handler, NEW fields \in SUBSET Field \ {{}}, Report(w, fields) PROVE NoWakeUpIsLost'
  BY <1>1 DEF Report
<1>2. ASSUME NEW w \in Writer, Mark(w) PROVE NoWakeUpIsLost'
  BY <1>2 DEF Mark
<1>3. ASSUME NEW w \in Writer, Write(w) PROVE NoWakeUpIsLost'
  BY <1>3 DEF Write
<1>4. ASSUME NEW w \in Writer, Publish(w) PROVE NoWakeUpIsLost'
  BY <1>4 DEF Publish
<1>5. ASSUME NEW p \in Page, Open(p) PROVE NoWakeUpIsLost'
  BY <1>5 DEF Open
<1>6. ASSUME NEW p \in Page, Check(p) PROVE NoWakeUpIsLost'
  BY <1>6 DEF Check
<1>7. ASSUME NEW p \in Page, Send(p) PROVE NoWakeUpIsLost'
  BY <1>7 DEF Send
<1>8. ASSUME NEW p \in Page, Keepalive(p) PROVE NoWakeUpIsLost'
  BY <1>8 DEF Keepalive
<1>9. ASSUME NEW p \in Page, Break(p) PROVE NoWakeUpIsLost'
  BY <1>9 DEF Break
<1>10. ASSUME NEW p \in Page, Take(p) PROVE NoWakeUpIsLost'
  BY <1>10 DEF Take
<1>11. ASSUME NEW p \in Page, NEW k \in Slot, TimerFires(p, k) PROVE NoWakeUpIsLost'
  BY <1>11 DEF TimerFires
<1>12. ASSUME NEW p \in Page, NEW k \in Slot, Refresh(p, k) PROVE NoWakeUpIsLost'
  BY <1>12 DEF Refresh
<1>13. ASSUME NEW p \in Page, NEW k \in Slot, Answer(p, k) PROVE NoWakeUpIsLost'
  BY <1>13 DEF Answer
<1>14. ASSUME NEW p \in Page, NEW k \in Slot, Show(p, k) PROVE NoWakeUpIsLost'
  BY <1>14 DEF Show
<1>15. ASSUME NEW p \in Page, NEW k \in Slot, Fail(p, k) PROVE NoWakeUpIsLost'
  BY <1>15 DEF Fail
<1>16. CASE UNCHANGED vars
  BY <1>16 DEF vars
<1> QED
  BY <1>1, <1>2, <1>3, <1>4, <1>5, <1>6, <1>7, <1>8, <1>9,
     <1>10, <1>11, <1>12, <1>13, <1>14, <1>15, <1>16
  DEF Next, WriterStep, StreamStep, PageStep

(* The invariant of the proofs.                                               *)
LEMMA Inductive == Spec => []ReportInv
<1>1. ReportInv /\ [Next]_vars => ReportInv'
  BY TypeStep, OnTheirWayStep, WakeStep DEF ReportInv
<1> QED BY InitReports, <1>1, PTL DEF Spec

(* Every variable keeps its type, and no stream has seen a revision that has   *)
(* not been published (EventBroker).                                           *)
THEOREM TypeCorrect == Spec => []TypeOK
<1>1. ReportInv => TypeOK
  BY DEF ReportInv
<1> QED BY Inductive, <1>1, PTL

(* Whatever a stream has not told its page of is about to be published, has    *)
(* been published since, or is about to be sent: no interleaving of writers    *)
(* and streams drops a change (_status, _events, _set_online, EventBroker,     *)
(* send_events).                                                               *)
THEOREM NoChangeIsDropped == Spec => []ChangesAreOnTheirWay
<1>1. ReportInv => ChangesAreOnTheirWay
  BY DEF ReportInv
<1> QED BY Inductive, <1>1, PTL

(* A stream that sleeps has seen the last revision (EventBroker.wait).         *)
THEOREM SleepersAreUpToDate == Spec => []NoWakeUpIsLost
<1>1. ReportInv => NoWakeUpIsLost
  BY DEF ReportInv
<1> QED BY Inductive, <1>1, PTL
===============================================================================
