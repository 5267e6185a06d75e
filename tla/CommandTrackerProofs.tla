------------------------ MODULE CommandTrackerProofs ------------------------
(* What holds of the commands of CommandTracker for any number of devices,   *)
(* connections, commands and threads, and for any limit.                     *)
EXTENDS CommandTracker, SequenceTheorems, TLAPS

(* A command is recorded, and has a status, once its thread has come to that. *)
Unrecorded ==
  \A r \in Req : pc[r] \in {"new", "send", "record", "refused"} =>
    status[r] = "none" /\ r \notin ToSet(log)

(* The commands that can be looked up are the last that were recorded.       *)
EndOf(short, long) ==
  /\ Len(short) <= Len(long)
  /\ \A i \in 1..Len(short) : short[i] = long[Len(long) - Len(short) + i]

Kept ==
  /\ EndOf(commands, log)
  /\ Len(commands) <= Limit
  /\ Len(commands) >= Keep \/ commands = log
  /\ \A r \in Req : status[r] = "dropped" <=> r \in ToSet(log) \ ToSet(commands)

(* A command has no settled-status timer before its thread is through.       *)
Unsettled == \A r \in Req : pc[r] # "done" => settledTimer[r] = "off"

(* A running timer is the one filed for its device.                          *)
Filed == \A r \in Req : settledTimer[r] = "armed" => settled[Device(r)] = r

(* One step keeps every verdict, or drops it.                               *)
VerdictsStand ==
  \A r \in Req : status[r] \in {"confirmed", "unconfirmed"}
                   => status'[r] \in {status[r], "dropped"}

CommandInv == TypeOK /\ Unrecorded /\ Kept /\ Unsettled /\ Filed

USE DEF Goto, Device, Waiting, AsksFor, StillCurrent, ArmConfirm, Offline

(* Whatever can be looked up has been recorded.                              *)
LEMMA InLog == ASSUME CommandInv PROVE ToSet(commands) \subseteq ToSet(log)
<1>1. commands \in Seq(Req) /\ log \in Seq(Req) /\ EndOf(commands, log)
  BY DEF CommandInv, TypeOK, Kept
<1>2. ASSUME NEW i \in 1..Len(commands) PROVE commands[i] \in ToSet(log)
  <2>1. Len(log) - Len(commands) + i \in 1..Len(log)
    BY <1>1 DEF EndOf
  <2>2. commands[i] = log[Len(log) - Len(commands) + i]
    BY <1>1 DEF EndOf
  <2> QED BY <1>1, <2>1, <2>2 DEF ToSet
<1> QED BY <1>1, <1>2 DEF ToSet

(* Appending adds one element.                                               *)
LEMMA AppendSet ==
  ASSUME NEW s \in Seq(Req), NEW r \in Req
  PROVE  /\ Append(s, r) \in Seq(Req)
         /\ ToSet(Append(s, r)) = ToSet(s) \cup {r}
<1>1. /\ Append(s, r) \in Seq(Req) /\ Len(Append(s, r)) = Len(s) + 1
      /\ \A i \in 1..Len(s) : Append(s, r)[i] = s[i]
      /\ Append(s, r)[Len(s) + 1] = r
  BY AppendProperties
<1>2. ASSUME NEW q PROVE q \in ToSet(Append(s, r)) <=> q \in ToSet(s) \cup {r}
  <2>1. ASSUME NEW i \in 1..Len(Append(s, r)) PROVE Append(s, r)[i] \in ToSet(s) \cup {r}
    <3>1. CASE i = Len(s) + 1
      BY <3>1, <1>1
    <3>2. CASE i \in 1..Len(s)
      BY <3>2, <1>1 DEF ToSet
    <3> QED BY <1>1, <3>1, <3>2
  <2>2. ASSUME NEW i \in 1..Len(s) PROVE s[i] \in ToSet(Append(s, r))
    <3>1. i \in 1..Len(Append(s, r)) /\ Append(s, r)[i] = s[i]
      BY <1>1
    <3> QED BY <3>1 DEF ToSet
  <2>3. r \in ToSet(Append(s, r))
    <3>1. Len(s) + 1 \in 1..Len(Append(s, r))
      BY <1>1
    <3> QED BY <1>1, <3>1 DEF ToSet
  <2> QED BY <2>1, <2>2, <2>3 DEF ToSet
<1> QED BY <1>1, <1>2

(* What pruning leaves: the last Keep commands.                              *)
LEMMA NewestOfAll ==
  ASSUME NEW all \in Seq(Req), Len(all) > Limit
  PROVE  /\ Newest(all) \in Seq(Req)
         /\ Len(Newest(all)) = Keep
         /\ EndOf(Newest(all), all)
         /\ ToSet(Newest(all)) \subseteq ToSet(all)
         /\ all[Len(all)] \in ToSet(Newest(all))
<1> DEFINE from == Len(all) - Keep + 1
<1>1. Len(all) \in Nat /\ Keep \in Nat /\ 0 < Keep /\ Keep <= Limit /\ Limit \in Nat
  BY ConstantsAssumption
<1>2. from \in Int /\ \A i \in from..Len(all) : i \in 1..Len(all) /\ all[i] \in Req
  BY <1>1
<1>3. /\ Newest(all) \in Seq(Req)
      /\ Len(Newest(all)) = Keep
      /\ \A i \in 1..Keep : Newest(all)[i] = all[from + i - 1]
  BY <1>1, <1>2, SubSeqProperties DEF Newest
<1>4. EndOf(Newest(all), all)
  BY <1>1, <1>3 DEF EndOf
<1>5. ToSet(Newest(all)) \subseteq ToSet(all)
  <2>1. ASSUME NEW i \in 1..Keep PROVE Newest(all)[i] \in ToSet(all)
    <3>1. from + i - 1 \in 1..Len(all)
      BY <1>1
    <3>2. all[from + i - 1] \in ToSet(all)
      BY <3>1 DEF ToSet
    <3> QED BY <1>3, <3>2
  <2> QED BY <1>3, <2>1 DEF ToSet
<1>6. all[Len(all)] \in ToSet(Newest(all))
  <2>1. Keep \in 1..Keep /\ from + Keep - 1 = Len(all)
    BY <1>1
  <2>2. Newest(all)[Keep] = all[from + Keep - 1]
    BY <1>3, <2>1
  <2>3. Keep \in 1..Len(Newest(all)) /\ Newest(all)[Keep] = all[Len(all)]
    BY <1>3, <2>1, <2>2
  <2> HIDE DEF from
  <2> QED BY <1>3, <2>3 DEF ToSet
<1> QED BY <1>3, <1>4, <1>5, <1>6

(* Recording a command, with or without pruning.                             *)
LEMMA Recording ==
  ASSUME CommandInv, NEW r \in Req, Record(r)
  PROVE  /\ commands' \in Seq(Req) /\ log' \in Seq(Req)
         /\ ToSet(commands') \subseteq ToSet(commands) \cup {r}
         /\ r \in ToSet(commands')
         /\ ToSet(log') = ToSet(log) \cup {r}
         /\ EndOf(commands', log')
         /\ Len(commands') <= Limit
         /\ Len(commands') >= Keep \/ commands' = log'
<1> DEFINE all == Append(commands, r)
<1> USE ConstantsAssumption
<1>1. commands \in Seq(Req) /\ log \in Seq(Req) /\ log' = Append(log, r)
  BY DEF CommandInv, TypeOK, Record
<1>2. /\ EndOf(commands, log) /\ Len(commands) <= Limit
      /\ Len(commands) >= Keep \/ commands = log
  BY DEF CommandInv, Kept
<1>3. /\ all \in Seq(Req) /\ ToSet(all) = ToSet(commands) \cup {r}
      /\ log' \in Seq(Req) /\ ToSet(log') = ToSet(log) \cup {r}
  BY <1>1, AppendSet
<1>4. /\ Len(all) = Len(commands) + 1 /\ Len(log') = Len(log) + 1
      /\ \A i \in 1..Len(commands) : all[i] = commands[i]
      /\ \A i \in 1..Len(log) : log'[i] = log[i]
      /\ all[Len(all)] = r /\ log'[Len(log')] = r
  BY <1>1, AppendProperties
<1>5. EndOf(all, log')
  <2>1. ASSUME NEW i \in 1..Len(all) PROVE all[i] = log'[Len(log') - Len(all) + i]
    <3>1. CASE i = Len(all)
      BY <1>1, <1>4, <3>1
    <3>2. CASE i \in 1..Len(commands)
      <4>1. Len(log) - Len(commands) + i \in 1..Len(log)
        BY <1>1, <1>2, <3>2 DEF EndOf
      <4>2. commands[i] = log[Len(log) - Len(commands) + i]
        BY <1>2, <3>2 DEF EndOf
      <4>3. Len(log') - Len(all) + i = Len(log) - Len(commands) + i
        BY <1>1, <1>4
      <4> QED BY <1>4, <3>2, <4>1, <4>2, <4>3
    <3>3. i = Len(all) \/ i \in 1..Len(commands)
      BY <1>1, <1>4
    <3> QED BY <3>1, <3>2, <3>3
  <2>2. Len(all) <= Len(log')
    BY <1>1, <1>2, <1>4 DEF EndOf
  <2> QED BY <2>1, <2>2 DEF EndOf
<1>6. CASE Len(all) > Limit
  <2>1. commands' = Newest(all)
    BY <1>6 DEF Record
  <2>2. /\ Newest(all) \in Seq(Req) /\ Len(Newest(all)) = Keep
        /\ EndOf(Newest(all), all) /\ ToSet(Newest(all)) \subseteq ToSet(all)
        /\ all[Len(all)] \in ToSet(Newest(all))
    BY <1>3, <1>6, NewestOfAll
  <2>3. EndOf(commands', log')
    <3>1. ASSUME NEW i \in 1..Keep
          PROVE  Newest(all)[i] = log'[Len(log') - Keep + i]
      <4>1. Newest(all)[i] = all[Len(all) - Keep + i] /\ Len(all) - Keep + i \in 1..Len(all)
        <5>1. Newest(all)[i] = all[Len(all) - Keep + i]
          BY <2>2 DEF EndOf
        <5>2. Len(all) \in Nat /\ Keep \in Nat /\ i \in Nat /\ 0 < i /\ i <= Keep /\ Keep <= Len(all)
          BY <1>3, <1>6
        <5> QED BY <5>1, <5>2
      <4>2. \A j \in 1..Len(all) : all[j] = log'[Len(log') - Len(all) + j]
        BY <1>5 DEF EndOf
      <4>3. all[Len(all) - Keep + i] = log'[Len(log') - Len(all) + (Len(all) - Keep + i)]
        BY <4>1, <4>2
      <4>4. Len(log') - Len(all) + (Len(all) - Keep + i) = Len(log') - Keep + i
        BY <1>3
      <4> QED BY <4>1, <4>3, <4>4
    <3>2. Keep <= Len(log')
      BY <1>3, <1>5, <1>6, <2>2 DEF EndOf
    <3> QED BY <2>1, <2>2, <3>1, <3>2 DEF EndOf
  <2> QED BY <1>3, <1>4, <2>1, <2>2, <2>3
<1>7. CASE ~(Len(all) > Limit)
  <2>1. commands' = all
    BY <1>7 DEF Record
  <2>2. r \in ToSet(all)
    BY <1>3
  <2>3. Len(all) >= Keep \/ all = log'
    <3>1. CASE commands = log
      BY <1>1, <3>1
    <3>2. CASE Len(commands) >= Keep
      BY <1>1, <1>4, <3>2
    <3> QED BY <1>2, <3>1, <3>2
  <2> QED BY <1>1, <1>3, <1>5, <1>7, <2>1, <2>2, <2>3
<1> QED BY <1>6, <1>7

(* Nothing has been sent at first.                                           *)
LEMMA InitCommands == Init => CommandInv
<1> SUFFICES ASSUME Init PROVE CommandInv
  OBVIOUS
<1> USE ConstantsAssumption DEF Init
<1>1. TypeOK
  BY DEF TypeOK
<1>2. Unrecorded /\ Kept /\ Unsettled /\ Filed
  BY DEF Unrecorded, Kept, EndOf, Unsettled, Filed, ToSet
<1> QED BY <1>1, <1>2 DEF CommandInv

(* No step breaks a type.                                                    *)
LEMMA TypeStep == ASSUME CommandInv, [Next]_vars PROVE TypeOK'
<1> USE ConstantsAssumption DEF CommandInv, TypeOK, table, sendVars, trackVars, settleVars
<1>1. ASSUME NEW r \in Req, NEW m \in Mac, NEW c \in Command \cup {Get}, Look(r, m, c) PROVE TypeOK'
  <2>1. CASE sessions[m] = None
    BY <1>1, <2>1 DEF Look
  <2>2. CASE sessions[m] # None
    <3>1. /\ sess' = [sess EXCEPT ![r] = sessions[m]] /\ cmd' = [cmd EXCEPT ![r] = c]
          /\ pc' = [pc EXCEPT ![r] = "send"] /\ UNCHANGED <<table, trackVars, settleVars>>
      BY <1>1, <2>2 DEF Look
    <3>2. sessions[m] \in Session /\ c # None
      BY <2>2, GetAssumption
    <3>3. sess' \in [Req -> Session \cup {None}] /\ cmd' \in [Req -> Command \cup {Get, None}]
      BY <3>1, <3>2
    <3>4. pc' \in [Req -> {"new", "send", "record", "arm", "settle", "done", "refused"}]
      BY <3>1
    <3>5. \A q \in Req : pc'[q] \notin {"new", "refused"} => sess'[q] # None /\ cmd'[q] # None
      BY <3>1, <3>2
    <3> QED BY <3>1, <3>3, <3>4, <3>5
  <2> QED BY <2>1, <2>2
<1>2. ASSUME NEW r \in Req, SenderStep(r) PROVE TypeOK'
  <2>1. CASE Send(r) BY <2>1 DEF Send
  <2>2. CASE Record(r)
    <3>1. commands' \in Seq(Req) /\ log' \in Seq(Req)
      BY <2>2, Recording
    <3>3. status' \in [Req -> {"none", "sent", "confirmed", "unconfirmed", "dropped"}]
      BY <2>2 DEF Record
    <3>4. pc' = [pc EXCEPT ![r] = "arm"] /\ pc[r] = "record"
      BY <2>2 DEF Record
    <3>5. UNCHANGED <<table, sess, cmd, confirmTimer, settleVars>>
      BY <2>2 DEF Record
    <3> QED BY <3>1, <3>3, <3>4, <3>5
  <2>3. CASE Arm(r) BY <2>3 DEF Arm
  <2>4. CASE Settle(r)
    <3>1. Device(r) \in Mac
      BY <2>4 DEF Settle
    <3>2. Cancelled(Device(r)) \in [Req -> {"off", "armed", "cancelled", "fired", "done"}]
      BY DEF Cancelled
    <3> QED BY <2>4, <3>1, <3>2 DEF Settle
  <2> QED BY <1>2, <2>1, <2>2, <2>3, <2>4 DEF SenderStep
<1>3. ASSUME NEW r \in Req, TimeOut(r) PROVE TypeOK'
  BY <1>3 DEF TimeOut
<1>4. ASSUME NEW r \in Req, SettledFires(r) PROVE TypeOK'
  BY <1>4 DEF SettledFires
<1>5. ASSUME NEW r \in Req, RunSettled(r) PROVE TypeOK'
  BY <1>5 DEF RunSettled
<1>6. ASSUME NEW m \in Mac, NEW state \in State, NEW isStatus \in BOOLEAN,
            Confirm(m, state, isStatus)
     PROVE TypeOK'
  BY <1>6 DEF Confirm
<1>7. CASE Table
  BY <1>7 DEF Table, Slot!Claim, Slot!Release
<1>8. CASE UNCHANGED vars
  BY <1>8 DEF vars, table, sendVars, trackVars, settleVars
<1> QED BY <1>1, <1>2, <1>3, <1>4, <1>5, <1>6, <1>7, <1>8 DEF Next, SettledStep

(* A command has no status before it is recorded.                            *)
LEMMA UnrecordedStep == ASSUME CommandInv, [Next]_vars PROVE Unrecorded'
<1> USE ConstantsAssumption DEF CommandInv, TypeOK, Unrecorded, table, sendVars, trackVars, settleVars
<1>1. ASSUME NEW r \in Req, NEW m \in Mac, NEW c \in Command \cup {Get}, Look(r, m, c) PROVE Unrecorded'
  BY <1>1 DEF Look
<1>2. ASSUME NEW r \in Req, SenderStep(r) PROVE Unrecorded'
  <2>1. CASE Send(r) BY <2>1 DEF Send
  <2>2. CASE Record(r)
    <3>1. pc' = [pc EXCEPT ![r] = "arm"]
      BY <2>2 DEF Record
    <3>2. ToSet(commands) \subseteq ToSet(log) /\ ToSet(log') = ToSet(log) \cup {r}
      BY <2>2, Recording, InLog
    <3>3. \A q \in Req : q \notin ToSet(commands) \cup {r} => status'[q] = status[q]
      BY <2>2 DEF Record
    <3> QED BY <3>1, <3>2, <3>3
  <2>3. CASE Arm(r) BY <2>3 DEF Arm
  <2>4. CASE Settle(r) BY <2>4 DEF Settle
  <2> QED BY <1>2, <2>1, <2>2, <2>3, <2>4 DEF SenderStep
<1>3. ASSUME NEW r \in Req, TimeOut(r) PROVE Unrecorded'
  BY <1>3 DEF TimeOut
<1>4. ASSUME NEW r \in Req, SettledFires(r) PROVE Unrecorded'
  BY <1>4 DEF SettledFires
<1>5. ASSUME NEW r \in Req, RunSettled(r) PROVE Unrecorded'
  BY <1>5 DEF RunSettled
<1>6. ASSUME NEW m \in Mac, NEW state \in State, NEW isStatus \in BOOLEAN,
            Confirm(m, state, isStatus)
     PROVE Unrecorded'
  BY <1>6 DEF Confirm
<1>7. CASE Table
  BY <1>7 DEF Table
<1>8. CASE UNCHANGED vars
  BY <1>8 DEF vars, table, sendVars, trackVars, settleVars
<1> QED BY <1>1, <1>2, <1>3, <1>4, <1>5, <1>6, <1>7, <1>8 DEF Next, SettledStep

(* Only recording a command changes what is recorded.                        *)
LEMMA KeptStep == ASSUME CommandInv, [Next]_vars PROVE Kept'
<1> USE ConstantsAssumption DEF CommandInv, TypeOK, Kept, table, sendVars, trackVars, settleVars
<1>1. ASSUME NEW r \in Req, NEW m \in Mac, NEW c \in Command \cup {Get}, Look(r, m, c) PROVE Kept'
  BY <1>1 DEF Look
<1>2. ASSUME NEW r \in Req, SenderStep(r) PROVE Kept'
  <2>1. CASE Send(r) BY <2>1 DEF Send
  <2>2. CASE Record(r)
    <3>1. /\ EndOf(commands', log') /\ Len(commands') <= Limit
          /\ Len(commands') >= Keep \/ commands' = log'
          /\ ToSet(commands') \subseteq ToSet(commands) \cup {r} /\ r \in ToSet(commands')
          /\ ToSet(log') = ToSet(log) \cup {r}
      BY <2>2, Recording
    <3>2. ToSet(commands) \subseteq ToSet(log)
      BY InLog
    <3>3. ASSUME NEW q \in Req
          PROVE  status'[q] = "dropped" <=> q \in ToSet(log') \ ToSet(commands')
      <4>1. CASE q \notin ToSet(commands) \cup {r}
        BY <2>2, <3>1, <3>2, <4>1 DEF Record
      <4>2. CASE q \in ToSet(commands) \cup {r} /\ q \notin ToSet(commands')
        BY <2>2, <3>1, <3>2, <4>2 DEF Record
      <4>3. CASE q \in ToSet(commands') /\ q = r
        BY <2>2, <3>1, <4>3 DEF Record
      <4>4. CASE q \in ToSet(commands') /\ q \in ToSet(commands) /\ q # r
        BY <2>2, <3>1, <4>4 DEF Record
      <4> QED BY <3>1, <4>1, <4>2, <4>3, <4>4
    <3> QED BY <3>1, <3>3
  <2>3. CASE Arm(r) BY <2>3 DEF Arm
  <2>4. CASE Settle(r) BY <2>4 DEF Settle
  <2> QED BY <1>2, <2>1, <2>2, <2>3, <2>4 DEF SenderStep
<1>3. ASSUME NEW r \in Req, TimeOut(r) PROVE Kept'
  BY <1>3 DEF TimeOut
<1>4. ASSUME NEW r \in Req, SettledFires(r) PROVE Kept'
  BY <1>4 DEF SettledFires
<1>5. ASSUME NEW r \in Req, RunSettled(r) PROVE Kept'
  BY <1>5 DEF RunSettled
<1>6. ASSUME NEW m \in Mac, NEW state \in State, NEW isStatus \in BOOLEAN,
            Confirm(m, state, isStatus)
     PROVE Kept'
  BY <1>6 DEF Confirm
<1>7. CASE Table
  BY <1>7 DEF Table
<1>8. CASE UNCHANGED vars
  BY <1>8 DEF vars, table, sendVars, trackVars, settleVars
<1> QED BY <1>1, <1>2, <1>3, <1>4, <1>5, <1>6, <1>7, <1>8 DEF Next, SettledStep

(* Only the last step of a switch command arms its settled-status timer.     *)
LEMMA UnsettledStep == ASSUME CommandInv, [Next]_vars PROVE Unsettled'
<1> USE ConstantsAssumption DEF CommandInv, TypeOK, Unsettled, table, sendVars, trackVars, settleVars
<1>1. ASSUME NEW r \in Req, NEW m \in Mac, NEW c \in Command \cup {Get}, Look(r, m, c) PROVE Unsettled'
  BY <1>1 DEF Look
<1>2. ASSUME NEW r \in Req, SenderStep(r) PROVE Unsettled'
  <2>1. CASE Send(r) BY <2>1 DEF Send
  <2>2. CASE Record(r) BY <2>2 DEF Record
  <2>3. CASE Arm(r) BY <2>3 DEF Arm
  <2>4. CASE Settle(r)
    <3>1. Device(r) \in Mac
      BY <2>4 DEF Settle
    <3>2. \A q \in Req : Cancelled(Device(r))[q] = "off" <=> settledTimer[q] = "off"
      BY DEF Cancelled
    <3>3. Cancelled(Device(r)) \in [Req -> {"off", "armed", "cancelled", "fired", "done"}]
      BY DEF Cancelled
    <3> QED BY <2>4, <3>1, <3>2, <3>3 DEF Settle
  <2> QED BY <1>2, <2>1, <2>2, <2>3, <2>4 DEF SenderStep
<1>3. ASSUME NEW r \in Req, TimeOut(r) PROVE Unsettled'
  BY <1>3 DEF TimeOut
<1>4. ASSUME NEW r \in Req, SettledFires(r) PROVE Unsettled'
  BY <1>4 DEF SettledFires
<1>5. ASSUME NEW r \in Req, RunSettled(r) PROVE Unsettled'
  BY <1>5 DEF RunSettled
<1>6. ASSUME NEW m \in Mac, NEW state \in State, NEW isStatus \in BOOLEAN,
            Confirm(m, state, isStatus)
     PROVE Unsettled'
  BY <1>6 DEF Confirm
<1>7. CASE Table
  BY <1>7 DEF Table
<1>8. CASE UNCHANGED vars
  BY <1>8 DEF vars, table, sendVars, trackVars, settleVars
<1> QED BY <1>1, <1>2, <1>3, <1>4, <1>5, <1>6, <1>7, <1>8 DEF Next, SettledStep

(* A timer replaced in settled_timers runs no more.                          *)
LEMMA FiledStep == ASSUME CommandInv, [Next]_vars PROVE Filed'
<1> USE ConstantsAssumption DEF CommandInv, TypeOK, Unsettled, Filed, Cancelled, table, sendVars, trackVars, settleVars
<1>1. ASSUME NEW r \in Req, NEW m \in Mac, NEW c \in Command \cup {Get}, Look(r, m, c) PROVE Filed'
  BY <1>1 DEF Look
<1>2. ASSUME NEW r \in Req, SenderStep(r) PROVE Filed'
  <2>1. CASE Send(r) BY <2>1 DEF Send
  <2>2. CASE Record(r) BY <2>2 DEF Record
  <2>3. CASE Arm(r) BY <2>3 DEF Arm
  <2>4. CASE Settle(r) BY <2>4 DEF Settle
  <2> QED BY <1>2, <2>1, <2>2, <2>3, <2>4 DEF SenderStep
<1>3. ASSUME NEW r \in Req, TimeOut(r) PROVE Filed'
  BY <1>3 DEF TimeOut
<1>4. ASSUME NEW r \in Req, SettledFires(r) PROVE Filed'
  BY <1>4 DEF SettledFires
<1>5. ASSUME NEW r \in Req, RunSettled(r) PROVE Filed'
  BY <1>5 DEF RunSettled
<1>6. ASSUME NEW m \in Mac, NEW state \in State, NEW isStatus \in BOOLEAN,
            Confirm(m, state, isStatus)
     PROVE Filed'
  BY <1>6 DEF Confirm
<1>7. CASE Table
  BY <1>7 DEF Table
<1>8. CASE UNCHANGED vars
  BY <1>8 DEF vars, table, sendVars, trackVars, settleVars
<1> QED BY <1>1, <1>2, <1>3, <1>4, <1>5, <1>6, <1>7, <1>8 DEF Next, SettledStep

(* Only a command without a verdict gets one.                                *)
LEMMA VerdictStep == ASSUME CommandInv, [Next]_vars PROVE VerdictsStand
<1> USE ConstantsAssumption DEF CommandInv, TypeOK, Unrecorded, VerdictsStand, table, sendVars, trackVars, settleVars
<1>1. ASSUME NEW r \in Req, NEW m \in Mac, NEW c \in Command \cup {Get}, Look(r, m, c) PROVE VerdictsStand
  BY <1>1 DEF Look
<1>2. ASSUME NEW r \in Req, SenderStep(r) PROVE VerdictsStand
  <2>1. CASE Send(r) BY <2>1 DEF Send
  <2>2. CASE Record(r) BY <2>2 DEF Record
  <2>3. CASE Arm(r) BY <2>3 DEF Arm
  <2>4. CASE Settle(r) BY <2>4 DEF Settle
  <2> QED BY <1>2, <2>1, <2>2, <2>3, <2>4 DEF SenderStep
<1>3. ASSUME NEW r \in Req, TimeOut(r) PROVE VerdictsStand
  BY <1>3 DEF TimeOut
<1>4. ASSUME NEW r \in Req, SettledFires(r) PROVE VerdictsStand
  BY <1>4 DEF SettledFires
<1>5. ASSUME NEW r \in Req, RunSettled(r) PROVE VerdictsStand
  BY <1>5 DEF RunSettled
<1>6. ASSUME NEW m \in Mac, NEW state \in State, NEW isStatus \in BOOLEAN,
            Confirm(m, state, isStatus)
     PROVE VerdictsStand
  BY <1>6 DEF Confirm
<1>7. CASE Table
  BY <1>7 DEF Table
<1>8. CASE UNCHANGED vars
  BY <1>8 DEF vars, table, sendVars, trackVars, settleVars
<1> QED BY <1>1, <1>2, <1>3, <1>4, <1>5, <1>6, <1>7, <1>8 DEF Next, SettledStep

(* The invariant of the proofs.                                              *)
LEMMA Inductive == Spec => []CommandInv
<1>1. CommandInv /\ [Next]_vars => CommandInv'
  BY TypeStep, UnrecordedStep, KeptStep, UnsettledStep, FiledStep DEF CommandInv
<1> QED BY InitCommands, <1>1, PTL DEF Spec

(* Every variable keeps its type, and no thread sends on a connection it     *)
(* has not found in the table (MQTTServer.command).                          *)
THEOREM TypeCorrect == Spec => []TypeOK
<1>1. CommandInv => TypeOK
  BY DEF CommandInv
<1> QED BY Inductive, <1>1, PTL

(* At most one settled-status timer of a device runs, and it is the one that *)
(* the next command cancels (_schedule_settled_status), whichever threads,   *)
(* connections and timers race.                                              *)
THEOREM OneTimer == Spec => []OneSettledTimer
<1>1. CommandInv => OneSettledTimer
  BY DEF CommandInv, Filed, OneSettledTimer
<1> QED BY Inductive, <1>1, PTL

(* The commands that can be looked up are the newest ones, at least Keep and *)
(* at most Limit of them, and exactly the others have lost their status      *)
(* (_command_sent), for every Keep and Limit and however many threads send.  *)
THEOREM NewestAreKept == Spec => []TheNewestAreKept
<1>1. ASSUME CommandInv PROVE TheNewestAreKept
  <2>1. /\ commands \in Seq(Req) /\ log \in Seq(Req) /\ EndOf(commands, log)
        /\ Len(commands) <= Len(log)
        /\ \A i \in 1..Len(commands) : commands[i] = log[Len(log) - Len(commands) + i]
    BY <1>1 DEF CommandInv, TypeOK, Kept, EndOf
  <2>2. /\ Reverse(commands) \in Seq(Req) /\ Len(Reverse(commands)) = Len(commands)
        /\ \A i \in 1..Len(commands) : Reverse(commands)[i] = commands[Len(commands) - i + 1]
    BY <2>1 DEF Reverse
  <2>3. /\ Reverse(log) \in Seq(Req) /\ Len(Reverse(log)) = Len(log)
        /\ \A i \in 1..Len(log) : Reverse(log)[i] = log[Len(log) - i + 1]
    BY <2>1 DEF Reverse
  <2>4. ASSUME NEW i \in 1..Len(commands) PROVE Reverse(commands)[i] = Reverse(log)[i]
    <3>1. Len(commands) - i + 1 \in 1..Len(commands) /\ i \in 1..Len(log)
      BY <2>1
    <3>2. commands[Len(commands) - i + 1] = log[Len(log) - Len(commands) + (Len(commands) - i + 1)]
      BY <2>1, <3>1
    <3>3. Len(log) - Len(commands) + (Len(commands) - i + 1) = Len(log) - i + 1
      BY <2>1
    <3> QED BY <2>2, <2>3, <3>1, <3>2, <3>3
  <2>5. IsSuffix(commands, log)
    <3> DEFINE n == Len(commands)
    <3>1. /\ SubSeq(Reverse(commands), 1, n) \in Seq(Req)
          /\ Len(SubSeq(Reverse(commands), 1, n)) = n
          /\ \A i \in 1..n : SubSeq(Reverse(commands), 1, n)[i] = Reverse(commands)[i]
      BY <2>1, <2>2
    <3>2. /\ SubSeq(Reverse(log), 1, n) \in Seq(Req)
          /\ Len(SubSeq(Reverse(log), 1, n)) = n
          /\ \A i \in 1..n : SubSeq(Reverse(log), 1, n)[i] = Reverse(log)[i]
      BY <2>1, <2>3
    <3>3. SubSeq(Reverse(commands), 1, n) = SubSeq(Reverse(log), 1, n)
      BY <2>4, <3>1, <3>2, SeqEqual
    <3> QED BY <2>1, <2>2, <2>3, <3>3 DEF IsSuffix, IsPrefix
  <2>6. ToSet(log) \subseteq Req
    BY <2>1 DEF ToSet
  <2> QED BY <1>1, <2>5, <2>6 DEF TheNewestAreKept, CommandInv, Kept
<1> QED BY Inductive, <1>1, PTL

(* A confirmed or unconfirmed command stays so until it is dropped           *)
(* (_mark_unconfirmed, _confirm_commands): no timer and no report, however   *)
(* late, changes a verdict.                                                  *)
THEOREM VerdictsAreFinal == Spec => VerdictIsFinal
<1>1. CommandInv /\ [Next]_vars => VerdictsStand
  BY VerdictStep
<1>2. CommandInv /\ [Next]_vars
      => [\A r \in Req : status[r] \in {"confirmed", "unconfirmed"}
                           => status'[r] \in {status[r], "dropped"}]_vars
  BY <1>1 DEF VerdictsStand
<1> QED BY Inductive, <1>2, PTL DEF Spec, VerdictIsFinal
=============================================================================
