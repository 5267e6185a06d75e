------------------------------ MODULE DeviceSlot ------------------------------
(* What the session table of the device MQTT server promises, with no        *)
(* threads, sockets or files in sight: a MAC is a slot that at most one      *)
(* connection owns.  A connection comes to own the slot of its MAC at most   *)
(* once, taking it from whoever had it, and once it has lost the slot it     *)
(* never has it again.                                                       *)
EXTENDS FiniteSets

CONSTANTS Mac, Session, MacOf, None

VARIABLES owner,  \* [Mac -> Session \cup {None}]
          fresh   \* the connections that have never owned a slot and still may

slotVars == <<owner, fresh>>

SlotInit == /\ owner = [m \in Mac |-> None]
            /\ fresh = Session

(* A connection takes the slot of its MAC, whoever owned it.                 *)
Claim(s) == /\ s \in fresh
            /\ fresh' = fresh \ {s}
            /\ owner' = [owner EXCEPT ![MacOf[s]] = s]

(* The owner of a slot loses it.                                             *)
Release(m) == /\ owner[m] # None
              /\ owner' = [owner EXCEPT ![m] = None]
              /\ UNCHANGED fresh

(* A connection is turned away before it owned anything.                     *)
Reject(s) == /\ fresh' = fresh \ {s}
             /\ UNCHANGED owner

(* The process dies: every slot is free, and so is no connection.            *)
Crash == /\ owner' = [m \in Mac |-> None]
         /\ fresh' \subseteq fresh

SlotNext == \/ \E s \in Session : Claim(s) \/ Reject(s)
            \/ \E m \in Mac : Release(m)
            \/ Crash

SlotSpec == SlotInit /\ [][SlotNext]_slotVars
===============================================================================
