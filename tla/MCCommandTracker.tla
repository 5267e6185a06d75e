-------------------------- MODULE MCCommandTracker --------------------------
(* CommandTracker on small instances: one device with two connections.     *)
EXTENDS CommandTracker

CONSTANTS m1, s1, s2, r1, r2, main, get, none

OneMac == {m1}
TwoSessions == {s1, s2}
SameDevices == [s \in Session |-> m1]
OnePart == {main}
TwoReqs == {r1, r2}
=============================================================================
