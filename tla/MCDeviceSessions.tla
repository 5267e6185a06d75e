--------------------------- MODULE MCDeviceSessions ---------------------------
(* Instances of DeviceSessions for TLC.                                      *)
EXTENDS DeviceSessions, TLC

CONSTANTS m1, s1, s2

(* All connections speak for one MAC, and are then interchangeable.          *)
OneMac == [s \in Session |-> m1]
SessionSymmetry == Permutations(Session)

(* The liveness run starts with its devices enrolled.                        *)
ListedInit == Init /\ device = [m \in Mac |-> TRUE]
ListedSpec == ListedInit /\ [][Next]_vars /\ Fairness
===============================================================================
