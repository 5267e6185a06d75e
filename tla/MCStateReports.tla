--------------------------- MODULE MCStateReports ---------------------------
(* StateReports on small instances: one or two fields, a connection's thread *)
(* and a thread of the poller or of a timer, and a page.                     *)
EXTENDS StateReports

CONSTANTS f1, f2, w1, w2, p1, k1, k2, nothing, asked

OneField == {f1}
TwoFields == {f1, f2}
Writers == {w1, w2}
OneHandler == {w1}
OnePage == {p1}
OneSlot == {k1}
TwoSlots == {k1, k2}
=============================================================================
