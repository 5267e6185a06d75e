---------------------------- MODULE MCHABridge ----------------------------
(* HABridge on small instances: start() and up to three saves.              *)
EXTENDS HABridge, TLC

CONSTANTS main, save1, save2, save3, none, off, home, wild

Callers == {main, save1, save2}
MoreCallers == {main, save1, save2, save3}
TwoCallers == {main, save1}
AnyValue == {off, home, wild}
Plain == {off, home}
Refused == {wild}
Nothing == {}

SaveSymmetry == Permutations({save1, save2, save3})
=============================================================================
