----------------------------- MODULE MCBuildLock -----------------------------
(* Instances of BuildLock for TLC.                                          *)
EXTENDS BuildLock

CONSTANTS b1, b2, b3

TwoBlades == {b1, b2}
ThreeBlades == {b1, b2, b3}
==============================================================================
