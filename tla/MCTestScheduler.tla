-------------------------- MODULE MCTestScheduler --------------------------
(* Instances of TestScheduler for TLC.                                     *)
EXTENDS TestScheduler, TLC

CONSTANTS t1, t2, t3, t4, t5

ThreeTests == {t1, t2, t3}
FiveTests == {t1, t2, t3, t4, t5}
=============================================================================
