---------------------------- MODULE MCTestRunner ----------------------------
(* Instances of TestRunner for TLC.                                        *)
EXTENDS TestRunner, TLC

CONSTANTS a, b, e1, e2, x1, x2

TwoTests == {a, b}

(* Commands that name one test or both, and commands that may leave out a. *)
AnyTargets == {{a}, {b}, {a, b}}
SomeTargets == {{b}, {a, b}}

TwoEnvs == {e1, e2}
EnvSymmetry == Permutations(TwoEnvs)
=============================================================================
