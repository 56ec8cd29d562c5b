\* Any sequence of runs, of both tests or of b alone, with edits, aborts, a changing
\* environment and a moving clock; the testdata of b are a directory.
CONSTANTS
    a = a
    b = b
    e1 = e1
    e2 = e2
    x1 = x1
    x2 = x2
    Tests <- TwoTests
    AlwaysRun = {}
    DirData = {b}
    TargetSets <- SomeTargets
    Envs <- TwoEnvs
    Args = {x1}
    Times = {0, 1}
    Interval = 1
    MaxRev = 1
    Outcomes = {"pass", "fail"}
    MayAbort = TRUE
SYMMETRY EnvSymmetry
SPECIFICATION Spec
INVARIANTS
    SkippedTestHasPassed
    GreenMeansPassed
    RecordedFailureIsRerun
