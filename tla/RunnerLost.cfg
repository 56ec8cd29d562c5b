\* The scheduler may lose a test.
CONSTANTS
    a = a
    b = b
    e1 = e1
    e2 = e2
    x1 = x1
    x2 = x2
    Tests <- TwoTests
    AlwaysRun = {}
    DirData = {}
    TargetSets <- AnyTargets
    Envs = {e1}
    Args = {x1}
    Times = {0}
    Interval = 1
    MaxRev = 0
    Outcomes = {"pass", "fail", "lost"}
    MayAbort = FALSE
SPECIFICATION Spec
INVARIANTS
    GreenMeansPassed
