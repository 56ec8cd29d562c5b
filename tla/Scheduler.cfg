\* Two workers, three ordinary tests and two exclusive ones, one test without
\* an entry in tests_run_map; workers may die of an exception.
CONSTANTS
    t1 = t1
    t2 = t2
    t3 = t3
    t4 = t4
    t5 = t5
    NoJob = NoJob
    Tests <- FiveTests
    Exclusive = {t4, t5}
    Tracked = {t1, t2, t3, t4}
    Jobs = 2
    CpuCores = 1
    MaxWorkerThreads = 16
    ReturnCodes = {0, 1}
    MayRaise = TRUE
SPECIFICATION FairSpec
INVARIANTS
    EachTestInOnePlace
    ExclusiveAlone
    SummaryAgrees
    UnrunOnlyAfterLosses
PROPERTIES
    ImplementsBatch
    ReturnsOrHangs
    OrdinaryTestsRun
\* A worker may hang in get() after Ctrl-C: the process really may stop.
CHECK_DEADLOCK FALSE
