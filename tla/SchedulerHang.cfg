\* Two workers: one may be left in a get() nobody answers.
CONSTANTS
    t1 = t1
    t2 = t2
    t3 = t3
    t4 = t4
    t5 = t5
    NoJob = NoJob
    Tests <- ThreeTests
    Exclusive = {t3}
    Tracked = {t1, t2, t3}
    Jobs = 2
    CpuCores = 1
    MaxWorkerThreads = 16
    ReturnCodes = {0, 1}
    MayRaise = FALSE
SPECIFICATION FairSpec
PROPERTIES
    EventuallyReturns
CHECK_DEADLOCK FALSE
