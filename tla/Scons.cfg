\* scons -j 2 on eight shapes of graphs, each with several sets of current
\* and of cached files, with and without -k.  The process may exit while a
\* daemon thread waits for a task, so the end of the build is no deadlock.
CONSTANTS
    Node <- SixNodes
    NoNode = NoNode
    Builds <- SomeBuilds
    CacheSize <- Sizes
    CacheLimit = 3
    Interval = 3
    Worker = {w1, w2}
SPECIFICATION Spec
INVARIANTS
    EngineInv
    OncePerBuild
    ChildrenSettled
    SuccessMeansBuilt
    CyclesAreReal
PROPERTIES
    PurgeKeepsLimit
    BuildEnds
CHECK_DEADLOCK FALSE
