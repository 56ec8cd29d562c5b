\* scons -j 2 with a cache that holds a file as large as the limit.
CONSTANTS
    Node <- SixNodes
    NoNode = NoNode
    Builds <- LargeFile
    CacheSize <- Sizes
    CacheLimit = 3
    Interval = 3
    Worker = {w1, w2}
SPECIFICATION Spec
PROPERTIES
    CacheLimited
CHECK_DEADLOCK FALSE
