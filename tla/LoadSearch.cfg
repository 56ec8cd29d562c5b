\* Small source trees, whole and damaged, and the kinds of command lines.
CONSTANTS
    d1 = d1
    d2 = d2
    d3 = d3
    a1 = a1
    a2 = a2
    b = b
    c = c
    lib = lib
    Dirs <- ThreeDirs
    Targets <- FourTargets
    SystemLibs <- OneLib
    DirOf <- TargetDirs
    Worlds <- SomeTrees
    CommandLines <- SomeCommands
SPECIFICATION FairSpec
INVARIANTS
    RelatedIsLeast
    ErrorsAreReal
    OnlyNeededBuildFiles
PROPERTIES
    LoadingEnds
