\* Every order of every small dependency graph, loops and missing targets included.
CONSTANTS
    Targets <- FourTargets
    Names <- FiveNames
    Graphs <- SomeGraphs
    Type <- FourTypes
    Keys <- FourTargets
    Pairlists <- AnyPairlists
SPECIFICATION AnalysisSpec
INVARIANTS
    ExpansionIsClosure
    LinkOrder
    LoopsFound
    OptionsReachAll
    DependenciesFirst
    TakenAreFree
    EveryTargetInOrder
