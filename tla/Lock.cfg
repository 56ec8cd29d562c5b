\* Every command, Ctrl-C and SIGKILL.
CONSTANTS
    b1 = b1
    b2 = b2
    b3 = b3
    None = None
    Blades <- ThreeBlades
    Commands = {"build", "sconsOnly", "test", "testSconsOnly", "query"}
    MayInterrupt = TRUE
    MayKill = TRUE
SPECIFICATION FairSpec
INVARIANTS
    OwnScript
    NoLitter
PROPERTIES
    EveryBladeEnds
