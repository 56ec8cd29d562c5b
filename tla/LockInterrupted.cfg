\* Ctrl-C: the next blade may start beside the scons of the last one.
CONSTANTS
    b1 = b1
    b2 = b2
    b3 = b3
    None = None
    Blades <- TwoBlades
    Commands = {"build"}
    MayInterrupt = TRUE
    MayKill = FALSE
SPECIFICATION Spec
INVARIANTS
    OneBuild
