CONSTANTS
    Worker = {w1, w2, w3}
    Owner = o
    Closure <- FiveClosures
    Plans <- SomePlans
SPECIFICATION Spec
INVARIANTS
    Conserved
    AllExecuted
    QueueInBounds
PROPERTIES
    EndsOrStarves
CHECK_DEADLOCK FALSE
