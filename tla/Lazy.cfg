CONSTANTS
    Object <- ThreeObjects
    Thread = {main, t2}
    Main = main
    Programs <- SomePrograms
    MaxCalls = 3
    MaxRounds = 2
SPECIFICATION Spec
INVARIANTS
    ReturnsLive
    RegisteredOnce
    UsedOutlivesUser
    HangsOnlyOnNewUse
PROPERTIES
    EndsOrHangs
CHECK_DEADLOCK FALSE
