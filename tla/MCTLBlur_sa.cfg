CONSTANTS
    Attacker = "SingleStep"
    ObservePtes = TRUE
    NoPrefetch = FALSE
    TLBKind = "SetAssociative"
    NumSets = 2
    WaysPerSet = 2
    NumPages = 8
    TrackedPages <- MCTrackedPages
    PwsSize = 2
    MaxCounter = 4
    VictimInstructions <- MCVictimInstructions
    StackPage = 4
    UpdateCodePage = 1
    CounterPage = 2
    PamPage = 3
    MaxSteps = 12
SPECIFICATION Spec
CHECK_DEADLOCK FALSE
INVARIANTS
    TypeOK
PROPERTIES
    FrameSound
    FrameComplete
    WorkingSetHidden
