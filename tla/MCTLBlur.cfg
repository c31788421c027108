CONSTANTS
    Attacker = "SingleStep"
    ObservePtes = TRUE
    NoPrefetch = FALSE
    TLBKind = "Perfect"
    NumSets = 1
    WaysPerSet = 1
    NumPages = 8
    TrackedPages <- MCTrackedPages
    PwsSize = 2
    MaxCounter = 5
    VictimInstructions <- MCVictimInstructions
    StackPage = 4
    UpdateCodePage = 1
    CounterPage = 2
    PamPage = 3
    MaxSteps = 13
SPECIFICATION Spec
CHECK_DEADLOCK FALSE
INVARIANTS
    TypeOK
    MirrorHoldsMostRecent
PROPERTIES
    FrameSound
    FrameComplete
    WorkingSetHidden
