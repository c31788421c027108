CONSTANTS
    Attacker = "Stealthy"
    ObservePtes = TRUE
    NoPrefetch = TRUE
    TLBKind = "SetAssociative"
    NumSets = 2
    WaysPerSet = 1
    EnclPages <- MCEnclPages
    Instructions <- MCInstructions
    PamActive <- MCPamActive
    StackPage = 4
    UpdateCodePage = 1
    CounterPage = 2
    PamPage = 3
    MaxSteps = 10
SPECIFICATION Spec
CHECK_DEADLOCK FALSE
PROPERTIES
    FrameSound
    FrameComplete
