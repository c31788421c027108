CONSTANTS
    Attacker = "PageFault"
    ObservePtes = TRUE
    NoPrefetch = FALSE
    TLBKind = "SetAssociative"
    NumSets = 2
    WaysPerSet = 2
    EnclPages <- MCEnclPages
    Instructions <- MCInstructions
    PamActive <- MCPamActive
    StackPage = 4
    UpdateCodePage = 1
    CounterPage = 2
    PamPage = 3
    MaxSteps = 10
SPECIFICATION Spec
CHECK_DEADLOCK FALSE
PROPERTIES
    FrameSound
    FrameComplete
