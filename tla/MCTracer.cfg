CONSTANTS
    EnclPages <- MCEnclPages
    Instructions <- MCInstructions
    SetupStates <- MCSetupStates
    Wires = {0, 1, 2, 3, 4}
    Channels <- MCChannels
    WriteErip = TRUE
    EripWidth = 4
    Rips = {0, 9}
    MaxSteps = 4
INIT Init
NEXT Next
INVARIANTS
    StepShowsInstruction
CHECK_DEADLOCK FALSE
