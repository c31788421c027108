CONSTANTS
    NumColors = 1
    UsizeMax <- MCUsizeMax
    HasAexNotify = TRUE
    DataPages <- MCDataPages
    CrossPageLoads = FALSE
    RegisterOnly = FALSE
    MaxRows = 2
    MaxBlocks = 2
    MaxLoads = 3
    MaxFaultsPerInstr = 4
    MaxTraceSteps = 40
INIT TraceInit
NEXT TraceNext
CHECK_DEADLOCK FALSE
INVARIANTS
    SameReconstruction
