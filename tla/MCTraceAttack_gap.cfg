CONSTANTS
    NumColors = 1
    UsizeMax <- MCUsizeMax
    HasAexNotify = FALSE
    DataPages <- MCDataPages
    CrossPageLoads = FALSE
    RegisterOnly = TRUE
    MaxRows = 2
    MaxBlocks = 2
    MaxLoads = 3
    MaxFaultsPerInstr = 4
    MaxTraceSteps = 16
INIT TraceInit
NEXT TraceNext
CHECK_DEADLOCK FALSE
INVARIANTS
    SameReconstruction
