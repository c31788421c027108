CONSTANTS
    NumColors = 1
    UsizeMax <- MCUsizeMax
    HasAexNotify = FALSE
    DataPages <- MCDataPages
    CrossPageLoads = FALSE
    RegisterOnly = TRUE
    MaxRows = 1
    MaxBlocks = 1
    MaxLoads = 2
    MaxFaultsPerInstr = 4
SPECIFICATION Spec
CHECK_DEADLOCK FALSE
INVARIANTS
    ImageRenders
