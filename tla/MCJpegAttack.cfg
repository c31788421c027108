CONSTANTS
    NumColors = 1
    UsizeMax <- MCUsizeMax
    HasAexNotify = TRUE
    DataPages <- MCDataPages
    CrossPageLoads = TRUE
    RegisterOnly = TRUE
    MaxRows = 2
    MaxBlocks = 2
    MaxLoads = 3
    MaxFaultsPerInstr = 4
SPECIFICATION Spec
CHECK_DEADLOCK FALSE
INVARIANTS
    TypeOK
    NextPagesRevoked
    InstructionFaultsBounded
