CONSTANTS
    NumColors = 3
    UsizeMax <- MCUsizeMax
    UseOcalls = TRUE
    MaxCalls = 8
SPECIFICATION Spec
CHECK_DEADLOCK FALSE
INVARIANTS
    OcallLayout
