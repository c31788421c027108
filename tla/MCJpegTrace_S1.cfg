CONSTANTS
    NumColors = 1
    UsizeMax <- MCUsizeMax
    Aex = FALSE
    Pages = {}
    MaxSteps = 13
    Script <- S1Script
SPECIFICATION Spec
INVARIANTS
    S1Reconstruction
