CONSTANTS
    NumColors = 3
    UsizeMax <- MCUsizeMax
    Aex = FALSE
    Pages <- MCPages
    MaxSteps = 18
    Script <- NoScript
SPECIFICATION Spec
INVARIANTS
    TypeOK
    RowLaw
    ColorsInTurn
PROPERTIES
    BlockCommitLaw
