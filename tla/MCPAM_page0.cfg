CONSTANTS
    NumPages = 4
    TrackedPages <- MCAllPages
    PwsSize = 2
    MaxCounter <- MCMaxCounter
SPECIFICATION Spec
INVARIANTS
    MirrorHoldsMostRecent
