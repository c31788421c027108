CONSTANTS
    NumPages = 4
    TrackedPages <- MCTrackedPages
    PwsSize = 2
    MaxCounter <- MCMaxCounter
SPECIFICATION Spec
INVARIANTS
    TypeOK
    MirrorHoldsMostRecent
