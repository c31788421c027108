CONSTANTS
    NumPages = 4
    TrackedPages <- MCTrackedPages
    PwsSize = 1
    MaxCounter <- MCMaxCounter
SPECIFICATION Spec
INVARIANTS
    MirrorHoldsMostRecent
