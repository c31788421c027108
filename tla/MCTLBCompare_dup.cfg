CONSTANTS
    Pages <- MCPages
    Perms <- MCPerms
    NumSets = 2
    WaysPerSet = 2
SPECIFICATION Spec
INVARIANTS
    OneValidEntryPerPage
