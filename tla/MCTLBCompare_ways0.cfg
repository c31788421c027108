CONSTANTS
    Pages <- MCPages
    Perms <- MCPerms
    NumSets = 2
    WaysPerSet = 0
SPECIFICATION Spec
INVARIANTS
    TypeOK
