SPECIFICATION Spec
CONSTANTS
    u1 = u1
    u2 = u2
    u3 = u3
    Users <- TwoUsers
    Stealers <- TwoUsers
    NoFile = NoFile
    Orphan = Orphan
    FileErrors = FALSE
    SlowHolders = FALSE
    MaxCrashes = 0
    MaxUses = 2
INVARIANTS MutualExclusion
CHECK_DEADLOCK FALSE
