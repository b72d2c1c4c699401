SPECIFICATION FairSpec
CONSTANTS
    u1 = u1
    u2 = u2
    u3 = u3
    Users <- AllUsers
    Stealers <- TwoUsers
    NoFile = NoFile
    Orphan = Orphan
    FileErrors = TRUE
    SlowHolders = TRUE
    MaxCrashes = 1
    MaxUses = 2
INVARIANTS TypeOK SoundUntilUsurped
PROPERTIES OnlyStealersUsurp WaitEnds OrphanIsRemoved
CHECK_DEADLOCK FALSE
