SPECIFICATION GraphSpec
CONSTANTS
    m1 = m1
    web = web
    a = a
    b = b
    Users <- ServerAndWeb
    Stealers <- OneServer
    NoFile = NoFile
    Orphan = Orphan
    FileErrors = TRUE
    SlowHolders = TRUE
    MaxCrashes = 1
    MaxUses = 2
    Objects <- TwoObjects
SYMMETRY ObjectSymmetry
INVARIANTS GraphTypeOK NoLostUpdateUntilUsurped BaseIsCurrent RemovalsRecordedWithoutCrash
PROPERTIES LinearSpec
CHECK_DEADLOCK FALSE
