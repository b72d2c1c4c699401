SPECIFICATION FairSpec
CONSTANTS
    a = a
    d = d
    v1 = v1
    v2 = v2
    short = short
    long = long
    entry = entry
    Objects <- MCObjects
    Diagrams <- MCDiagrams
    Views <- MCViews
    Texts <- MCTexts
    Items <- MCItems
    Absent = Absent
    Keep = Keep
    Identity <- MCIdentity
    Loses <- LosingPairs
    Edits <- MCEdits
    Given <- MCGiven
    Depth = 2
    Pipelined = TRUE
    LockBusy = TRUE
    FileErrors = TRUE
    MaxRequests = 4
    MaxAgentWrites = 1
INVARIANTS TypeOK 
PROPERTIES RequestsAnswered
CHECK_DEADLOCK FALSE
