SPECIFICATION FairSpec
CONSTANTS
    e1 = e1
    e2 = e2
    v1 = v1
    t1 = t1
    t2 = t2
    Ids <- MCIds
    Channels <- MCChannels
    ChannelOf <- MCChannelOf
    Texts <- MCTexts
    Absent = Absent
    NoRecord = NoRecord
    NoCheckpoint = NoCheckpoint
    Graphs0 <- MCGraphs0
    BatchSize = 1
    ScopedRemovals = TRUE
    MaxWrites = 2
    MaxFaults = 1
INVARIANTS TypeOK AlignedIsExact AlignedIsComplete CheckpointIsBacked
PROPERTIES Heals
CHECK_DEADLOCK FALSE
