SPECIFICATION FairSpec
CONSTANTS
    s1 = s1
    s2 = s2
    q1 = q1
    q2 = q2
    Servers <- MCServers
    Queries <- MCQueries
    Foreign <- MCForeign
    User = User
    Nested = Nested
    Free = Free
    Dead = Dead
    WaitLimit = 1
    StaleLimit = 2
    FileErrors = TRUE
    MaxWork = 2
    MaxEvents = 1
INVARIANTS TypeOK OneAlignment
PROPERTIES RefusedForAReason QueriesAnswered
CHECK_DEADLOCK FALSE
