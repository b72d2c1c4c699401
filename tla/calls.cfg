\* Two projects served by one process, on stdio or inside the web service.
SPECIFICATION FairSpec
CONSTANTS
    a = a  b = b  dbA = dbA  dbB = dbB  dbX = dbX
    Cwd = cwd  None = none
    Projects <- MCProjects
    DefaultDb <- MCDefaultDb
    OwnDbs <- MCOwnDbs
    GlobalEnv = FALSE
    Hosts <- MCHosts
    MaxCalls = 3  MaxRead = 2  MaxChanges = 1
INVARIANTS TypeOK WaitsForRoots EnvRestored ProjectionsApart
PROPERTIES WritesStayHome InOrder AlignsItsProject CallsAnswered
CHECK_DEADLOCK FALSE
