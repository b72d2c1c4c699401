SPECIFICATION Spec
CONSTANTS
    s1 = s1
    s2 = s2
    v1 = v1
    v2 = v2
    v3 = v3
    few = few
    more = more
    Servers <- TwoServers
    Contents <- TwoContents
    Skeleton <- SameIds
    Free = Free
    None = None
    NoDigest = NoDigest
    Never = Never
    MaxChanges = 2
    MaxCalls = 2
    MaxCrashes = 0
SYMMETRY Symmetry
INVARIANT BehindIsNoticed
CHECK_DEADLOCK FALSE
