SPECIFICATION FairSpecTtl
CONSTANTS
    o1 = o1
    o2 = o2
    i1 = i1
    i2 = i2
    t1 = t1
    t2 = t2
    c1 = c1
    c2 = c2
    Task = {t1, t2}
    Owner = {o1}
    Instance = {i1}
    Call = {c1}
    Key = {}
    OwnerOf <- MCOwnerOf
    RunsAt <- MCRunsAt
    HasBus = FALSE
    HostStore = TRUE
    UnawaitedAsks = FALSE
    MaxAsks = 0
PROPERTY
    StopReachesOperation
