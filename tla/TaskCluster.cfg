SPECIFICATION Spec
CONSTANTS
    o1 = o1
    o2 = o2
    i1 = i1
    i2 = i2
    t1 = t1
    t2 = t2
    c1 = c1
    c2 = c2
    Task = {t1}
    Owner = {o1, o2}
    Instance = {i1, i2}
    Call = {c1, c2}
    Key = {"k"}
    OwnerOf <- MCOwnerOf
    RunsAt <- MCRunsAt
    HasBus = TRUE
    HostStore = TRUE
    UnawaitedAsks = FALSE
    MaxAsks = 2
SYMMETRY CallSymmetry
INVARIANTS
    TypeOK
    TokenFollowsRecord
    AnswerMatchesRequest
    DetachedIsSettled
    ForeignReadsAbsent
PROPERTY
    ImplementsLifecycle
