SPECIFICATION Spec
CONSTANTS
    None = None
    Garbled = Garbled
    Repeated = Repeated
    Tools = {1, 2, 3, 4}
    PageSize = 2
    Absent = None
    Callers = {g1, p1}
    Gets = {g1}
    Loopback = FALSE
    RefreshAfter = 2
    Life = 3
    MaxDelay = 1
    MaxMints = 3
    Urls <- MCUrls
    Answers = {{"public"}, {"public", "denied"}}
    Policies <- MCPolicies
    DeniedIps = {"denied"}
    MaxRedirects = 2
    Idle = 2
    Total = 3
    MaxBody = 2
    Threads = {t1, t2}
    Events = {"e"}
    Keys = {"k"}
    Rules <- MCRules
    NoRule = NoRule
    Analysed = {"e"}
    Window = 2
    Interval = 2
    MaxStall = 1
    MaxEmits = 3
    Slack = {"s"}
    Mails = {"m"}
    Captures = {"c"}
    Uploads = {"f"}
    MaxRetries = 3
    MaxAttempts = 3
INVARIANTS
    RequestsReadOneWay
    ServedAsAdvertised
    CallersToldApart
    OutwardAsWritten
    PagesSeeAll
    CallsAreSound
    FetchStaysInside
    AlertsHandedOnce
    SentOnce
PROPERTIES
    CacheNeverGoesBack
    EverythingEnds
CHECK_DEADLOCK FALSE
