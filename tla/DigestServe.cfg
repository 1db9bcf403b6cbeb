SPECIFICATION FairSpec
CONSTANTS
    e1 = e1
    e2 = e2
    e3 = e3
    e4 = e4
    Event = {e1, e2, e3, e4}
    Key = {"same", "other"}
    KeyOf <- MCKeyOf
    BatchWindow = 1
    DedupWindow = 3
    Minute = 2
    MaxMessages = 1
INVARIANTS
    WithinRateLimit
PROPERTIES
    DedupIsExact
    EveryEventHasItsFate
