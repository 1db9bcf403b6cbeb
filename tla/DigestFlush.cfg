SPECIFICATION Spec
CONSTANTS
    e1 = e1
    e2 = e2
    e3 = e3
    e4 = e4
    Event = {e1, e2}
    Key = {"same", "other"}
    KeyOf <- MCKeyOf
    BatchWindow = 1
    DedupWindow = 3
    Minute = 2
    MaxMessages = 1
INVARIANT
    FlushedBeforeExit
