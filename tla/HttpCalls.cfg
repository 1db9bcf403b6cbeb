SPECIFICATION FairSpec
CONSTANTS
    None = None
    Clients <- MCClients
    Calls <- MCCalls
    Rest = {status}
    Requests <- MCRequests
    Timed = {status}
INVARIANTS
    OneLine
    ToldInOrder
    HeldWhileServed
    OnlyItsClient
    ObservedOnce
PROPERTIES
    CallsEnd
CHECK_DEADLOCK FALSE
