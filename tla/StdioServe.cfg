SPECIFICATION FairSpec
CONSTANTS
    q1 = q1
    q2 = q2
    q3 = q3
    one = one
    Request = {q1, q2, q3}
    Id = {one}
    IdOf <- MCIdOf
    KindOf <- MCKinds
CHECK_DEADLOCK FALSE
INVARIANTS
    HeldWhileServed
    ReadIsAnswered
PROPERTIES
    NothingAfterReturn
    ReturnsInTheEnd
    NoCallWaitsAfterClose
