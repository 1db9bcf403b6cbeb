SPECIFICATION Spec
CONSTANTS
    q1 = q1
    q2 = q2
    q3 = q3
    one = one
    Request = {q1, q2}
    Id = {one}
    IdOf <- MCIdOf
    KindOf <- MCKinds
CHECK_DEADLOCK FALSE
INVARIANT
    LaterRequestsSeeLevel
