SPECIFICATION Spec
CONSTANTS
    alice = alice
    bob = bob
    carol = carol
    s1 = s1
    s2 = s2
    s3 = s3
    s4 = s4
    r1 = r1
    r2 = r2
    Sid = {s1, s2, s3, s4}
    Caller = {alice, bob, carol}
    CallerOf <- MCCallerOf
    Req = {r1, r2}
    Ttl = 2
    Total = 2
    PerCaller = 1
    MaxTime = 2
SYMMETRY Symmetry
VIEW WhatCounts
INVARIANTS
    ForgottenIsEnded
    WithinLimits
PROPERTIES
    EndsOnlyForCause
