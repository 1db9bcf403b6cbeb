--------------------------- MODULE MCTaskManager ---------------------------
(* Instances of TaskManager for TLC. *)
EXTENDS TaskManager, TLC

CONSTANTS o1, o2, i1, i2, t1, t2, c1, c2

\* Every task belongs to o1 and runs on i1; o2 is a stranger, i2 a sibling
\* instance behind the same load balancer.
MCOwnerOf == [t \in Task |-> o1]
MCRunsAt == [t \in Task |-> i1]

CallSymmetry == Permutations(Call)
=============================================================================
