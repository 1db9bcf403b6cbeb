--------------------------- MODULE TaskLifecycle ---------------------------
(***************************************************************************)
(* What the task engine of src/mcp/tasks.rs promises a client and a host,  *)
(* with no instances, no store, no bus and no calls in progress:           *)
(*                                                                         *)
(*   view[t]   what `tasks/get` shows the owner of t: nothing yet, one of  *)
(*             the five wire statuses, or gone for good;                   *)
(*   stopped   the tasks whose operation was told to stop (the token of    *)
(*             TaskRun::cancellation fired).                               *)
(*                                                                         *)
(* A status changes only along the arrows below, a terminal status is left *)
(* only by expiry, and an operation is told to stop only once its task is  *)
(* recorded as cancelled or is gone.                                       *)
(***************************************************************************)
CONSTANT Task

VARIABLES view, stopped

absVars == <<view, stopped>>

Settled == {"completed", "failed", "cancelled"}

Live == {"working", "input_required"}

Init ==
    /\ view = [t \in Task |-> "none"]
    /\ stopped = {}

Start(t) ==
    /\ view[t] = "none"
    /\ view' = [view EXCEPT ![t] = "working"]
    /\ UNCHANGED stopped

Ask(t) ==
    /\ view[t] \in Live
    /\ view' = [view EXCEPT ![t] = "input_required"]
    /\ UNCHANGED stopped

Answer(t) ==
    /\ view[t] = "input_required"
    /\ view' = [view EXCEPT ![t] = "working"]
    /\ UNCHANGED stopped

Settle(t) ==
    /\ view[t] \in Live
    /\ \E s \in Settled : view' = [view EXCEPT ![t] = s]
    /\ UNCHANGED stopped

Forget(t) ==
    /\ view[t] # "none"
    /\ view' = [view EXCEPT ![t] = "gone"]
    /\ UNCHANGED stopped

Stop(t) ==
    /\ view[t] \in {"cancelled", "gone"}
    /\ stopped' = stopped \cup {t}
    /\ UNCHANGED view

Next == \E t \in Task : Start(t) \/ Ask(t) \/ Answer(t) \/ Settle(t) \/ Forget(t) \/ Stop(t)

Spec == Init /\ [][Next]_absVars
=============================================================================
