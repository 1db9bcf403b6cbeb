---------------------------- MODULE TaskManager ----------------------------
(***************************************************************************)
(* The task engine of src/mcp/tasks.rs: TaskManager over an                *)
(* InMemoryTaskStore that the managers of several service instances share, *)
(* the TaskRun each operation holds, the clients' tasks/update and         *)
(* tasks/cancel calls, the TTL sweep, and the host's TaskSignalBus.        *)
(*                                                                         *)
(* A store call is one atomic step (the RwLock of InMemoryTaskStore, or    *)
(* the transaction the TaskStore contract asks of a host); what the        *)
(* manager does before and after it are steps of their own, since another  *)
(* thread may run in between.                                              *)
(*                                                                         *)
(* Task ids are minted fresh by TaskId::generate, so which owner and which *)
(* instance a task belongs to is fixed with its id: OwnerOf and RunsAt.    *)
(***************************************************************************)
EXTENDS Naturals, Sequences, FiniteSets

CONSTANTS
    Task,          \* task ids
    Owner,         \* TaskOwner values
    Instance,      \* processes of the service, one TaskManager each
    Call,          \* client calls that can be in progress at once
    Key,           \* keys of an inputRequests map
    OwnerOf,       \* the owner a task is created for
    RunsAt,        \* the instance that creates a task and runs its operation
    HasBus,        \* a TaskSignalBus is installed (with_signal_bus)
    HostStore,     \* the store is a host's own: its calls can fail and take time
    UnawaitedAsks, \* the host may ask by id, or drop a request_input future
    MaxAsks        \* bound on request_input calls per task

ASSUME TaskManagerAssumption ==
    /\ OwnerOf \in [Task -> Owner]
    /\ RunsAt \in [Task -> Instance]
    /\ HasBus \in BOOLEAN
    /\ HostStore \in BOOLEAN
    /\ UnawaitedAsks \in BOOLEAN
    /\ MaxAsks \in Nat

VARIABLES
    status,   \* stored status of each task; "absent" before, "swept" after
    expired,  \* is_expired: the TTL has elapsed
    asked,    \* the keys of the last input_requests recorded for the task
    asks,     \* request_input calls that were recorded (bounded by MaxAsks)
    op,       \* where the operation holding the TaskRun is
    token,    \* tasks whose cancellation token has fired
    inbox,    \* the unbounded channel of answers to each operation
    bus,      \* signals published and not yet delivered or lost
    call,     \* the client calls in progress
    sweeper,  \* instances whose periodic sweep was started
    sweepq    \* ids a sweep removed and has yet to signal, per instance

store == <<status, expired, asked, asks>>
vars == <<status, expired, asked, asks, op, token, inbox, bus, call, sweeper, sweepq>>

-----------------------------------------------------------------------------
(* The store.                                                              *)

\* TaskStatus::is_terminal.
Terminal == {"completed", "failed", "cancelled"}

Stored == Terminal \cup {"working", "input_required"}

Status == Stored \cup {"absent", "swept"}

\* What InMemoryTaskStore::get and ::update can see: the entry is there, is
\* owner's, and has not expired.
Visible(o, t) ==
    /\ status[t] \in Stored
    /\ OwnerOf[t] = o
    /\ ~expired[t]

\* Bug: a terminal task may be moved.
CanLeaveTerminal(o, t) == Visible(o, t)

\* The closure TaskManager::transition hands to TaskStore::update succeeds.
CanTransition(o, t) ==
    /\ Visible(o, t)
    /\ status[t] \notin Terminal

\* How a refused transition is reported.
Refusal(o, t) == IF Visible(o, t) THEN "InvalidState" ELSE "NotFound"

\* The TTL of a stored task elapses. Time passes for every step alike, so
\* nothing but the clock decides when.
Expire(t) ==
    /\ status[t] \in Stored
    /\ ~expired[t]
    /\ expired' = [expired EXCEPT ![t] = TRUE]
    /\ UNCHANGED <<status, asked, asks, op, token, inbox, bus, call, sweeper, sweepq>>

-----------------------------------------------------------------------------
(* The operation and its TaskRun.                                          *)

OpState == {"none", "creating", "running", "waiting", "settled", "released", "gone"}

\* The task has an entry in the `runs` table of instance i.
RunsHere(t, i) ==
    /\ RunsAt[t] = i
    /\ op[t] \in {"running", "waiting", "settled"}

\* The receiving end of the answers' channel still exists: it is a field of
\* the TaskRun, dropped after TaskRun::drop released the table entry.
ReceiverAlive(t) == op[t] \in {"running", "waiting", "settled", "released"}

\* The host reads a task's id from the run create returned, and the client
\* from the answer to the call that created it.
Known(t) == op[t] \notin {"none", "creating"}

\* TaskManager::create up to the end of store.create, with the sweeper it
\* starts on the first call.
CreateStored(t) ==
    /\ op[t] = "none"
    /\ status' = [status EXCEPT ![t] = "working"]
    /\ op' = [op EXCEPT ![t] = "creating"]
    /\ sweeper' = sweeper \cup {RunsAt[t]}
    /\ UNCHANGED <<expired, asked, asks, token, inbox, bus, call, sweepq>>

\* Bug: the run enters the table whatever the store said.
CreateRefusedRegisters(t) ==
    /\ HostStore
    /\ op[t] = "none"
    /\ op' = [op EXCEPT ![t] = "running"]
    /\ sweeper' = sweeper \cup {RunsAt[t]}
    /\ UNCHANGED <<status, expired, asked, asks, token, inbox, bus, call, sweepq>>

\* TaskManager::create on a host's store that refuses it: the sweeper stays.
CreateRefused(t) ==
    /\ HostStore
    /\ op[t] = "none"
    /\ sweeper' = sweeper \cup {RunsAt[t]}
    /\ UNCHANGED <<status, expired, asked, asks, op, token, inbox, bus, call, sweepq>>

\* The rest of TaskManager::create: the run enters the table and is returned.
CreateRegister(t) ==
    /\ op[t] = "creating"
    /\ op' = [op EXCEPT ![t] = "running"]
    /\ UNCHANGED <<status, expired, asked, asks, token, inbox, bus, call, sweeper, sweepq>>

\* TaskRun::request_input up to its select. A refused transition returns the
\* error to the operation and changes nothing.
RequestInput(t, keys) ==
    /\ op[t] = "running"
    /\ asks[t] < MaxAsks
    /\ CanTransition(OwnerOf[t], t)
    /\ status' = [status EXCEPT ![t] = "input_required"]
    /\ asked' = [asked EXCEPT ![t] = keys]
    /\ asks' = [asks EXCEPT ![t] = @ + 1]
    /\ op' = [op EXCEPT ![t] = "waiting"]
    /\ UNCHANGED <<expired, token, inbox, bus, call, sweeper, sweepq>>

\* TaskManager::request_input by id: the task blocks on input and nobody
\* waits for it yet.
RequestById(o, t, keys) ==
    /\ UnawaitedAsks
    /\ Known(t)
    /\ asks[t] < MaxAsks
    /\ CanTransition(o, t)
    /\ status' = [status EXCEPT ![t] = "input_required"]
    /\ asked' = [asked EXCEPT ![t] = keys]
    /\ asks' = [asks EXCEPT ![t] = @ + 1]
    /\ UNCHANGED <<expired, op, token, inbox, bus, call, sweeper, sweepq>>

\* The select of TaskRun::request_input, cancelled branch first (biased).
WakeCancelled(t) ==
    /\ op[t] = "waiting"
    /\ t \in token
    /\ op' = [op EXCEPT ![t] = "running"]
    /\ UNCHANGED <<status, expired, asked, asks, token, inbox, bus, call, sweeper, sweepq>>

\* ... and the branch that receives the answers.
TakeAnswer(t) ==
    /\ op[t] = "waiting"
    /\ t \notin token
    /\ inbox[t] # <<>>
    /\ inbox' = [inbox EXCEPT ![t] = Tail(@)]
    /\ op' = [op EXCEPT ![t] = "running"]
    /\ UNCHANGED <<status, expired, asked, asks, token, bus, call, sweeper, sweepq>>

\* The host drops the request_input future and keeps the run.
AbandonRequest(t) ==
    /\ UnawaitedAsks
    /\ op[t] = "waiting"
    /\ op' = [op EXCEPT ![t] = "running"]
    /\ UNCHANGED <<status, expired, asked, asks, token, inbox, bus, call, sweeper, sweepq>>

\* TaskRun::complete and TaskRun::fail up to the end of the store update; a
\* refusal, or a host's store that fails, consumes the run all the same.
SettleRun(t, to) ==
    /\ op[t] = "running"
    /\ \/ CanTransition(OwnerOf[t], t) /\ status' = [status EXCEPT ![t] = to]
       \/ (HostStore \/ ~CanTransition(OwnerOf[t], t)) /\ UNCHANGED status
    /\ op' = [op EXCEPT ![t] = "settled"]
    /\ UNCHANGED <<expired, asked, asks, token, inbox, bus, call, sweeper, sweepq>>

\* TaskManager::complete and ::fail by id: a host that settles from
\* elsewhere, on any instance and with or without a run.
SettleById(o, t, to) ==
    /\ Known(t)
    /\ CanTransition(o, t)
    /\ status' = [status EXCEPT ![t] = to]
    /\ UNCHANGED <<expired, asked, asks, op, token, inbox, bus, call, sweeper, sweepq>>

\* TaskRun::drop: release the table entry. An operation that returns early
\* or panics drops its run unsettled, in or out of request_input.
DropRun(t) ==
    /\ op[t] \in {"running", "waiting", "settled"}
    /\ op' = [op EXCEPT ![t] = "released"]
    /\ UNCHANGED <<status, expired, asked, asks, token, inbox, bus, call, sweeper, sweepq>>

\* The run's fields are dropped after TaskRun::drop, the receiver with them.
DropReceiver(t) ==
    /\ op[t] = "released"
    /\ op' = [op EXCEPT ![t] = "gone"]
    /\ inbox' = [inbox EXCEPT ![t] = <<>>]
    /\ UNCHANGED <<status, expired, asked, asks, token, bus, call, sweeper, sweepq>>

-----------------------------------------------------------------------------
(* Signals: TaskManager::deliver, ::publish and the host's bus.            *)

Signal ==
    [kind : {"cancelled"}, task : Task, keys : {{}}, to : Instance]
        \cup [kind : {"input"}, task : Task, keys : SUBSET Key, to : Instance]

\* The bus carries a signal to every other instance.
Published(kind, t, keys, from) ==
    {[kind |-> kind, task |-> t, keys |-> keys, to |-> j] : j \in Instance \ {from}}

\* signal_cancelled on instance i: fire the token of a run in this process,
\* else publish. Without a bus nothing is published; a bus error is logged
\* and the cancellation stands.
SignalCancelled(t, i) ==
    IF RunsHere(t, i)
    THEN /\ token' = token \cup {t}
         /\ UNCHANGED bus
    ELSE /\ UNCHANGED token
         /\ \/ UNCHANGED bus
            \/ HasBus /\ bus' = bus \cup Published("cancelled", t, {}, i)

\* The host hands a signal to TaskManager::deliver on the receiving instance.
\* A signal for a task no operation runs there is ignored.
Deliver(m) ==
    /\ m \in bus
    /\ bus' = bus \ {m}
    /\ IF ~RunsHere(m.task, m.to)
       THEN UNCHANGED <<token, inbox>>
       ELSE IF m.kind = "cancelled"
       THEN token' = token \cup {m.task} /\ UNCHANGED inbox
       ELSE inbox' = [inbox EXCEPT ![m.task] = Append(@, m.keys)] /\ UNCHANGED token
    /\ UNCHANGED <<status, expired, asked, asks, op, call, sweeper, sweepq>>

\* Delivery is at most once.
LoseSignal(m) ==
    /\ m \in bus
    /\ bus' = bus \ {m}
    /\ UNCHANGED <<status, expired, asked, asks, op, token, inbox, call, sweeper, sweepq>>

-----------------------------------------------------------------------------
(* Client calls: tasks/update (apply_input) and tasks/cancel (cancel).     *)

CallPc == {"lookup", "take", "hand", "fail", "signal", "done"}

Result == {"pending", "Ok", "NotFound", "InvalidState", "InvalidInput", "Detached", "Store"}

NoCall == [pc |-> "idle"]

CallRecord ==
    [pc : CallPc, task : Task, by : Owner, at : Instance, keys : SUBSET Key,
     local : BOOLEAN,    \* apply_input found the run in its own table
     took : BOOLEAN,     \* apply_input moved the task back to working
     result : Result]

Begin(c, o, i, t, keys, pc, result) ==
    /\ call[c] = NoCall
    /\ Known(t)
    /\ call' = [call EXCEPT ![c] =
                    [pc |-> pc, task |-> t, by |-> o, at |-> i, keys |-> keys,
                     local |-> FALSE, took |-> FALSE, result |-> result]]

At(c, pc) == call[c] # NoCall /\ call[c].pc = pc

Goto(c, pc) == call' = [call EXCEPT ![c].pc = pc]

Return(c, result) == call' = [call EXCEPT ![c].pc = "done", ![c].result = result]

\* Bug: whose task it is is left to the store update.
UpdateUnchecked(c, o, i, t, keys) ==
    /\ Begin(c, o, i, t, keys, "lookup", "pending")
    /\ UNCHANGED <<status, expired, asked, asks, op, token, inbox, bus, sweeper, sweepq>>

\* apply_input: the ownership check, before anything else is looked at.
UpdateGet(c, o, i, t, keys) ==
    /\ IF Visible(o, t)
       THEN Begin(c, o, i, t, keys, "lookup", "pending")
       ELSE Begin(c, o, i, t, keys, "done", "NotFound")
    /\ UNCHANGED <<status, expired, asked, asks, op, token, inbox, bus, sweeper, sweepq>>

\* apply_input: find the run in this instance's table.
UpdateLookup(c) ==
    /\ At(c, "lookup")
    /\ LET here == RunsHere(call[c].task, call[c].at) IN
       IF ~here /\ ~HasBus
       THEN Return(c, "Detached")
       ELSE call' = [call EXCEPT ![c].pc = "take", ![c].local = here]
    /\ UNCHANGED <<status, expired, asked, asks, op, token, inbox, bus, sweeper, sweepq>>

\* Bug: any responses are accepted.
KeysIgnored(c) == TRUE

\* validate_input_keys: the responses answer exactly the outstanding requests.
KeysMatch(c) == call[c].keys = asked[call[c].task]

\* apply_input: the atomic store update back to working.
UpdateTake(c) ==
    /\ At(c, "take")
    /\ LET t == call[c].task IN
       IF ~Visible(call[c].by, t)
       THEN Return(c, "NotFound") /\ UNCHANGED status
       ELSE IF status[t] # "input_required"
       THEN Return(c, "InvalidState") /\ UNCHANGED status
       ELSE IF ~KeysMatch(c)
       THEN Return(c, "InvalidInput") /\ UNCHANGED status
       ELSE /\ call' = [call EXCEPT ![c].pc = "hand", ![c].took = TRUE]
            /\ status' = [status EXCEPT ![t] = "working"]
    /\ UNCHANGED <<expired, asked, asks, op, token, inbox, bus, sweeper, sweepq>>

\* apply_input: hand the answers over, in this process or on the bus, whose
\* publish may be refused.
UpdateHand(c) ==
    /\ At(c, "hand")
    /\ LET t == call[c].task IN
       \/ /\ call[c].local /\ ReceiverAlive(t)
          /\ inbox' = [inbox EXCEPT ![t] = Append(@, call[c].keys)]
          /\ Return(c, "Ok")
          /\ UNCHANGED bus
       \/ /\ call[c].local /\ ~ReceiverAlive(t)
          /\ Goto(c, "fail")
          /\ UNCHANGED <<inbox, bus>>
       \/ /\ ~call[c].local
          /\ bus' = bus \cup Published("input", t, call[c].keys, call[c].at)
          /\ Return(c, "Ok")
          /\ UNCHANGED inbox
       \/ /\ ~call[c].local
          /\ Goto(c, "fail")
          /\ UNCHANGED <<inbox, bus>>
    /\ UNCHANGED <<status, expired, asked, asks, op, token, sweeper, sweepq>>

\* Bug: input nobody took is reported and the task is left working.
UpdateFailForgotten(c) ==
    /\ At(c, "fail")
    /\ Return(c, "Detached")
    /\ UNCHANGED <<status, expired, asked, asks, op, token, inbox, bus, sweeper, sweepq>>

\* apply_input: nobody took the input, so the task is failed.
UpdateFail(c) ==
    /\ At(c, "fail")
    /\ LET t == call[c].task IN
       IF CanTransition(call[c].by, t)
       THEN Return(c, "Detached") /\ status' = [status EXCEPT ![t] = "failed"]
       ELSE Return(c, Refusal(call[c].by, t)) /\ UNCHANGED status
    /\ UNCHANGED <<expired, asked, asks, op, token, inbox, bus, sweeper, sweepq>>

\* Bug: the token is fired first and the state written after.
SignalBeforeRecord(c, o, i, t) ==
    /\ Begin(c, o, i, t, {}, "signal", "pending")
    /\ IF Visible(o, t) /\ RunsHere(t, i) THEN token' = token \cup {t} ELSE UNCHANGED token
    /\ UNCHANGED <<status, expired, asked, asks, op, inbox, bus, sweeper, sweepq>>

\* cancel: record `cancelled`.
CancelRecord(c, o, i, t) ==
    /\ IF CanTransition(o, t)
       THEN /\ Begin(c, o, i, t, {}, "signal", "pending")
            /\ status' = [status EXCEPT ![t] = "cancelled"]
       ELSE /\ Begin(c, o, i, t, {}, "done", Refusal(o, t))
            /\ UNCHANGED status
    /\ UNCHANGED <<expired, asked, asks, op, token, inbox, bus, sweeper, sweepq>>

\* cancel: then signal the operation.
CancelSignal(c) ==
    /\ At(c, "signal")
    /\ SignalCancelled(call[c].task, call[c].at)
    /\ Return(c, "Ok")
    /\ UNCHANGED <<status, expired, asked, asks, op, inbox, sweeper, sweepq>>

\* The first store call of a tasks/update or a tasks/cancel fails on a host's own
\* store, whoever calls: the error is returned, and the task is as it was.
FirstStoreFails(c, o, i, t, keys) ==
    /\ HostStore
    /\ Begin(c, o, i, t, keys, "done", "Store")
    /\ UNCHANGED <<status, expired, asked, asks, op, token, inbox, bus, sweeper, sweepq>>

\* ... and so may the later ones, leaving the task untouched.
StoreFails(c) ==
    /\ HostStore
    /\ At(c, "take") \/ At(c, "fail")
    /\ Return(c, "Store")
    /\ UNCHANGED <<status, expired, asked, asks, op, token, inbox, bus, sweeper, sweepq>>

\* dispatch drops the call's future at an await (its connection or session
\* ended). InMemoryTaskStore writes and returns within one poll, so the call
\* goes on to the send or the local token before it can be dropped; a host's
\* store may be dropped after its write.
CallDropped(c) ==
    /\ \/ At(c, "take") \/ At(c, "fail")
       \/ At(c, "hand") /\ (HostStore \/ ~call[c].local)
       \/ At(c, "signal") /\ (HostStore \/ ~RunsHere(call[c].task, call[c].at))
    /\ call' = [call EXCEPT ![c] = NoCall]
    /\ UNCHANGED <<status, expired, asked, asks, op, token, inbox, bus, sweeper, sweepq>>

\* The answer went out to the client.
Answered(c) ==
    /\ At(c, "done")
    /\ call' = [call EXCEPT ![c] = NoCall]
    /\ UNCHANGED <<status, expired, asked, asks, op, token, inbox, bus, sweeper, sweepq>>

-----------------------------------------------------------------------------
(* The periodic sweep.                                                     *)

Overdue == {t \in Task : status[t] \in Stored /\ expired[t]}

\* Bug: the removed ids are not signalled.
SweepForgets(i) ==
    /\ i \in sweeper
    /\ Overdue # {}
    /\ status' = [t \in Task |-> IF t \in Overdue THEN "swept" ELSE status[t]]
    /\ UNCHANGED <<expired, asked, asks, op, token, inbox, bus, call, sweeper, sweepq>>

\* sweep_expired: the store drops every expired task in one step.
Sweep(i) ==
    /\ i \in sweeper
    /\ sweepq[i] = {}
    /\ Overdue # {}
    /\ status' = [t \in Task |-> IF t \in Overdue THEN "swept" ELSE status[t]]
    /\ sweepq' = [sweepq EXCEPT ![i] = Overdue]
    /\ UNCHANGED <<expired, asked, asks, op, token, inbox, bus, call, sweeper>>

\* Bug: the loop stops after the first id.
SweepSignalsOne(i, t) ==
    /\ t \in sweepq[i]
    /\ sweepq' = [sweepq EXCEPT ![i] = {}]
    /\ SignalCancelled(t, i)
    /\ UNCHANGED <<status, expired, asked, asks, op, inbox, call, sweeper>>

\* sweep_expired: then each removed task's operation is signalled, in turn.
SweepSignal(i, t) ==
    /\ t \in sweepq[i]
    /\ sweepq' = [sweepq EXCEPT ![i] = @ \ {t}]
    /\ SignalCancelled(t, i)
    /\ UNCHANGED <<status, expired, asked, asks, op, inbox, call, sweeper>>

SweepLoop(i) == Sweep(i) \/ \E t \in Task : SweepSignal(i, t)

-----------------------------------------------------------------------------
Init ==
    /\ status = [t \in Task |-> "absent"]
    /\ expired = [t \in Task |-> FALSE]
    /\ asked = [t \in Task |-> {}]
    /\ asks = [t \in Task |-> 0]
    /\ op = [t \in Task |-> "none"]
    /\ token = {}
    /\ inbox = [t \in Task |-> <<>>]
    /\ bus = {}
    /\ call = [c \in Call |-> NoCall]
    /\ sweeper = {}
    /\ sweepq = [i \in Instance |-> {}]

OpStep(t) ==
    \/ CreateStored(t)
    \/ CreateRefused(t)
    \/ CreateRegister(t)
    \/ \E o \in Owner, keys \in SUBSET Key : RequestById(o, t, keys)
    \/ \E keys \in SUBSET Key : RequestInput(t, keys)
    \/ WakeCancelled(t)
    \/ TakeAnswer(t)
    \/ AbandonRequest(t)
    \/ \E to \in {"completed", "failed"} : SettleRun(t, to)
    \/ \E o \in Owner, to \in {"completed", "failed"} : SettleById(o, t, to)
    \/ DropRun(t)
    \/ DropReceiver(t)

CallStarts(c) ==
    \E o \in Owner, i \in Instance, t \in Task :
        \/ \E keys \in SUBSET Key :
              UpdateGet(c, o, i, t, keys) \/ FirstStoreFails(c, o, i, t, keys)
        \/ CancelRecord(c, o, i, t)

CallStep(c) ==
    UpdateLookup(c) \/ UpdateTake(c) \/ UpdateHand(c) \/ UpdateFail(c) \/ CancelSignal(c)

Next ==
    \/ \E t \in Task : OpStep(t) \/ Expire(t)
    \/ \E m \in bus : Deliver(m) \/ LoseSignal(m)
    \/ \E c \in Call :
          CallStarts(c) \/ CallStep(c) \/ StoreFails(c) \/ CallDropped(c) \/ Answered(c)
    \/ \E i \in Instance : SweepLoop(i)

Spec == Init /\ [][Next]_vars

\* The operation's task is polled: its wait ends, and create and the drop of
\* a settled run, once entered, run to their end.
Polled(t) ==
    \/ WakeCancelled(t) \/ TakeAnswer(t)
    \/ CreateRegister(t) \/ (op[t] = "settled" /\ DropRun(t)) \/ DropReceiver(t)

\* What the runtime guarantees: a woken future is polled again, and the sweep
\* loop keeps ticking. Nothing is assumed of clients, hosts or the bus.
Fairness ==
    /\ \A c \in Call : WF_vars(CallStep(c))
    /\ \A t \in Task : WF_vars(Polled(t))
    /\ \A i \in Instance : WF_vars(SweepLoop(i))

FairSpec == Spec /\ Fairness

\* Every task has a TTL (TaskOptions::default sets one): the clock reaches it.
FairSpecTtl == FairSpec /\ \A t \in Task : WF_vars(Expire(t))

-----------------------------------------------------------------------------
(* Properties.                                                             *)

Types ==
    /\ status \in [Task -> Status]
    /\ expired \in [Task -> BOOLEAN]
    /\ asked \in [Task -> SUBSET Key]
    /\ asks \in [Task -> 0..MaxAsks]
    /\ op \in [Task -> OpState]
    /\ token \in SUBSET Task
    /\ inbox \in [Task -> Seq(SUBSET Key)]
    /\ bus \in SUBSET Signal
    /\ call \in [Call -> CallRecord \cup {NoCall}]
    /\ sweeper \in SUBSET Instance
    /\ sweepq \in [Instance -> SUBSET Task]

\* Every variable keeps its type, and TaskManager::create makes a run of exactly
\* the tasks the store took.
TypeOK ==
    /\ Types
    /\ \A t \in Task : op[t] = "none" <=> status[t] = "absent"

\* TaskManager::cancel and ::sweep_expired write the store before they signal:
\* wherever the operation runs and however the signal travels, a fired token
\* finds `cancelled` recorded or the task swept, so a late complete is refused.
TokenFollowsRecord ==
    \A t \in token : status[t] \in {"cancelled", "swept"}

\* TaskRun::request_input: the answers waiting for an operation are the ones
\* to the requests it last made, and the task is no longer input_required.
AnswerMatchesRequest ==
    \A t \in Task :
        op[t] = "waiting" /\ inbox[t] # <<>> =>
            /\ inbox[t][1] = asked[t]
            /\ status[t] # "input_required"

\* TaskError::NotFound: a call on another owner's task learns nothing, on any
\* instance and in any state of the task; it reads as absent, or the store's own
\* failure is all it reads.
ForeignReadsAbsent ==
    \A c \in Call :
        call[c] # NoCall /\ call[c].by # OwnerOf[call[c].task] =>
            call[c].pc = "done" /\ call[c].result \in {"NotFound", "Store"}

\* TaskError::Detached after the input was taken: the task was settled, so no
\* client polls a `working` task that the server knows nobody works on.
DetachedIsSettled ==
    \A c \in Call :
        At(c, "done") /\ call[c].result = "Detached" /\ call[c].took =>
            ~Visible(call[c].by, call[c].task) \/ status[call[c].task] \in Terminal

\* The statuses clients see and the tokens operations see follow TaskLifecycle.
\* An expired task is gone for its owner before the sweep removes it.
View == [t \in Task |->
            IF status[t] = "absent" THEN "none"
            ELSE IF status[t] = "swept" \/ expired[t] THEN "gone"
            ELSE status[t]]

Lifecycle == INSTANCE TaskLifecycle WITH view <- View, stopped <- token

ImplementsLifecycle == Lifecycle!Spec

\* With one instance: an operation whose task is cancelled, or expires while
\* it runs, sees its token fire unless it ends by itself first.
StopReachesOperation ==
    \A t \in Task :
        (RunsHere(t, RunsAt[t]) /\ (status[t] = "cancelled" \/ (status[t] \in Stored /\ expired[t])))
            ~> (t \in token \/ ~RunsHere(t, RunsAt[t]))

\* With one instance: an operation waiting in request_input is woken by the
\* answer, by cancellation and by expiry.
WaiterWakes ==
    \A t \in Task :
        (op[t] = "waiting" /\ (status[t] \in {"working", "cancelled"} \/ expired[t]))
            ~> (op[t] # "waiting")
=============================================================================
