------------------------- MODULE TaskManagerProofs -------------------------
(***************************************************************************)
(* Theorems about TaskManager, for every set of tasks, owners, instances   *)
(* and concurrent calls, with and without a bus, over the in-memory store  *)
(* and over a host's.                                                      *)
(***************************************************************************)
EXTENDS TaskManager, TLAPS

USE DEF Terminal, Stored, Status, OpState, CallPc, Result

-----------------------------------------------------------------------------
(* Type correctness.                                                       *)

\* A call record stays one when its program counter or its result moves on.
LEMMA GotoType ==
    ASSUME Types, NEW c \in Call, call[c] # NoCall,
           NEW pc \in CallPc, Goto(c, pc)
    PROVE  call' \in [Call -> CallRecord \cup {NoCall}]
<1>1. call[c] \in CallRecord
  BY DEF Types
<1>2. [call[c] EXCEPT !.pc = pc] \in CallRecord
  BY <1>1 DEF CallRecord
<1>3. call' = [call EXCEPT ![c] = [call[c] EXCEPT !.pc = pc]]
  BY DEF Goto
<1> QED
  BY <1>2, <1>3 DEF Types

\* The same for a call that returns.
LEMMA ReturnType ==
    ASSUME Types, NEW c \in Call, call[c] # NoCall,
           NEW r \in Result, Return(c, r)
    PROVE  call' \in [Call -> CallRecord \cup {NoCall}]
<1>1. call[c] \in CallRecord
  BY DEF Types
<1>2. [call[c] EXCEPT !.pc = "done", !.result = r] \in CallRecord
  BY <1>1 DEF CallRecord
<1>3. call' = [call EXCEPT ![c] = [call[c] EXCEPT !.pc = "done", !.result = r]]
  BY DEF Return
<1> QED
  BY <1>2, <1>3 DEF Types

\* A call that begins has a well-formed record.
LEMMA BeginType ==
    ASSUME Types, NEW c \in Call, NEW o \in Owner, NEW i \in Instance,
           NEW t \in Task, NEW keys \in SUBSET Key, NEW pc \in CallPc,
           NEW r \in Result, Begin(c, o, i, t, keys, pc, r)
    PROVE  call' \in [Call -> CallRecord \cup {NoCall}]
BY DEF Types, CallRecord, Begin

\* An answer appended to an operation's channel leaves the channels well formed.
LEMMA AppendType ==
    ASSUME Types, NEW t \in Task, NEW keys \in SUBSET Key,
           inbox' = [inbox EXCEPT ![t] = Append(@, keys)]
    PROVE  inbox' \in [Task -> Seq(SUBSET Key)]
<1> DEFINE S == SUBSET Key
<1> HIDE DEF S
<1>1. inbox \in [Task -> Seq(S)] /\ keys \in S
  BY DEF Types, S
<1>2. Append(inbox[t], keys) \in Seq(S)
  BY <1>1
<1>3. inbox' \in [Task -> Seq(S)]
  BY <1>1, <1>2
<1> QED
  BY <1>3 DEF S

\* What a manager publishes are signals of the bus.
LEMMA PublishedType ==
    ASSUME NEW t \in Task, NEW i \in Instance
    PROVE  /\ Published("cancelled", t, {}, i) \subseteq Signal
           /\ \A keys \in SUBSET Key : Published("input", t, keys, i) \subseteq Signal
BY DEF Published, Signal

\* signal_cancelled keeps the token set and the bus well formed.
LEMMA SignalType ==
    ASSUME Types, NEW t \in Task, NEW i \in Instance, SignalCancelled(t, i)
    PROVE  token' \in SUBSET Task /\ bus' \in SUBSET Signal
BY PublishedType DEF Types, SignalCancelled

\* Every step of the engine keeps every variable in its type.
LEMMA TypeStep == Types /\ [Next]_vars => Types'
<1> SUFFICES ASSUME Types, [Next]_vars PROVE Types'
  OBVIOUS
<1> USE TaskManagerAssumption
<1>1. ASSUME NEW t \in Task, OpStep(t) PROVE Types'
  <2>1. CASE CreateStored(t)
    BY <2>1 DEF Types, CreateStored
  <2>2. CASE CreateRegister(t)
    BY <2>2 DEF Types, CreateRegister
  <2>3. ASSUME NEW keys \in SUBSET Key, RequestInput(t, keys) PROVE Types'
    BY <2>3 DEF Types, RequestInput
  <2>4. CASE WakeCancelled(t)
    BY <2>4 DEF Types, WakeCancelled
  <2>5. CASE TakeAnswer(t)
    BY <2>5 DEF Types, TakeAnswer
  <2>6. CASE AbandonRequest(t)
    BY <2>6 DEF Types, AbandonRequest
  <2>7. ASSUME NEW to \in {"completed", "failed"}, SettleRun(t, to) PROVE Types'
    BY <2>7 DEF Types, SettleRun
  <2>8. ASSUME NEW o \in Owner, NEW to \in {"completed", "failed"}, SettleById(o, t, to)
        PROVE Types'
    BY <2>8 DEF Types, SettleById
  <2>9. CASE DropRun(t)
    BY <2>9 DEF Types, DropRun
  <2>10. CASE DropReceiver(t)
    BY <2>10 DEF Types, DropReceiver
  <2>11. CASE CreateRefused(t)
    BY <2>11 DEF Types, CreateRefused
  <2>12. ASSUME NEW o \in Owner, NEW keys \in SUBSET Key, RequestById(o, t, keys)
         PROVE Types'
    BY <2>12 DEF Types, RequestById
  <2> QED
    BY <1>1, <2>1, <2>2, <2>3, <2>4, <2>5, <2>6, <2>7, <2>8, <2>9, <2>10, <2>11, <2>12
       DEF OpStep
<1>2. ASSUME NEW t \in Task, Expire(t) PROVE Types'
  BY <1>2 DEF Types, Expire
<1>3. ASSUME NEW m \in bus, Deliver(m) PROVE Types'
  <2>1. m.task \in Task /\ m.keys \in SUBSET Key
    BY DEF Types, Signal
  <2> QED
    BY <1>3, <2>1, AppendType DEF Types, Deliver
<1>4. ASSUME NEW m \in bus, LoseSignal(m) PROVE Types'
  BY <1>4 DEF Types, LoseSignal
<1>5. ASSUME NEW c \in Call, CallStarts(c) PROVE Types'
  <2> PICK o \in Owner, i \in Instance, t \in Task :
        \/ \E keys \in SUBSET Key : UpdateGet(c, o, i, t, keys)
        \/ \E keys \in SUBSET Key : FirstStoreFails(c, o, i, t, keys)
        \/ CancelRecord(c, o, i, t)
    BY <1>5 DEF CallStarts
  <2>1. ASSUME NEW keys \in SUBSET Key, UpdateGet(c, o, i, t, keys) PROVE Types'
    <3>1. call' \in [Call -> CallRecord \cup {NoCall}]
      BY <2>1, BeginType DEF UpdateGet
    <3> QED
      BY <2>1, <3>1 DEF Types, UpdateGet
  <2>2. CASE CancelRecord(c, o, i, t)
    <3>1. call' \in [Call -> CallRecord \cup {NoCall}]
      BY <2>2, BeginType DEF CancelRecord, Refusal
    <3> QED
      BY <2>2, <3>1 DEF Types, CancelRecord
  <2>3. ASSUME NEW keys \in SUBSET Key, FirstStoreFails(c, o, i, t, keys) PROVE Types'
    <3>1. call' \in [Call -> CallRecord \cup {NoCall}]
      BY <2>3, BeginType DEF FirstStoreFails
    <3> QED
      BY <2>3, <3>1 DEF Types, FirstStoreFails
  <2> QED
    BY <2>1, <2>2, <2>3
<1>6. ASSUME NEW c \in Call, CallStep(c) PROVE Types'
  <2>0. call[c] # NoCall => call[c] \in CallRecord
    BY DEF Types
  <2>1. CASE UpdateLookup(c)
    <3>1. call' \in [Call -> CallRecord \cup {NoCall}]
      <4>1. CASE Return(c, "Detached")
        BY <4>1, <2>1, ReturnType DEF UpdateLookup, At
      <4>2. CASE call' = [call EXCEPT ![c].pc = "take",
                                      ![c].local = RunsHere(call[c].task, call[c].at)]
        BY <4>2, <2>0, <2>1 DEF UpdateLookup, At, Types, CallRecord, RunsHere
      <4> QED
        BY <2>1, <4>1, <4>2 DEF UpdateLookup
    <3> QED
      BY <2>1, <3>1 DEF Types, UpdateLookup
  <2>2. CASE UpdateTake(c)
    <3>1. call[c] # NoCall /\ call[c].task \in Task
      BY <2>0, <2>2 DEF UpdateTake, At, CallRecord
    <3>2. call' \in [Call -> CallRecord \cup {NoCall}]
      <4>1. CASE \E r \in Result : Return(c, r)
        BY <4>1, <3>1, ReturnType
      <4>2. CASE call' = [call EXCEPT ![c].pc = "hand", ![c].took = TRUE]
        BY <4>2, <2>0, <3>1 DEF Types, CallRecord
      <4> QED
        BY <2>2, <4>1, <4>2 DEF UpdateTake
    <3>3. status' \in [Task -> Status]
      <4>1. \/ UNCHANGED status
            \/ status' = [status EXCEPT ![call[c].task] = "working"]
        BY <2>2 DEF UpdateTake
      <4> QED
        BY <4>1, <3>1 DEF Types
    <3> QED
      BY <2>2, <3>2, <3>3 DEF Types, UpdateTake
  <2>3. CASE UpdateHand(c)
    <3>1. /\ call[c] # NoCall
          /\ call[c].task \in Task /\ call[c].at \in Instance /\ call[c].keys \in SUBSET Key
      BY <2>0, <2>3 DEF UpdateHand, At, CallRecord
    <3>2. call' \in [Call -> CallRecord \cup {NoCall}]
      BY <2>3, <3>1, ReturnType, GotoType DEF UpdateHand
    <3>3. inbox' \in [Task -> Seq(SUBSET Key)] /\ bus' \in SUBSET Signal
      BY <2>3, <3>1, PublishedType, AppendType DEF Types, UpdateHand
    <3> QED
      BY <2>3, <3>2, <3>3 DEF Types, UpdateHand
  <2>4. CASE UpdateFail(c)
    <3>1. call[c] # NoCall /\ call[c].task \in Task
      BY <2>0, <2>4 DEF UpdateFail, At, CallRecord
    <3>2. call' \in [Call -> CallRecord \cup {NoCall}]
      BY <2>4, <3>1, ReturnType DEF UpdateFail, Refusal
    <3> QED
      BY <2>4, <3>1, <3>2 DEF Types, UpdateFail
  <2>5. CASE CancelSignal(c)
    <3>1. call[c] # NoCall /\ call[c].task \in Task /\ call[c].at \in Instance
      BY <2>0, <2>5 DEF CancelSignal, At, CallRecord
    <3>2. call' \in [Call -> CallRecord \cup {NoCall}]
      BY <2>5, <3>1, ReturnType DEF CancelSignal
    <3> QED
      BY <2>5, <3>1, <3>2, SignalType DEF Types, CancelSignal
  <2> QED
    BY <1>6, <2>1, <2>2, <2>3, <2>4, <2>5 DEF CallStep
<1>7. ASSUME NEW c \in Call, StoreFails(c) PROVE Types'
  <2>1. call' \in [Call -> CallRecord \cup {NoCall}]
    BY <1>7, ReturnType DEF StoreFails, At
  <2> QED
    BY <1>7, <2>1 DEF Types, StoreFails
<1>8. ASSUME NEW c \in Call, CallDropped(c) PROVE Types'
  BY <1>8 DEF Types, CallDropped
<1>9. ASSUME NEW c \in Call, Answered(c) PROVE Types'
  BY <1>9 DEF Types, Answered
<1>10. ASSUME NEW i \in Instance, Sweep(i) PROVE Types'
  BY <1>10 DEF Types, Sweep, Overdue
<1>11. ASSUME NEW i \in Instance, NEW t \in Task, SweepSignal(i, t) PROVE Types'
  BY <1>11, SignalType DEF Types, SweepSignal
<1>12. CASE UNCHANGED vars
  BY <1>12 DEF Types, vars
<1> QED
  BY <1>1, <1>2, <1>3, <1>4, <1>5, <1>6, <1>7, <1>8, <1>9, <1>10, <1>11, <1>12 DEF Next, SweepLoop

\* Every variable keeps its type, whatever the constants.
LEMMA TypesCorrect == Spec => []Types
<1>1. Init => Types
  BY TaskManagerAssumption DEF Init, Types
<1> QED
  BY <1>1, TypeStep, PTL DEF Spec

-----------------------------------------------------------------------------
(* A fired token follows the record.                                       *)

Stopped == {"cancelled", "swept"}

\* A task is absent from the store exactly until create stored it, and the
\* clock runs only for stored tasks.
AbsentUntilCreated ==
    \A t \in Task :
        /\ op[t] = "none" <=> status[t] = "absent"
        /\ status[t] = "absent" => ~expired[t]

\* Everything that will fire a token is about a task already recorded as
\* stopped: the signals on the bus, the cancels between their write and their
\* signal, and the ids a sweep has yet to signal.
SignalsFollowRecord ==
    /\ \A m \in bus : m.kind = "cancelled" => status[m.task] \in Stopped
    /\ \A c \in Call : At(c, "signal") => status[call[c].task] \in Stopped
    /\ \A i \in Instance : \A t \in sweepq[i] : status[t] \in Stopped

StopInv == AbsentUntilCreated /\ SignalsFollowRecord /\ TokenFollowsRecord

\* A call record names a task, an instance and an owner.
LEMMA CallFields ==
    ASSUME Types, NEW c \in Call, call[c] # NoCall
    PROVE  /\ call[c] \in CallRecord
           /\ call[c].task \in Task /\ call[c].at \in Instance /\ call[c].by \in Owner
           /\ call[c].keys \in SUBSET Key
BY DEF Types, CallRecord

\* What one step can do to the stored status of a task: create it, move it
\* while it is live and unexpired, or sweep it once it has expired.
StatusEdge(t) ==
    \/ status'[t] = status[t]
    \/ op[t] = "none" /\ op'[t] = "creating" /\ status'[t] = "working"
    \/ /\ status[t] \in {"working", "input_required"} /\ ~expired[t]
       /\ status'[t] \in Stored
    \/ status[t] \in Stored /\ expired[t] /\ status'[t] = "swept"

\* Every step moves every task along one of those edges; a task expires for
\* good, and its operation exists from the step that stores it.
LEMMA StatusEdges ==
    ASSUME Types, [Next]_vars
    PROVE  \A t \in Task :
              /\ StatusEdge(t)
              /\ expired[t] => expired'[t]
              /\ op[t] # "none" => op'[t] # "none"
              /\ op[t] = "none" /\ op'[t] # "none" => status'[t] = "working"
<1> USE DEF StatusEdge
<1> DEFINE Goal == \A t \in Task :
              /\ StatusEdge(t)
              /\ expired[t] => expired'[t]
              /\ op[t] # "none" => op'[t] # "none"
              /\ op[t] = "none" /\ op'[t] # "none" => status'[t] = "working"
<1>1. ASSUME NEW t \in Task, OpStep(t) PROVE Goal
  <2>1. CASE CreateStored(t)
    BY <2>1 DEF Types, CreateStored
  <2>2. CASE CreateRegister(t)
    BY <2>2 DEF Types, CreateRegister
  <2>3. ASSUME NEW keys \in SUBSET Key, RequestInput(t, keys) PROVE Goal
    BY <2>3 DEF Types, RequestInput, CanTransition, Visible
  <2>4. CASE WakeCancelled(t)
    BY <2>4 DEF Types, WakeCancelled
  <2>5. CASE TakeAnswer(t)
    BY <2>5 DEF Types, TakeAnswer
  <2>6. CASE AbandonRequest(t)
    BY <2>6 DEF Types, AbandonRequest
  <2>7. ASSUME NEW to \in {"completed", "failed"}, SettleRun(t, to) PROVE Goal
    BY <2>7 DEF Types, SettleRun, CanTransition, Visible
  <2>8. ASSUME NEW o \in Owner, NEW to \in {"completed", "failed"}, SettleById(o, t, to)
        PROVE Goal
    BY <2>8 DEF Types, SettleById, CanTransition, Visible
  <2>9. CASE DropRun(t)
    BY <2>9 DEF Types, DropRun
  <2>10. CASE DropReceiver(t)
    BY <2>10 DEF Types, DropReceiver
  <2>11. CASE CreateRefused(t)
    BY <2>11 DEF Types, CreateRefused
  <2>12. ASSUME NEW o \in Owner, NEW keys \in SUBSET Key, RequestById(o, t, keys)
         PROVE Goal
    BY <2>12 DEF Types, RequestById, CanTransition, Visible
  <2> QED
    BY <1>1, <2>1, <2>2, <2>3, <2>4, <2>5, <2>6, <2>7, <2>8, <2>9, <2>10, <2>11, <2>12
       DEF OpStep
<1>2. ASSUME NEW t \in Task, Expire(t) PROVE Goal
  BY <1>2 DEF Types, Expire
<1>3. ASSUME NEW m \in bus, Deliver(m) \/ LoseSignal(m) PROVE Goal
  BY <1>3 DEF Deliver, LoseSignal
<1>4. ASSUME NEW c \in Call, CallStarts(c) PROVE Goal
  <2> PICK o \in Owner, i \in Instance, t \in Task :
        \/ \E keys \in SUBSET Key : UpdateGet(c, o, i, t, keys)
        \/ \E keys \in SUBSET Key : FirstStoreFails(c, o, i, t, keys)
        \/ CancelRecord(c, o, i, t)
    BY <1>4 DEF CallStarts
  <2>1. CASE \E keys \in SUBSET Key : UpdateGet(c, o, i, t, keys)
    BY <2>1 DEF UpdateGet
  <2>2. CASE CancelRecord(c, o, i, t)
    BY <2>2 DEF Types, CancelRecord, CanTransition, Visible
  <2>3. CASE \E keys \in SUBSET Key : FirstStoreFails(c, o, i, t, keys)
    BY <2>3 DEF FirstStoreFails
  <2> QED
    BY <2>1, <2>2, <2>3
<1>5. ASSUME NEW c \in Call, CallStep(c) PROVE Goal
  <2>1. CASE UpdateLookup(c)
    BY <2>1 DEF UpdateLookup
  <2>2. CASE UpdateTake(c)
    <3>1. call[c].task \in Task
      BY <2>2, CallFields DEF UpdateTake, At
    <3> QED
      BY <2>2, <3>1 DEF Types, UpdateTake, Visible
  <2>3. CASE UpdateHand(c)
    BY <2>3 DEF UpdateHand
  <2>4. CASE UpdateFail(c)
    <3>1. call[c].task \in Task
      BY <2>4, CallFields DEF UpdateFail, At
    <3> QED
      BY <2>4, <3>1 DEF Types, UpdateFail, CanTransition, Visible
  <2>5. CASE CancelSignal(c)
    BY <2>5 DEF CancelSignal
  <2> QED
    BY <1>5, <2>1, <2>2, <2>3, <2>4, <2>5 DEF CallStep
<1>6. ASSUME NEW c \in Call, StoreFails(c) \/ CallDropped(c) \/ Answered(c) PROVE Goal
  BY <1>6 DEF StoreFails, CallDropped, Answered
<1>7. ASSUME NEW i \in Instance, Sweep(i) PROVE Goal
  BY <1>7 DEF Types, Sweep, Overdue
<1>8. ASSUME NEW i \in Instance, NEW t \in Task, SweepSignal(i, t) PROVE Goal
  BY <1>8 DEF SweepSignal
<1>9. CASE UNCHANGED vars
  BY <1>9 DEF vars
<1> QED
  BY <1>1, <1>2, <1>3, <1>4, <1>5, <1>6, <1>7, <1>8, <1>9 DEF Next, SweepLoop

\* A step never takes a task out of Stopped.
LEMMA StoppedStays ==
    ASSUME Types, AbsentUntilCreated, [Next]_vars, NEW t \in Task, status[t] \in Stopped
    PROVE  status'[t] \in Stopped
BY StatusEdges DEF StatusEdge, Stopped, AbsentUntilCreated

\* AbsentUntilCreated is inductive.
LEMMA AbsentStep ==
    ASSUME Types, AbsentUntilCreated, [Next]_vars
    PROVE  AbsentUntilCreated'
<1>1. ASSUME NEW t \in Task
      PROVE  op'[t] = "none" <=> status'[t] = "absent"
  BY StatusEdges DEF StatusEdge, AbsentUntilCreated, Types
<1>2. ASSUME NEW t \in Task, status'[t] = "absent" PROVE ~expired'[t]
  <2>1. status[t] = "absent" /\ ~expired[t]
    BY <1>2, StatusEdges DEF StatusEdge, AbsentUntilCreated
  <2>2. expired'[t] = expired[t] \/ Expire(t)
    <3>1. ASSUME NEW u \in Task, Expire(u) PROVE expired'[t] = expired[t] \/ Expire(t)
      BY <3>1 DEF Types, Expire
    <3>2. ASSUME NEW u \in Task, OpStep(u) PROVE UNCHANGED expired
      BY <3>2 DEF OpStep, CreateStored, CreateRefused, CreateRegister, RequestById,
                  RequestInput, WakeCancelled, TakeAnswer, AbandonRequest, SettleRun,
                SettleById, DropRun, DropReceiver
    <3>3. ASSUME NEW c \in Call,
                 CallStarts(c) \/ CallStep(c) \/ StoreFails(c) \/ CallDropped(c) \/ Answered(c)
          PROVE  UNCHANGED expired
      BY <3>3 DEF CallStarts, CallStep, StoreFails, CallDropped, Answered, UpdateGet,
                  FirstStoreFails, CancelRecord, UpdateLookup, UpdateTake, UpdateHand, UpdateFail, CancelSignal
    <3> QED
      BY <3>1, <3>2, <3>3 DEF Next, SweepLoop, vars, Deliver, LoseSignal, Sweep, SweepSignal
  <2> QED
    BY <2>1, <2>2 DEF Expire
<1> QED
  BY <1>1, <1>2 DEF AbsentUntilCreated

\* A step that leaves tokens, bus, pending signals and sweeps alone keeps
\* StopInv, whatever it does to the store.
LEMMA QuietStep ==
    ASSUME Types, StopInv, [Next]_vars,
           UNCHANGED <<token, sweepq>>,
           \A m \in bus' : m.kind = "cancelled" => m \in bus,
           \A c \in Call : At(c, "signal")' => At(c, "signal") /\ call'[c].task = call[c].task
    PROVE  StopInv'
<1>1. AbsentUntilCreated'
  BY AbsentStep DEF StopInv
<1>2. \A m \in bus' : m.kind = "cancelled" => status'[m.task] \in Stopped
  <2> SUFFICES ASSUME NEW m \in bus', m.kind = "cancelled"
               PROVE  status'[m.task] \in Stopped
    OBVIOUS
  <2>1. m \in bus /\ m.task \in Task
    BY DEF Types, Signal
  <2> QED
    BY <2>1, StoppedStays DEF StopInv, SignalsFollowRecord
<1>3. ASSUME NEW c \in Call, At(c, "signal")' PROVE status'[call'[c].task] \in Stopped
  <2>1. At(c, "signal") /\ call'[c].task = call[c].task
    BY <1>3
  <2>2. call[c].task \in Task
    BY <2>1, CallFields DEF At
  <2>3. status[call[c].task] \in Stopped
    BY <2>1 DEF StopInv, SignalsFollowRecord
  <2> QED
    BY <2>1, <2>2, <2>3, StoppedStays DEF StopInv
<1>4. ASSUME NEW i \in Instance, NEW t \in sweepq'[i] PROVE status'[t] \in Stopped
  BY StoppedStays DEF StopInv, SignalsFollowRecord, Types
<1>5. TokenFollowsRecord'
  BY StoppedStays DEF StopInv, TokenFollowsRecord, Types, Stopped
<1> QED
  BY <1>1, <1>2, <1>3, <1>4, <1>5 DEF StopInv, SignalsFollowRecord

\* signal_cancelled for a recorded task keeps the token set and the bus in
\* line with the store.
LEMMA SignalStep ==
    ASSUME Types, StopInv, [Next]_vars, UNCHANGED status,
           NEW t \in Task, NEW i \in Instance, status[t] \in Stopped, SignalCancelled(t, i)
    PROVE  /\ TokenFollowsRecord'
           /\ \A m \in bus' : m.kind = "cancelled" => status'[m.task] \in Stopped
<1>1. TokenFollowsRecord'
  BY DEF SignalCancelled, StopInv, TokenFollowsRecord, Stopped
<1>2. \A m \in Published("cancelled", t, {}, i) : m.task = t
  BY DEF Published
<1>3. \A m \in bus' : m.kind = "cancelled" => status'[m.task] \in Stopped
  BY <1>2 DEF SignalCancelled, StopInv, SignalsFollowRecord
<1> QED
  BY <1>1, <1>3

\* StopInv is inductive: one step per action that signals, records a
\* cancellation, delivers or sweeps; every other step is quiet.
LEMMA StopStep == Types /\ StopInv /\ [Next]_vars => StopInv'
<1> SUFFICES ASSUME Types, StopInv, [Next]_vars PROVE StopInv'
  OBVIOUS
<1>1. ASSUME NEW t \in Task, OpStep(t) PROVE StopInv'
  <2>1. UNCHANGED <<token, sweepq, bus, call>>
    BY <1>1 DEF OpStep, CreateStored, CreateRefused, CreateRegister, RequestById,
                RequestInput, WakeCancelled, TakeAnswer, AbandonRequest, SettleRun,
                SettleById, DropRun, DropReceiver
  <2> QED
    BY <2>1, QuietStep DEF At
<1>2. ASSUME NEW t \in Task, Expire(t) PROVE StopInv'
  BY <1>2, QuietStep DEF Expire, At
<1>3. ASSUME NEW m \in bus, Deliver(m) PROVE StopInv'
  <2>1. m.task \in Task
    BY DEF Types, Signal
  <2>2. AbsentUntilCreated'
    BY AbsentStep DEF StopInv
  <2>3. TokenFollowsRecord'
    BY <1>3, <2>1 DEF Deliver, StopInv, SignalsFollowRecord, TokenFollowsRecord, Stopped
  <2>4. SignalsFollowRecord'
    BY <1>3 DEF Deliver, StopInv, SignalsFollowRecord, At
  <2> QED
    BY <2>2, <2>3, <2>4 DEF StopInv
<1>4. ASSUME NEW m \in bus, LoseSignal(m) PROVE StopInv'
  BY <1>4, QuietStep DEF LoseSignal, At
<1>5. ASSUME NEW c \in Call, CallStarts(c) PROVE StopInv'
  <2> PICK o \in Owner, i \in Instance, t \in Task :
        \/ \E keys \in SUBSET Key : UpdateGet(c, o, i, t, keys)
        \/ \E keys \in SUBSET Key : FirstStoreFails(c, o, i, t, keys)
        \/ CancelRecord(c, o, i, t)
    BY <1>5 DEF CallStarts
  <2>1. ASSUME NEW keys \in SUBSET Key, UpdateGet(c, o, i, t, keys) PROVE StopInv'
    <3>1. \A d \in Call : At(d, "signal")' => At(d, "signal") /\ call'[d] = call[d]
      BY <2>1 DEF UpdateGet, Begin, At, Types
    <3> QED
      BY <2>1, <3>1, QuietStep DEF UpdateGet
  <2>2. CASE CancelRecord(c, o, i, t) /\ ~CanTransition(o, t)
    <3>1. \A d \in Call : At(d, "signal")' => At(d, "signal") /\ call'[d] = call[d]
      BY <2>2 DEF CancelRecord, Begin, At, Types
    <3> QED
      BY <2>2, <3>1, QuietStep DEF CancelRecord
  <2>3. CASE CancelRecord(c, o, i, t) /\ CanTransition(o, t)
    <3>1. status' = [status EXCEPT ![t] = "cancelled"] /\ UNCHANGED <<token, bus, sweepq>>
      BY <2>3 DEF CancelRecord
    <3>2. \A u \in Task : status[u] \in Stopped => status'[u] \in Stopped
      BY StoppedStays DEF StopInv
    <3>3. \A d \in Call : At(d, "signal")' =>
             \/ At(d, "signal") /\ call'[d] = call[d]
             \/ call'[d].task = t
      BY <2>3 DEF CancelRecord, Begin, At, Types
    <3>4. \A d \in Call : At(d, "signal")' => status'[call'[d].task] \in Stopped
      BY <3>1, <3>2, <3>3, CallFields DEF Types, Stopped, At, StopInv, SignalsFollowRecord
    <3>5. \A m \in bus' : m.kind = "cancelled" => status'[m.task] \in Stopped
      BY <3>1, <3>2 DEF Types, Signal, StopInv, SignalsFollowRecord
    <3>6. \A j \in Instance : \A u \in sweepq'[j] : status'[u] \in Stopped
      BY <3>1, <3>2 DEF Types, StopInv, SignalsFollowRecord
    <3>7. TokenFollowsRecord'
      BY <3>1, <3>2 DEF Types, StopInv, TokenFollowsRecord, Stopped
    <3> QED
      BY <3>4, <3>5, <3>6, <3>7, AbsentStep DEF StopInv, SignalsFollowRecord
  <2>4. ASSUME NEW keys \in SUBSET Key, FirstStoreFails(c, o, i, t, keys) PROVE StopInv'
    <3>1. \A d \in Call : At(d, "signal")' => At(d, "signal") /\ call'[d] = call[d]
      BY <2>4 DEF FirstStoreFails, Begin, At, Types
    <3> QED
      BY <2>4, <3>1, QuietStep DEF FirstStoreFails
  <2> QED
    BY <2>1, <2>2, <2>3, <2>4
<1>6. ASSUME NEW c \in Call, CallStep(c) PROVE StopInv'
  <2>1. CASE UpdateLookup(c) \/ UpdateTake(c) \/ UpdateFail(c)
    <3>1. UNCHANGED <<token, sweepq, bus>>
      BY <2>1 DEF UpdateLookup, UpdateTake, UpdateFail
    <3>2. \A d \in Call : At(d, "signal")' => At(d, "signal") /\ call'[d] = call[d]
      <4>1. \A d \in Call \ {c} : call'[d] = call[d]
        BY <2>1 DEF UpdateLookup, UpdateTake, UpdateFail, Return, Types
      <4>2. ~At(c, "signal")'
        BY <2>1, CallFields
           DEF UpdateLookup, UpdateTake, UpdateFail, Return, Types, At, CallRecord
      <4> QED
        BY <4>1, <4>2 DEF At
    <3> QED
      BY <3>1, <3>2, QuietStep
  <2>2. CASE UpdateHand(c)
    <3>1. UNCHANGED <<token, sweepq>>
      BY <2>2 DEF UpdateHand
    <3>2. \A m \in bus' : m.kind = "cancelled" => m \in bus
      BY <2>2 DEF UpdateHand, Published
    <3>3. \A d \in Call : At(d, "signal")' => At(d, "signal") /\ call'[d] = call[d]
      <4>1. \A d \in Call \ {c} : call'[d] = call[d]
        BY <2>2 DEF UpdateHand, Return, Goto, Types
      <4>2. ~At(c, "signal")'
        BY <2>2, CallFields DEF UpdateHand, Return, Goto, Types, At, CallRecord
      <4> QED
        BY <4>1, <4>2 DEF At
    <3> QED
      BY <3>1, <3>2, <3>3, QuietStep
  <2>3. CASE CancelSignal(c)
    <3>1. /\ call[c].task \in Task /\ call[c].at \in Instance
          /\ status[call[c].task] \in Stopped
      BY <2>3, CallFields DEF CancelSignal, At, StopInv, SignalsFollowRecord
    <3>2. /\ TokenFollowsRecord'
          /\ \A m \in bus' : m.kind = "cancelled" => status'[m.task] \in Stopped
      BY <2>3, <3>1, SignalStep DEF CancelSignal
    <3>3. \A d \in Call : At(d, "signal")' => At(d, "signal") /\ call'[d] = call[d]
      <4>1. \A d \in Call \ {c} : call'[d] = call[d]
        BY <2>3 DEF CancelSignal, Return, Types
      <4>2. ~At(c, "signal")'
        BY <2>3, CallFields DEF CancelSignal, Return, Types, At, CallRecord
      <4> QED
        BY <4>1, <4>2 DEF At
    <3>4. SignalsFollowRecord'
      BY <2>3, <3>2, <3>3 DEF CancelSignal, StopInv, SignalsFollowRecord
    <3> QED
      BY <3>2, <3>4, AbsentStep DEF StopInv
  <2> QED
    BY <1>6, <2>1, <2>2, <2>3 DEF CallStep
<1>7. ASSUME NEW c \in Call, StoreFails(c) PROVE StopInv'
  <2>1. \A d \in Call : At(d, "signal")' => At(d, "signal") /\ call'[d] = call[d]
    BY <1>7, CallFields DEF StoreFails, Return, Types, At, CallRecord
  <2> QED
    BY <1>7, <2>1, QuietStep DEF StoreFails
<1>8. ASSUME NEW c \in Call, CallDropped(c) \/ Answered(c) PROVE StopInv'
  <2>1. \A d \in Call : At(d, "signal")' => At(d, "signal") /\ call'[d] = call[d]
    BY <1>8 DEF CallDropped, Answered, Types, At
  <2> QED
    BY <1>8, <2>1, QuietStep DEF CallDropped, Answered
<1>9. ASSUME NEW i \in Instance, Sweep(i) PROVE StopInv'
  <2>1. \A u \in Task : status[u] \in Stopped => status'[u] \in Stopped
    BY StoppedStays DEF StopInv
  <2>2. \A j \in Instance : \A u \in sweepq'[j] : status'[u] \in Stopped
    BY <1>9, <2>1 DEF Sweep, Overdue, Types, StopInv, SignalsFollowRecord, Stopped
  <2>3. \A m \in bus' : m.kind = "cancelled" => status'[m.task] \in Stopped
    BY <1>9, <2>1 DEF Sweep, Types, Signal, StopInv, SignalsFollowRecord
  <2>4. \A d \in Call : At(d, "signal")' => status'[call'[d].task] \in Stopped
    BY <1>9, <2>1, CallFields DEF Sweep, At, StopInv, SignalsFollowRecord
  <2>5. TokenFollowsRecord'
    BY <1>9, <2>1 DEF Sweep, Types, StopInv, TokenFollowsRecord, Stopped
  <2> QED
    BY <2>2, <2>3, <2>4, <2>5, AbsentStep DEF StopInv, SignalsFollowRecord
<1>10. ASSUME NEW i \in Instance, NEW t \in Task, SweepSignal(i, t) PROVE StopInv'
  <2>1. status[t] \in Stopped
    BY <1>10 DEF SweepSignal, StopInv, SignalsFollowRecord
  <2>2. /\ TokenFollowsRecord'
        /\ \A m \in bus' : m.kind = "cancelled" => status'[m.task] \in Stopped
    BY <1>10, <2>1, SignalStep DEF SweepSignal
  <2>3. SignalsFollowRecord'
    BY <1>10, <2>2 DEF SweepSignal, StopInv, SignalsFollowRecord, At, Types
  <2> QED
    BY <2>2, <2>3, AbsentStep DEF StopInv
<1>11. CASE UNCHANGED vars
  BY <1>11, QuietStep DEF vars, At
<1> QED
  BY <1>1, <1>2, <1>3, <1>4, <1>5, <1>6, <1>7, <1>8, <1>9, <1>10, <1>11 DEF Next, SweepLoop

\* The inductive invariant behind the next three theorems.
LEMMA StopInvariant == Spec => []StopInv
<1>1. Init => StopInv
  BY DEF Init, StopInv, AbsentUntilCreated, SignalsFollowRecord, TokenFollowsRecord, At, NoCall
<1> QED
  BY <1>1, StopStep, TypesCorrect, PTL DEF Spec

\* Type correctness of the task engine, whatever the constants, and a run is made
\* of exactly the tasks the store took (TaskManager::create).
THEOREM TypeCorrect == Spec => []TypeOK
<1>1. Types /\ StopInv => TypeOK
  BY DEF StopInv, AbsentUntilCreated, TypeOK
<1> QED
  BY <1>1, TypesCorrect, StopInvariant, PTL

\* TaskManager::cancel and ::sweep_expired on any number of instances: no
\* operation's token fires before its task is recorded as cancelled or swept.
THEOREM TokenSafety == Spec => []TokenFollowsRecord
<1>1. StopInv => TokenFollowsRecord
  BY DEF StopInv
<1> QED
  BY <1>1, StopInvariant, PTL

-----------------------------------------------------------------------------
(* TaskManager implements TaskLifecycle.                                   *)

\* A step that changes the status of one visible, live task and nothing else a
\* client or an operation sees is a step of the life cycle.
LEMMA MoveStep ==
    ASSUME Types, NEW o \in Owner, NEW t \in Task, CanTransition(o, t),
           NEW to \in {"input_required", "completed", "failed", "cancelled"},
           status' = [status EXCEPT ![t] = to], UNCHANGED <<expired, token>>
    PROVE  Lifecycle!Next
<1>1. View[t] \in Lifecycle!Live /\ View' = [View EXCEPT ![t] = to]
  BY DEF View, Types, CanTransition, Visible, Lifecycle!Live
<1>2. Lifecycle!Ask(t) \/ Lifecycle!Settle(t)
  BY <1>1 DEF Lifecycle!Ask, Lifecycle!Settle, Lifecycle!Settled
<1> QED
  BY <1>2 DEF Lifecycle!Next

\* Firing the token of a recorded task is a step of the life cycle or none.
LEMMA FireStep ==
    ASSUME Types, StopInv, NEW t \in Task, status[t] \in Stopped,
           token' = token \cup {t}, UNCHANGED <<status, expired>>
    PROVE  Lifecycle!Next
<1>1. View[t] \in {"cancelled", "gone"} /\ UNCHANGED View
  BY DEF View, Stopped
<1>2. Lifecycle!Stop(t)
  BY <1>1 DEF Lifecycle!Stop
<1> QED
  BY <1>2 DEF Lifecycle!Next

\* Every step of the engine is a step of the life cycle or changes nothing it
\* speaks of.
LEMMA LifecycleStep ==
    Types /\ StopInv /\ [Next]_vars => [Lifecycle!Next]_(Lifecycle!absVars)
<1> SUFFICES ASSUME Types, StopInv, [Next]_vars
             PROVE  Lifecycle!Next \/ UNCHANGED <<View, token>>
  BY DEF Lifecycle!absVars
<1> DEFINE Goal == Lifecycle!Next \/ UNCHANGED <<View, token>>
<1> USE TaskManagerAssumption
<1>0. ASSUME UNCHANGED <<status, expired, token>> PROVE Goal
  BY <1>0 DEF View
<1>1. ASSUME NEW t \in Task, OpStep(t) PROVE Goal
  <2>1. CASE CreateStored(t)
    <3>1. View[t] = "none" /\ View' = [View EXCEPT ![t] = "working"]
      BY <2>1 DEF CreateStored, View, Types, StopInv, AbsentUntilCreated
    <3>2. Lifecycle!Start(t)
      BY <2>1, <3>1 DEF CreateStored, Lifecycle!Start
    <3> QED
      BY <3>2 DEF Lifecycle!Next
  <2>2. ASSUME NEW keys \in SUBSET Key, RequestInput(t, keys) PROVE Goal
    BY <2>2, MoveStep DEF RequestInput
  <2>3. ASSUME NEW to \in {"completed", "failed"}, SettleRun(t, to) PROVE Goal
    BY <1>0, <2>3, MoveStep DEF SettleRun
  <2>4. ASSUME NEW o \in Owner, NEW to \in {"completed", "failed"}, SettleById(o, t, to)
        PROVE Goal
    BY <2>4, MoveStep DEF SettleById
  <2>5. ASSUME NEW o \in Owner, NEW keys \in SUBSET Key, RequestById(o, t, keys) PROVE Goal
    BY <2>5, MoveStep DEF RequestById
  <2>6. CASE \/ CreateRefused(t) \/ CreateRegister(t) \/ WakeCancelled(t) \/ TakeAnswer(t)
             \/ AbandonRequest(t) \/ DropRun(t) \/ DropReceiver(t)
    BY <1>0, <2>6 DEF CreateRefused, CreateRegister, WakeCancelled, TakeAnswer,
                      AbandonRequest, DropRun, DropReceiver
  <2> QED
    BY <1>1, <2>1, <2>2, <2>3, <2>4, <2>5, <2>6 DEF OpStep
<1>2. ASSUME NEW t \in Task, Expire(t) PROVE Goal
  <2>1. View[t] # "none" /\ View' = [View EXCEPT ![t] = "gone"]
    BY <1>2 DEF Expire, View, Types
  <2>2. Lifecycle!Forget(t)
    BY <1>2, <2>1 DEF Expire, Lifecycle!Forget
  <2> QED
    BY <2>2 DEF Lifecycle!Next
<1>3. ASSUME NEW m \in bus, Deliver(m) PROVE Goal
  <2>1. m.task \in Task
    BY DEF Types, Signal
  <2>2. UNCHANGED <<status, expired>>
    BY <1>3 DEF Deliver
  <2>3. CASE token' = token
    BY <1>0, <2>2, <2>3
  <2>4. CASE token' # token
    <3>1. token' = token \cup {m.task} /\ m.kind = "cancelled"
      BY <1>3, <2>4 DEF Deliver
    <3>2. status[m.task] \in Stopped
      BY <3>1 DEF StopInv, SignalsFollowRecord
    <3> QED
      BY <2>1, <2>2, <3>1, <3>2, FireStep
  <2> QED
    BY <2>3, <2>4
<1>4. ASSUME NEW m \in bus, LoseSignal(m) PROVE Goal
  BY <1>0, <1>4 DEF LoseSignal
<1>5. ASSUME NEW c \in Call, CallStarts(c) PROVE Goal
  <2> PICK o \in Owner, i \in Instance, t \in Task :
        \/ \E keys \in SUBSET Key : UpdateGet(c, o, i, t, keys)
        \/ \E keys \in SUBSET Key : FirstStoreFails(c, o, i, t, keys)
        \/ CancelRecord(c, o, i, t)
    BY <1>5 DEF CallStarts
  <2>1. CASE \E keys \in SUBSET Key : UpdateGet(c, o, i, t, keys)
    BY <1>0, <2>1 DEF UpdateGet
  <2>2. CASE CancelRecord(c, o, i, t)
    BY <1>0, <2>2, MoveStep DEF CancelRecord
  <2>3. CASE \E keys \in SUBSET Key : FirstStoreFails(c, o, i, t, keys)
    BY <1>0, <2>3 DEF FirstStoreFails
  <2> QED
    BY <2>1, <2>2, <2>3
<1>6. ASSUME NEW c \in Call, CallStep(c) PROVE Goal
  <2>1. CASE UpdateLookup(c) \/ UpdateHand(c)
    BY <1>0, <2>1 DEF UpdateLookup, UpdateHand
  <2>2. CASE UpdateTake(c)
    <3>1. call[c].task \in Task /\ UNCHANGED <<expired, token>>
      BY <2>2, CallFields DEF UpdateTake, At
    <3>2. CASE UNCHANGED status
      BY <1>0, <3>1, <3>2
    <3>3. CASE status' # status
      <4> DEFINE t == call[c].task
      <4>0. /\ status[t] = "input_required" /\ ~expired[t]
            /\ status' = [status EXCEPT ![t] = "working"]
        BY <2>2, <3>3 DEF UpdateTake, Visible
      <4>1. /\ View[t] = "input_required"
            /\ View' = [View EXCEPT ![t] = "working"]
        BY <3>1, <4>0 DEF View, Types
      <4>2. Lifecycle!Answer(t)
        BY <3>1, <4>1 DEF Lifecycle!Answer
      <4> QED
        BY <3>1, <4>2 DEF Lifecycle!Next
    <3> QED
      BY <3>2, <3>3
  <2>3. CASE UpdateFail(c)
    <3>1. call[c].task \in Task /\ call[c].by \in Owner
      BY <2>3, CallFields DEF UpdateFail, At
    <3> QED
      BY <1>0, <2>3, <3>1, MoveStep DEF UpdateFail
  <2>4. CASE CancelSignal(c)
    <3>1. call[c].task \in Task /\ status[call[c].task] \in Stopped
      BY <2>4, CallFields DEF CancelSignal, At, StopInv, SignalsFollowRecord
    <3> QED
      BY <1>0, <2>4, <3>1, FireStep DEF CancelSignal, SignalCancelled
  <2> QED
    BY <1>6, <2>1, <2>2, <2>3, <2>4 DEF CallStep
<1>7. ASSUME NEW c \in Call, StoreFails(c) \/ CallDropped(c) \/ Answered(c) PROVE Goal
  BY <1>0, <1>7 DEF StoreFails, CallDropped, Answered
<1>8. ASSUME NEW i \in Instance, Sweep(i) PROVE Goal
  BY <1>8 DEF Sweep, Overdue, View, Types
<1>9. ASSUME NEW i \in Instance, NEW t \in Task, SweepSignal(i, t) PROVE Goal
  <2>1. status[t] \in Stopped
    BY <1>9 DEF SweepSignal, StopInv, SignalsFollowRecord
  <2> QED
    BY <1>0, <1>9, <2>1, FireStep DEF SweepSignal, SignalCancelled
<1>10. CASE UNCHANGED vars
  BY <1>0, <1>10 DEF vars
<1> QED
  BY <1>1, <1>2, <1>3, <1>4, <1>5, <1>6, <1>7, <1>8, <1>9, <1>10 DEF Next, SweepLoop

\* The engine implements TaskLifecycle: whatever the instances, calls, sweeps
\* and signals do, a client sees a status change only along the life cycle, a
\* terminal status is final until the task expires, and an operation is told
\* to stop only after the record.
THEOREM Refinement == Spec => ImplementsLifecycle
<1>1. Init => Lifecycle!Init
  BY DEF Init, Lifecycle!Init, View
<1> QED
  BY <1>1, LifecycleStep, TypesCorrect, StopInvariant, PTL
     DEF Spec, ImplementsLifecycle, Lifecycle!Spec

-----------------------------------------------------------------------------
(* Isolation between owners.                                               *)

\* Every step keeps a foreign caller at its NotFound.
LEMMA ForeignStep == Types /\ ForeignReadsAbsent /\ [Next]_vars => ForeignReadsAbsent'
<1> SUFFICES ASSUME Types, ForeignReadsAbsent, [Next]_vars PROVE ForeignReadsAbsent'
  OBVIOUS
<1>0. ASSUME UNCHANGED call PROVE ForeignReadsAbsent'
  BY <1>0 DEF ForeignReadsAbsent
<1>1. ASSUME NEW t \in Task, OpStep(t) PROVE ForeignReadsAbsent'
  BY <1>0, <1>1 DEF OpStep, CreateStored, CreateRefused, CreateRegister, RequestById,
        RequestInput, WakeCancelled, TakeAnswer, AbandonRequest, SettleRun,
        SettleById, DropRun, DropReceiver
<1>2. ASSUME NEW c \in Call, CallStarts(c) PROVE ForeignReadsAbsent'
  <2> PICK o \in Owner, i \in Instance, t \in Task :
        \/ \E keys \in SUBSET Key : UpdateGet(c, o, i, t, keys)
        \/ \E keys \in SUBSET Key : FirstStoreFails(c, o, i, t, keys)
        \/ CancelRecord(c, o, i, t)
    BY <1>2 DEF CallStarts
  <2>1. \A d \in Call \ {c} : call'[d] = call[d]
    BY DEF UpdateGet, FirstStoreFails, CancelRecord, Begin, Types
  <2>2. call'[c].by # OwnerOf[call'[c].task] =>
            call'[c].pc = "done" /\ call'[c].result \in {"NotFound", "Store"}
    BY DEF UpdateGet, FirstStoreFails, CancelRecord, Begin, Types, Visible, CanTransition, Refusal
  <2> QED
    BY <2>1, <2>2 DEF ForeignReadsAbsent
<1>3. ASSUME NEW c \in Call,
             CallStep(c) \/ StoreFails(c) \/ CallDropped(c) \/ Answered(c)
      PROVE  ForeignReadsAbsent'
  <2>1. \A d \in Call \ {c} : call'[d] = call[d]
    BY <1>3 DEF CallStep, UpdateLookup, UpdateTake, UpdateHand, UpdateFail, CancelSignal,
                StoreFails, CallDropped, Answered, Return, Goto, Types
  <2>2. CASE CallDropped(c) \/ Answered(c)
    BY <2>1, <2>2 DEF CallDropped, Answered, ForeignReadsAbsent, Types
  <2>3. CASE CallStep(c) \/ StoreFails(c)
    <3>1. call[c] # NoCall /\ call[c].pc # "done"
      BY <2>3 DEF CallStep, UpdateLookup, UpdateTake, UpdateHand, UpdateFail, CancelSignal,
                  StoreFails, At
    <3>2. call[c].by = OwnerOf[call[c].task]
      BY <3>1 DEF ForeignReadsAbsent
    <3>3. call'[c].by = call[c].by /\ call'[c].task = call[c].task
      <4>0. call[c] \in CallRecord
        BY <3>1, CallFields
      <4>1. CASE \/ \E r : Return(c, r)
                 \/ \E pc : Goto(c, pc)
        BY <4>0, <4>1 DEF Return, Goto, Types, CallRecord
      <4>2. CASE UpdateLookup(c)
        BY <4>0, <4>1, <4>2 DEF UpdateLookup, Types, CallRecord
      <4>3. CASE UpdateTake(c)
        BY <4>0, <4>1, <4>3 DEF UpdateTake, Types, CallRecord
      <4> QED
        BY <2>3, <4>1, <4>2, <4>3 DEF CallStep, UpdateHand, UpdateFail, CancelSignal, StoreFails
    <3> QED
      BY <2>1, <3>2, <3>3 DEF ForeignReadsAbsent
  <2> QED
    BY <1>3, <2>2, <2>3
<1> QED
  BY <1>0, <1>1, <1>2, <1>3 DEF Next, SweepLoop, vars, Expire, Deliver, LoseSignal, Sweep, SweepSignal

\* TaskOwner isolation in apply_input and cancel: on every instance and in
\* every interleaving, a caller that does not own the task is told it is
\* absent, or that the store failed, and nothing else.
THEOREM OwnerIsolation == Spec => []ForeignReadsAbsent
<1>1. Init => ForeignReadsAbsent
  BY DEF Init, ForeignReadsAbsent
<1> QED
  BY <1>1, ForeignStep, TypesCorrect, PTL DEF Spec
-----------------------------------------------------------------------------
(* Input nobody took.                                                      *)

\* Only the update that took the input and then failed the task reports
\* Detached with `took`, and a settled task stays settled until it is swept.
DetachedInv ==
    \A c \in Call :
        call[c] # NoCall =>
            /\ call[c].pc \in {"lookup", "take", "signal"} => ~call[c].took
            /\ call[c].pc = "done" /\ call[c].result = "Detached" /\ call[c].took =>
                  status[call[c].task] \in Terminal \cup {"swept"}

\* A settled task stays settled, or is swept.
LEMMA SettledStays ==
    ASSUME Types, AbsentUntilCreated, [Next]_vars, NEW t \in Task,
           status[t] \in Terminal \cup {"swept"}
    PROVE  status'[t] \in Terminal \cup {"swept"}
BY StatusEdges DEF StatusEdge, AbsentUntilCreated

\* A step of one call leaves the other calls' part of DetachedInv alone.
LEMMA DetachedFrame ==
    ASSUME Types, AbsentUntilCreated, DetachedInv, [Next]_vars, NEW d \in Call,
           call'[d] = call[d], call[d] # NoCall
    PROVE  /\ call'[d].pc \in {"lookup", "take", "signal"} => ~call'[d].took
           /\ call'[d].pc = "done" /\ call'[d].result = "Detached" /\ call'[d].took =>
                 status'[call'[d].task] \in Terminal \cup {"swept"}
<1>1. call[d].task \in Task
  BY CallFields
<1> QED
  BY <1>1, SettledStays DEF DetachedInv

\* Every step keeps DetachedInv.
LEMMA DetachedStep == Types /\ AbsentUntilCreated /\ DetachedInv /\ [Next]_vars => DetachedInv'
<1> SUFFICES ASSUME Types, AbsentUntilCreated, DetachedInv, [Next]_vars PROVE DetachedInv'
  OBVIOUS
<1>0. ASSUME UNCHANGED call PROVE DetachedInv'
  BY <1>0, DetachedFrame DEF DetachedInv
<1>1. ASSUME NEW t \in Task, OpStep(t) PROVE DetachedInv'
  BY <1>0, <1>1 DEF OpStep, CreateStored, CreateRefused, CreateRegister, RequestById,
        RequestInput, WakeCancelled, TakeAnswer, AbandonRequest, SettleRun,
        SettleById, DropRun, DropReceiver
<1>2. ASSUME NEW c \in Call, CallStarts(c) PROVE DetachedInv'
  <2> PICK o \in Owner, i \in Instance, t \in Task :
        \/ \E keys \in SUBSET Key : UpdateGet(c, o, i, t, keys)
        \/ \E keys \in SUBSET Key : FirstStoreFails(c, o, i, t, keys)
        \/ CancelRecord(c, o, i, t)
    BY <1>2 DEF CallStarts
  <2>1. \A d \in Call \ {c} : call'[d] = call[d]
    BY DEF UpdateGet, FirstStoreFails, CancelRecord, Begin, Types
  <2>2. ~call'[c].took
    BY DEF UpdateGet, FirstStoreFails, CancelRecord, Begin, Types
  <2> QED
    BY <2>1, <2>2, DetachedFrame DEF DetachedInv
<1>3. ASSUME NEW c \in Call,
             CallStep(c) \/ StoreFails(c) \/ CallDropped(c) \/ Answered(c)
      PROVE  DetachedInv'
  <2>1. \A d \in Call \ {c} : call'[d] = call[d]
    BY <1>3 DEF CallStep, UpdateLookup, UpdateTake, UpdateHand, UpdateFail, CancelSignal,
                StoreFails, CallDropped, Answered, Return, Goto, Types
  <2>2. CASE CallDropped(c) \/ Answered(c)
    <3>1. call'[c] = NoCall
      BY <2>2 DEF CallDropped, Answered, Types
    <3> QED
      BY <2>1, <3>1, DetachedFrame DEF DetachedInv
  <2>3. CASE CallStep(c) \/ StoreFails(c)
    <3>0. call[c] # NoCall
      BY <2>3 DEF CallStep, UpdateLookup, UpdateTake, UpdateHand, UpdateFail, CancelSignal,
                  StoreFails, At
    <3>1. call[c] \in CallRecord /\ call[c].task \in Task
      BY <3>0, CallFields
    <3> DEFINE OK == /\ call'[c].pc \in {"lookup", "take", "signal"} => ~call'[c].took
                     /\ call'[c].pc = "done" /\ call'[c].result = "Detached" /\ call'[c].took =>
                           status'[call'[c].task] \in Terminal \cup {"swept"}
    <3> SUFFICES OK
      BY <2>1, DetachedFrame DEF DetachedInv
    <3>2. ASSUME NEW r \in Result, Return(c, r)
          PROVE  /\ call'[c].pc = "done" /\ call'[c].result = r
                 /\ call'[c].took = call[c].took /\ call'[c].task = call[c].task
      BY <3>1, <3>2 DEF Return, Types, CallRecord
    <3>3. CASE UpdateLookup(c)
      <4>1. ~call[c].took
        BY <3>0, <3>3 DEF UpdateLookup, At, DetachedInv
      <4>2. CASE Return(c, "Detached")
        BY <3>2, <4>1, <4>2
      <4>3. CASE call' = [call EXCEPT ![c].pc = "take",
                                      ![c].local = RunsHere(call[c].task, call[c].at)]
        BY <3>1, <4>1, <4>3 DEF Types, CallRecord
      <4> QED
        BY <3>3, <4>2, <4>3 DEF UpdateLookup
    <3>4. CASE UpdateTake(c)
      <4>1. CASE \E r \in {"NotFound", "InvalidState", "InvalidInput"} : Return(c, r)
        BY <3>2, <4>1
      <4>2. CASE call' = [call EXCEPT ![c].pc = "hand", ![c].took = TRUE]
        BY <3>1, <4>2 DEF Types, CallRecord
      <4> QED
        BY <3>4, <4>1, <4>2 DEF UpdateTake
    <3>5. CASE UpdateHand(c)
      <4>1. CASE Return(c, "Ok")
        BY <3>2, <4>1
      <4>2. CASE Goto(c, "fail")
        BY <3>1, <4>2 DEF Goto, Types, CallRecord
      <4> QED
        BY <3>5, <4>1, <4>2 DEF UpdateHand
    <3>6. CASE UpdateFail(c)
      <4>1. CASE CanTransition(call[c].by, call[c].task)
        <5>1. Return(c, "Detached") /\ status' = [status EXCEPT ![call[c].task] = "failed"]
          BY <3>6, <4>1 DEF UpdateFail
        <5>2. status'[call[c].task] = "failed"
          BY <3>1, <5>1 DEF Types
        <5> QED
          BY <3>2, <5>1, <5>2
      <4>2. CASE ~CanTransition(call[c].by, call[c].task)
        <5>1. \E r \in {"NotFound", "InvalidState"} : Return(c, r)
          BY <3>6, <4>2 DEF UpdateFail, Refusal
        <5> QED
          BY <3>2, <5>1
      <4> QED
        BY <4>1, <4>2
    <3>7. CASE CancelSignal(c)
      BY <3>2, <3>7 DEF CancelSignal
    <3>8. CASE StoreFails(c)
      BY <3>2, <3>8 DEF StoreFails
    <3> QED
      BY <2>3, <3>3, <3>4, <3>5, <3>6, <3>7, <3>8 DEF CallStep
  <2> QED
    BY <1>3, <2>2, <2>3
<1> QED
  BY <1>0, <1>1, <1>2, <1>3 DEF Next, SweepLoop, vars, Expire, Deliver, LoseSignal, Sweep, SweepSignal

\* apply_input: a client told that the input it gave was taken and then found
\* nobody polls no live task for it, over a host's store as well.
THEOREM DetachedSafety == Spec => []DetachedIsSettled
<1>1. Init => DetachedInv
  BY DEF Init, DetachedInv
<1>2. DetachedInv => DetachedIsSettled
  BY DEF DetachedInv, DetachedIsSettled, At, Visible
<1>3. StopInv => AbsentUntilCreated
  BY DEF StopInv
<1> QED
  BY <1>1, <1>2, <1>3, DetachedStep, TypesCorrect, StopInvariant, PTL DEF Spec
-----------------------------------------------------------------------------
(* Answers and requests.                                                   *)

Early == {"none", "creating", "running"}

\* An answer on its way to the operation of t is in one of three places: a call
\* that took the input and has yet to hand it over, the bus, the channel.
HandFor(t) == {c \in Call : At(c, "hand") /\ call[c].task = t}

InputFor(t) == {m \in bus : m.kind = "input" /\ m.task = t /\ m.to = RunsAt[t]}

NoneUnderWay(t) == HandFor(t) = {} /\ InputFor(t) = {} /\ inbox[t] = <<>>

\* At most one answer is under way, and it answers the requests last made.
OneUnderWay(t) ==
    /\ \A c, d \in HandFor(t) : c = d
    /\ \A m, n \in InputFor(t) : m = n
    /\ HandFor(t) # {} => InputFor(t) = {} /\ inbox[t] = <<>>
    /\ InputFor(t) # {} => inbox[t] = <<>>
    /\ \A c \in HandFor(t) : call[c].keys = asked[t]
    /\ \A m \in InputFor(t) : m.keys = asked[t]
    /\ inbox[t] # <<>> => inbox[t] = <<asked[t]>>

\* None is under way while the task waits for one, nor while its operation
\* could ask again.
AnswerAt(t) ==
    /\ status[t] = "input_required" => op[t] \notin Early /\ NoneUnderWay(t)
    /\ op[t] \in Early /\ status[t] \in {"absent", "working"} => NoneUnderWay(t)
    /\ OneUnderWay(t)

AnswerInv == \A t \in Task : AnswerAt(t)
\* A step that puts no answer under way for t, records no request for it and
\* leaves its operation no closer to asking keeps AnswerAt(t).
LEMMA AnswerFrame ==
    ASSUME NEW t \in Task, AnswerAt(t),
           HandFor(t)' \subseteq HandFor(t), \A c \in HandFor(t)' : call'[c] = call[c],
           InputFor(t)' \subseteq InputFor(t),
           inbox'[t] = inbox[t] \/ inbox'[t] = <<>>,
           asked'[t] = asked[t],
           status'[t] = "input_required" => status[t] = "input_required" /\ op'[t] \notin Early,
           op'[t] \in Early /\ status'[t] \in {"absent", "working"} =>
              op[t] \in Early /\ status[t] \in {"absent", "working"}
    PROVE  AnswerAt(t)'
<1>1. NoneUnderWay(t) => NoneUnderWay(t)'
  BY DEF NoneUnderWay
<1>2. OneUnderWay(t)'
  <2>1. OneUnderWay(t)
    BY DEF AnswerAt
  <2>2. /\ \A c, d \in HandFor(t)' : c = d
        /\ \A m, n \in InputFor(t)' : m = n
        /\ \A c \in HandFor(t)' : call'[c].keys = asked'[t]
        /\ \A m \in InputFor(t)' : m.keys = asked'[t]
    BY <2>1 DEF OneUnderWay
  <2>3. /\ HandFor(t)' # {} => InputFor(t)' = {} /\ inbox'[t] = <<>>
        /\ InputFor(t)' # {} => inbox'[t] = <<>>
        /\ inbox'[t] # <<>> => inbox'[t] = <<asked'[t]>>
    BY <2>1 DEF OneUnderWay
  <2> QED
    BY <2>2, <2>3 DEF OneUnderWay
<1> QED
  BY <1>1, <1>2 DEF AnswerAt

\* The same for a step of which no call, bus or channel is part.
LEMMA AnswerFrameOp ==
    ASSUME NEW t \in Task, AnswerAt(t), UNCHANGED <<call, bus>>,
           inbox'[t] = inbox[t] \/ inbox'[t] = <<>>, asked'[t] = asked[t],
           status'[t] = "input_required" => status[t] = "input_required" /\ op'[t] \notin Early,
           op'[t] \in Early /\ status'[t] \in {"absent", "working"} =>
              op[t] \in Early /\ status[t] \in {"absent", "working"}
    PROVE  AnswerAt(t)'
<1>1. HandFor(t)' = HandFor(t) /\ InputFor(t)' = InputFor(t)
  BY DEF HandFor, InputFor, At
<1> QED
  BY <1>1, AnswerFrame

\* ... and of which the store and the operation are no part.
LEMMA AnswerFrameCall ==
    ASSUME NEW t \in Task, AnswerAt(t), UNCHANGED <<status, asked, op>>, inbox'[t] = inbox[t],
           \A c \in Call : At(c, "hand")' => At(c, "hand") /\ call'[c] = call[c],
           \A m \in bus' : m.kind = "input" => m \in bus
    PROVE  AnswerAt(t)'
<1>1. HandFor(t)' \subseteq HandFor(t) /\ \A c \in HandFor(t)' : call'[c] = call[c]
  BY DEF HandFor
<1>2. InputFor(t)' \subseteq InputFor(t)
  BY DEF InputFor
<1>3. /\ status'[t] = "input_required" => status[t] = "input_required" /\ op'[t] \notin Early
      /\ op'[t] \in Early /\ status'[t] \in {"absent", "working"} =>
            op[t] \in Early /\ status[t] \in {"absent", "working"}
  BY DEF AnswerAt
<1> QED
  BY <1>1, <1>2, <1>3, AnswerFrame

\* The steps of the operation, for a host that awaits what it asks.
LEMMA AnswerOpStep ==
    ASSUME Types, StopInv, AnswerInv, ~UnawaitedAsks, NEW u \in Task, OpStep(u),
           NEW t \in Task
    PROVE  AnswerAt(t)'
<1>0. AnswerAt(t) /\ (status[t] = "absent" <=> op[t] = "none")
  BY DEF AnswerInv, StopInv, AbsentUntilCreated
<1> USE DEF Early
<1>1. CASE CreateStored(u)
  BY <1>0, <1>1, AnswerFrameOp DEF CreateStored, Types, AnswerAt
<1>2. CASE CreateRefused(u)
  BY <1>0, <1>2, AnswerFrameOp DEF CreateRefused, Types, AnswerAt
<1>3. CASE CreateRegister(u)
  BY <1>0, <1>3, AnswerFrameOp DEF CreateRegister, Types, AnswerAt
<1>4. ASSUME NEW keys \in SUBSET Key, RequestInput(u, keys) PROVE AnswerAt(t)'
  <2>1. CASE t # u
    BY <1>0, <1>4, <2>1, AnswerFrameOp DEF RequestInput, Types, AnswerAt
  <2>2. CASE t = u
    <3>1. NoneUnderWay(t)
      BY <1>0, <1>4, <2>2 DEF RequestInput, AnswerAt, CanTransition, Visible
    <3>2. HandFor(t)' = {} /\ InputFor(t)' = {} /\ inbox'[t] = <<>>
      BY <1>4, <3>1 DEF RequestInput, HandFor, InputFor, At, NoneUnderWay
    <3>3. op'[t] = "waiting"
      BY <1>4, <2>2 DEF RequestInput, Types
    <3> QED
      BY <3>2, <3>3 DEF AnswerAt, OneUnderWay, NoneUnderWay
  <2> QED
    BY <2>1, <2>2
<1>5. CASE WakeCancelled(u)
  <2>1. t = u => status[t] \in Stopped
    BY <1>5 DEF WakeCancelled, StopInv, TokenFollowsRecord, Stopped
  <2> QED
    BY <1>0, <1>5, <2>1, AnswerFrameOp DEF WakeCancelled, Types, AnswerAt, Stopped
<1>6. CASE TakeAnswer(u)
  <2>1. CASE t # u
    BY <1>0, <1>6, <2>1, AnswerFrameOp DEF TakeAnswer, Types, AnswerAt
  <2>2. CASE t = u
    <3>1. inbox[t] = <<asked[t]>> /\ HandFor(t) = {} /\ InputFor(t) = {}
      BY <1>0, <1>6, <2>2 DEF TakeAnswer, AnswerAt, OneUnderWay
    <3>2. inbox'[t] = <<>>
      BY <1>6, <2>2, <3>1 DEF TakeAnswer, Types
    <3>3. HandFor(t)' = {} /\ InputFor(t)' = {}
      BY <1>6, <3>1 DEF TakeAnswer, HandFor, InputFor, At
    <3>4. status'[t] # "input_required"
      BY <1>0, <1>6, <2>2 DEF TakeAnswer, AnswerAt, NoneUnderWay
    <3> QED
      BY <3>2, <3>3, <3>4 DEF AnswerAt, OneUnderWay, NoneUnderWay
  <2> QED
    BY <2>1, <2>2
<1>7. ASSUME NEW to \in {"completed", "failed"}, SettleRun(u, to) PROVE AnswerAt(t)'
  BY <1>0, <1>7, AnswerFrameOp DEF SettleRun, Types, AnswerAt
<1>8. ASSUME NEW o \in Owner, NEW to \in {"completed", "failed"}, SettleById(o, u, to)
      PROVE  AnswerAt(t)'
  BY <1>0, <1>8, AnswerFrameOp DEF SettleById, Types, AnswerAt
<1>9. CASE DropRun(u)
  BY <1>0, <1>9, AnswerFrameOp DEF DropRun, Types, AnswerAt
<1>10. CASE DropReceiver(u)
  BY <1>0, <1>10, AnswerFrameOp DEF DropReceiver, Types, AnswerAt
<1> QED
  BY <1>1, <1>2, <1>3, <1>4, <1>5, <1>6, <1>7, <1>8, <1>9, <1>10
     DEF OpStep, RequestById, AbandonRequest
\* apply_input hands the answers over: from the call to the channel or the bus.
LEMMA AnswerHandStep ==
    ASSUME Types, AnswerInv, NEW c \in Call, UpdateHand(c), NEW t \in Task
    PROVE  AnswerAt(t)'
<1>0. AnswerAt(t) /\ OneUnderWay(t)
  BY DEF AnswerInv, AnswerAt
<1>1. /\ At(c, "hand") /\ call[c] \in CallRecord /\ call[c].task \in Task
      /\ UNCHANGED <<status, asked, op>>
  BY CallFields DEF UpdateHand, At
<1>2. ~At(c, "hand")' /\ \A d \in Call \ {c} : call'[d] = call[d]
  BY <1>1 DEF UpdateHand, Return, Goto, At, Types, CallRecord
<1>3. \A d \in Call : At(d, "hand")' => At(d, "hand") /\ call'[d] = call[d]
  BY <1>2 DEF At
<1>4. CASE t # call[c].task
  <2>1. inbox'[t] = inbox[t]
    BY <1>1, <1>4 DEF UpdateHand, Types
  <2>2. InputFor(t)' \subseteq InputFor(t)
    BY <1>4 DEF UpdateHand, InputFor, Published
  <2>3. HandFor(t)' \subseteq HandFor(t) /\ \A d \in HandFor(t)' : call'[d] = call[d]
    BY <1>3 DEF HandFor
  <2>4. /\ status'[t] = "input_required" => status[t] = "input_required" /\ op'[t] \notin Early
        /\ op'[t] \in Early /\ status'[t] \in {"absent", "working"} =>
              op[t] \in Early /\ status[t] \in {"absent", "working"}
    BY <1>0, <1>1 DEF AnswerAt
  <2> QED
    BY <1>0, <1>1, <2>1, <2>2, <2>3, <2>4, AnswerFrame
<1>5. CASE t = call[c].task
  <2>1. c \in HandFor(t) /\ call[c].keys = asked[t]
    BY <1>0, <1>1, <1>5 DEF HandFor, OneUnderWay
  <2>2. InputFor(t) = {} /\ inbox[t] = <<>> /\ \A d \in HandFor(t) : d = c
    BY <1>0, <2>1 DEF OneUnderWay
  <2>3. HandFor(t)' = {}
    <3>1. ASSUME NEW d \in HandFor(t)' PROVE FALSE
      BY <1>2, <1>3, <2>2 DEF HandFor
    <3> QED
      BY <3>1
  <2>4. status[t] # "input_required" /\ ~(op[t] \in Early /\ status[t] \in {"absent", "working"})
    BY <1>0, <2>1 DEF AnswerAt, NoneUnderWay
  <2>5. /\ inbox'[t] = <<>> \/ inbox'[t] = <<asked[t]>>
        /\ \/ UNCHANGED bus
           \/ inbox'[t] = <<>> /\ bus' = bus \cup Published("input", t, asked[t], call[c].at)
    BY <1>1, <1>5, <2>1, <2>2 DEF UpdateHand, Types
  <2>6. \A m, n \in InputFor(t)' : m = n /\ m.keys = asked[t] /\ inbox'[t] = <<>>
    <3>1. CASE UNCHANGED bus
      BY <2>2, <3>1 DEF InputFor
    <3>2. CASE inbox'[t] = <<>> /\ bus' = bus \cup Published("input", t, asked[t], call[c].at)
      BY <2>2, <3>2 DEF InputFor, Published
    <3> QED
      BY <2>5, <3>1, <3>2
  <2> QED
    BY <1>1, <2>3, <2>4, <2>5, <2>6 DEF AnswerAt, OneUnderWay, NoneUnderWay
<1> QED
  BY <1>4, <1>5

\* apply_input takes the input: none was under way, and its answer now is.
LEMMA AnswerTakeStep ==
    ASSUME Types, AnswerInv, NEW c \in Call, UpdateTake(c), NEW t \in Task
    PROVE  AnswerAt(t)'
<1>0. AnswerAt(t) /\ OneUnderWay(t)
  BY DEF AnswerInv, AnswerAt
<1>1. /\ At(c, "take") /\ call[c] \in CallRecord /\ call[c].task \in Task
      /\ UNCHANGED <<asked, op, inbox, bus>>
  BY CallFields DEF UpdateTake, At
<1>2. \A d \in Call \ {c} : call'[d] = call[d]
  BY DEF UpdateTake, Return, Types
<1>3. CASE UNCHANGED status
  <2>1. ~At(c, "hand")'
    <3>1. CASE \E r \in Result : Return(c, r)
      BY <1>1, <3>1 DEF Return, At, Types, CallRecord
    <3>2. CASE status' = [status EXCEPT ![call[c].task] = "working"]
                 /\ status[call[c].task] = "input_required"
      BY <1>1, <1>3, <3>2 DEF Types
    <3> QED
      BY <3>1, <3>2 DEF UpdateTake
  <2>2. \A d \in Call : At(d, "hand")' => At(d, "hand") /\ call'[d] = call[d]
    BY <1>2, <2>1 DEF At
  <2> QED
    BY <1>0, <1>1, <1>3, <2>2, AnswerFrameCall
<1>4. CASE status' # status
  <2>1. /\ status[call[c].task] = "input_required" /\ KeysMatch(c)
        /\ call' = [call EXCEPT ![c].pc = "hand", ![c].took = TRUE]
        /\ status' = [status EXCEPT ![call[c].task] = "working"]
    BY <1>4 DEF UpdateTake
  <2>2. call'[c].task = call[c].task /\ call'[c].keys = call[c].keys
    BY <1>1, <2>1 DEF Types, CallRecord
  <2>3. InputFor(t)' = InputFor(t)
    BY <1>1 DEF InputFor
  <2>4. CASE t # call[c].task
    <3>1. HandFor(t)' \subseteq HandFor(t) /\ \A d \in HandFor(t)' : call'[d] = call[d]
      BY <1>2, <2>2, <2>4 DEF HandFor, At
    <3>2. status'[t] = status[t]
      BY <1>1, <2>1, <2>4 DEF Types
    <3>3. status'[t] = "input_required" => status[t] = "input_required" /\ op'[t] \notin Early
      BY <1>0, <1>1, <3>2 DEF AnswerAt
    <3> QED
      BY <1>0, <1>1, <2>3, <3>1, <3>2, <3>3, AnswerFrame
  <2>5. CASE t = call[c].task
    <3>1. op[t] \notin Early /\ NoneUnderWay(t)
      BY <1>0, <2>1, <2>5 DEF AnswerAt
    <3>2. HandFor(t)' \subseteq {c}
      BY <1>2, <3>1 DEF HandFor, At, NoneUnderWay
    <3>3. call'[c].keys = asked[t]
      BY <2>1, <2>2, <2>5 DEF KeysMatch
    <3>4. status'[t] = "working"
      BY <1>1, <2>1, <2>5 DEF Types
    <3> QED
      BY <1>1, <2>3, <3>1, <3>2, <3>3, <3>4 DEF AnswerAt, OneUnderWay, NoneUnderWay
  <2> QED
    BY <2>4, <2>5
<1> QED
  BY <1>3, <1>4

\* TaskManager::deliver: from the bus to the channel of the run it is for.
LEMMA AnswerDeliverStep ==
    ASSUME Types, AnswerInv, NEW m \in bus, Deliver(m), NEW t \in Task
    PROVE  AnswerAt(t)'
<1>0. AnswerAt(t) /\ OneUnderWay(t)
  BY DEF AnswerInv, AnswerAt
<1>1. m.task \in Task /\ m.kind \in {"cancelled", "input"} /\ bus' = bus \ {m}
  BY DEF Types, Signal, Deliver
<1>2. UNCHANGED <<status, asked, op, call>>
  BY DEF Deliver
<1>3. CASE inbox'[t] = inbox[t]
  BY <1>0, <1>1, <1>2, <1>3, AnswerFrameCall DEF At
<1>4. CASE inbox'[t] # inbox[t]
  <2>1. /\ m.task = t /\ m.kind = "input" /\ RunsHere(t, m.to)
        /\ inbox' = [inbox EXCEPT ![t] = Append(@, m.keys)]
    BY <1>1, <1>4 DEF Deliver, Types
  <2>2. m \in InputFor(t)
    BY <2>1 DEF InputFor, RunsHere
  <2>3. HandFor(t) = {} /\ inbox[t] = <<>> /\ m.keys = asked[t] /\ \A n \in InputFor(t) : n = m
    BY <1>0, <2>2 DEF OneUnderWay
  <2>4. inbox'[t] = <<asked'[t]>>
    BY <1>2, <2>1, <2>3 DEF Types
  <2>5. HandFor(t)' = {} /\ InputFor(t)' = {}
    BY <1>1, <1>2, <2>3 DEF HandFor, InputFor, At
  <2>6. status[t] # "input_required" /\ ~(op[t] \in Early /\ status[t] \in {"absent", "working"})
    BY <1>0, <2>2 DEF AnswerAt, NoneUnderWay
  <2> QED
    BY <1>2, <2>4, <2>5, <2>6 DEF AnswerAt, OneUnderWay
<1> QED
  BY <1>3, <1>4

\* Every step keeps AnswerInv, for a host that awaits what it asks.
LEMMA AnswerStep ==
    ASSUME Types, StopInv, AnswerInv, ~UnawaitedAsks, [Next]_vars
    PROVE  AnswerInv'
<1> SUFFICES ASSUME NEW t \in Task PROVE AnswerAt(t)'
  BY DEF AnswerInv
<1>0. AnswerAt(t) /\ (status[t] = "input_required" => op[t] \notin Early)
  BY DEF AnswerInv, AnswerAt
<1>1. ASSUME NEW u \in Task, OpStep(u) PROVE AnswerAt(t)'
  BY <1>1, AnswerOpStep
<1>2. ASSUME NEW u \in Task, Expire(u) PROVE AnswerAt(t)'
  BY <1>0, <1>2, AnswerFrameOp DEF Expire
<1>3. ASSUME NEW m \in bus, LoseSignal(m) PROVE AnswerAt(t)'
  BY <1>0, <1>3, AnswerFrameCall DEF LoseSignal, At
<1>4. ASSUME NEW c \in Call, CallStarts(c) PROVE AnswerAt(t)'
  <2> PICK o \in Owner, i \in Instance, u \in Task :
        \/ \E keys \in SUBSET Key : UpdateGet(c, o, i, u, keys)
        \/ \E keys \in SUBSET Key : FirstStoreFails(c, o, i, u, keys)
        \/ CancelRecord(c, o, i, u)
    BY <1>4 DEF CallStarts
  <2>1. \A d \in Call \ {c} : call'[d] = call[d]
    BY DEF UpdateGet, FirstStoreFails, CancelRecord, Begin, Types
  <2>2. call'[c].pc # "hand"
    BY DEF UpdateGet, FirstStoreFails, CancelRecord, Begin, Types
  <2>3. \A d \in Call : At(d, "hand")' => At(d, "hand") /\ call'[d] = call[d]
    BY <2>1, <2>2 DEF At
  <2>4. UNCHANGED <<asked, op, inbox, bus>>
    BY DEF UpdateGet, FirstStoreFails, CancelRecord
  <2>5. status'[t] = status[t] \/ status'[t] = "cancelled"
    BY DEF UpdateGet, FirstStoreFails, CancelRecord, Types
  <2>6. HandFor(t)' \subseteq HandFor(t) /\ \A d \in HandFor(t)' : call'[d] = call[d]
    BY <2>3 DEF HandFor
  <2>7. InputFor(t)' \subseteq InputFor(t)
    BY <2>4 DEF InputFor
  <2> QED
    BY <1>0, <2>4, <2>5, <2>6, <2>7, AnswerFrame
<1>5. ASSUME NEW c \in Call,
             UpdateLookup(c) \/ CancelSignal(c) \/ StoreFails(c) \/ CallDropped(c) \/ Answered(c)
      PROVE  AnswerAt(t)'
  <2>1. UNCHANGED <<status, asked, op, inbox>>
    BY <1>5 DEF UpdateLookup, CancelSignal, StoreFails, CallDropped, Answered
  <2>2. \A m \in bus' : m.kind = "input" => m \in bus
    BY <1>5 DEF UpdateLookup, CancelSignal, StoreFails, CallDropped, Answered, SignalCancelled,
                Published
  <2>3. \A d \in Call : At(d, "hand")' => At(d, "hand") /\ call'[d] = call[d]
    <3>1. \A d \in Call \ {c} : call'[d] = call[d]
      BY <1>5 DEF UpdateLookup, CancelSignal, StoreFails, CallDropped, Answered, Return, Types
    <3>2. ~At(c, "hand")'
      BY <1>5, CallFields DEF UpdateLookup, CancelSignal, StoreFails, CallDropped, Answered,
                              Return, Types, At, CallRecord
    <3> QED
      BY <3>1, <3>2 DEF At
  <2> QED
    BY <1>0, <2>1, <2>2, <2>3, AnswerFrameCall
<1>6. ASSUME NEW c \in Call, UpdateFail(c) PROVE AnswerAt(t)'
  <2>1. call[c] # NoCall /\ call[c] \in CallRecord /\ call[c].task \in Task
    BY <1>6, CallFields DEF UpdateFail, At
  <2>2. UNCHANGED <<asked, op, inbox, bus>>
    BY <1>6 DEF UpdateFail
  <2>3. status'[t] = status[t] \/ status'[t] = "failed"
    BY <1>6, <2>1 DEF UpdateFail, Types
  <2>4. ~At(c, "hand")' /\ \A d \in Call \ {c} : call'[d] = call[d]
    BY <1>6, <2>1 DEF UpdateFail, Return, Types, At, CallRecord
  <2>5. HandFor(t)' \subseteq HandFor(t) /\ \A d \in HandFor(t)' : call'[d] = call[d]
    BY <2>4 DEF HandFor, At
  <2>6. InputFor(t)' \subseteq InputFor(t)
    BY <2>2 DEF InputFor
  <2> QED
    BY <1>0, <2>2, <2>3, <2>5, <2>6, AnswerFrame
<1>7. ASSUME NEW i \in Instance, Sweep(i) PROVE AnswerAt(t)'
  <2>1. status'[t] = status[t] \/ status'[t] = "swept"
    BY <1>7 DEF Sweep
  <2> QED
    BY <1>0, <1>7, <2>1, AnswerFrameOp DEF Sweep
<1>8. ASSUME NEW i \in Instance, NEW u \in Task, SweepSignal(i, u) PROVE AnswerAt(t)'
  BY <1>0, <1>8, AnswerFrameCall DEF SweepSignal, SignalCancelled, Published, At
<1>9. CASE UNCHANGED vars
  BY <1>0, <1>9, AnswerFrameOp DEF vars
<1> QED
  BY <1>1, <1>2, <1>3, <1>4, <1>5, <1>6, <1>7, <1>8, <1>9, AnswerTakeStep, AnswerHandStep,
     AnswerDeliverStep DEF Next, CallStep, SweepLoop

\* TaskRun::request_input, for a host that awaits what it asks: on any number of
\* instances, with any delays and losses on the bus, what an operation wakes up
\* with answers the requests it last made.
THEOREM AnswersMatch == ~UnawaitedAsks => (Spec => []AnswerMatchesRequest)
<1> SUFFICES ASSUME ~UnawaitedAsks PROVE Spec => []AnswerMatchesRequest
  OBVIOUS
<1>1. Init => AnswerInv
  BY DEF Init, AnswerInv, AnswerAt, OneUnderWay, NoneUnderWay, HandFor, InputFor, At
<1>2. AnswerInv => AnswerMatchesRequest
  BY DEF AnswerInv, AnswerAt, OneUnderWay, NoneUnderWay, AnswerMatchesRequest
<1>3. Types /\ StopInv /\ AnswerInv /\ [Next]_vars => AnswerInv'
  BY AnswerStep
<1> QED
  BY <1>1, <1>2, <1>3, TypesCorrect, StopInvariant, PTL DEF Spec

=============================================================================
