------------------------ MODULE StdioTransportProofs ------------------------
(***************************************************************************)
(* Theorems about StdioTransport, for any number of request lines and any  *)
(* ids, shared or not: what is held for a request is held while it is      *)
(* served, every request read is answered when the connection drains,      *)
(* unless it was cancelled or its tool panicked, and nothing happens once  *)
(* the transport returned.                                                 *)
(***************************************************************************)
EXTENDS StdioTransport, SequenceTheorems, TLAPS

Queued(m) == \E n \in DOMAIN outbox : outbox[n] = m

\* The response to q is on stdout, or on its way there.
Answered(q) == <<"response", q>> \in written \/ Queued(<<"response", q>>)

\* What is held for the requests: HeldWhileServed without the types, and an answer
\* handed over is no longer awaited.
Held ==
    /\ entries = {q \in Request : task[q] \in {"running", "asking"}}
    /\ \A q \in pending : open /\ task[q] = "asking"
    /\ \A q \in answer : task[q] = "asking" /\ q \notin pending

\* How far the reader, the writer and the connection's cancellation can be apart:
\* the writer is told to stop only when every task has ended, and the
\* cancellation fires only when stdout is gone or the transport returns.
InStep ==
    /\ reader \in {"stopping", "returned"} => AllEnded
    /\ reader = "abandoning" => writer = "failed"
    /\ reader = "returned" => writer \in {"done", "failed"}
    /\ writer \in {"flushing", "done"} => reader \in {"stopping", "returned"}
    /\ writer = "done" => outbox = <<>>
    /\ closed <=> reader \in {"abandoning", "returned"}

\* No response is lost while stdout works.
NoneLost ==
    writer # "failed" =>
        \A q \in Request : task[q] = "done" /\ q \notin fired => Answered(q)

\* The inductive invariant.
StdioInv == TypeOK /\ Held /\ InStep /\ NoneLost
-----------------------------------------------------------------------------
(* The outbound channel.                                                   *)

\* A message sent is queued while the writer takes messages, and nothing queued
\* before it is lost.
LEMMA SendQueues ==
    ASSUME outbox \in Seq(Message), NEW m \in Message, Send(m)
    PROVE  /\ outbox' \in Seq(Message)
           /\ \A x : Queued(x) => Queued(x)'
           /\ OutboxOpen => Queued(m)'
           /\ ~OutboxOpen => outbox' = outbox
<1>1. CASE OutboxOpen
  <2>1. outbox' = Append(outbox, m)
    BY <1>1 DEF Send
  <2>2. /\ outbox' \in Seq(Message) /\ DOMAIN outbox' = 1 .. Len(outbox) + 1
        /\ outbox'[Len(outbox) + 1] = m /\ Len(outbox) \in Nat
        /\ \A n \in 1 .. Len(outbox) : outbox'[n] = outbox[n]
        /\ DOMAIN outbox = 1 .. Len(outbox)
    BY <2>1
  <2>3. Queued(m)'
    BY <2>2 DEF Queued
  <2>4. ASSUME NEW x, Queued(x) PROVE Queued(x)'
    <3>1. PICK n \in DOMAIN outbox : outbox[n] = x
      BY <2>4 DEF Queued
    <3>2. n \in DOMAIN outbox' /\ outbox'[n] = x
      BY <2>2, <3>1
    <3> QED
      BY <3>2 DEF Queued
  <2> QED
    BY <1>1, <2>2, <2>3, <2>4
<1>2. CASE ~OutboxOpen
  BY <1>2 DEF Send, Queued
<1> QED
  BY <1>1, <1>2

\* A message leaves the channel only onto stdout.
LEMMA WriteMoves ==
    ASSUME outbox \in Seq(Message), written \in SUBSET Message, WriteOne
    PROVE  /\ outbox' \in Seq(Message) /\ written' \in SUBSET Message
           /\ written \subseteq written'
           /\ \A x : Queued(x) => x \in written' \/ Queued(x)'
<1>1. /\ outbox # <<>> /\ written' = written \cup {Head(outbox)} /\ outbox' = Tail(outbox)
  BY DEF WriteOne
<1>2. /\ Len(outbox) \in Nat /\ Len(outbox) > 0 /\ DOMAIN outbox = 1 .. Len(outbox)
      /\ Head(outbox) = outbox[1] /\ Head(outbox) \in Message
      /\ outbox' \in Seq(Message) /\ DOMAIN outbox' = 1 .. Len(outbox) - 1
      /\ \A n \in 1 .. Len(outbox) - 1 : outbox'[n] = outbox[n + 1]
  BY <1>1
<1>3. ASSUME NEW x, Queued(x) PROVE x \in written' \/ Queued(x)'
  <2>1. PICK n \in DOMAIN outbox : outbox[n] = x
    BY <1>3 DEF Queued
  <2>2. CASE n = 1
    BY <1>1, <1>2, <2>1, <2>2
  <2>3. CASE n # 1
    <3>1. n - 1 \in 1 .. Len(outbox) - 1 /\ (n - 1) + 1 = n
      BY <1>2, <2>1, <2>3
    <3>2. n - 1 \in DOMAIN outbox' /\ outbox'[n - 1] = x
      BY <1>2, <2>1, <3>1
    <3> QED
      BY <3>2 DEF Queued
  <2> QED
    BY <2>2, <2>3
<1> QED
  BY <1>1, <1>2, <1>3

\* The kinds of message tell messages apart.
LEMMA MessageKinds ==
    \A q \in Request : \A kind \in {"response", "ask", "notice", "note"} : <<kind, q>> \in Message
BY DEF Message
-----------------------------------------------------------------------------
(* Types and what is held.                                                 *)

\* The end of a wait forgets the server request, and tells the client.
LEMMA WaitEnds ==
    ASSUME TypeOK, Held, NEW q \in Request, DropWaiting(q)
    PROVE  /\ outbox' \in Seq(Message) /\ pending' = pending \ {q}
           /\ \A x : Queued(x) => Queued(x)'
           /\ ~OutboxOpen => outbox' = outbox
<1>1. CASE task[q] = "asking"
  <2>1. Send(<<"notice", q>>) /\ pending' = pending \ {q}
    BY <1>1 DEF DropWaiting
  <2>2. <<"notice", q>> \in Message /\ outbox \in Seq(Message)
    BY MessageKinds DEF TypeOK
  <2> QED
    BY <2>1, <2>2, SendQueues
<1>2. CASE task[q] # "asking"
  <2>1. pending' = pending /\ outbox' = outbox
    BY <1>2 DEF DropWaiting
  <2>2. q \notin pending
    BY <1>2 DEF Held
  <2> QED
    BY <2>1, <2>2 DEF TypeOK, Queued
<1> QED
  BY <1>1, <1>2


\* Every step keeps the types.
LEMMA TypeStep == TypeOK /\ Held /\ [Next]_vars => TypeOK'
<1> SUFFICES ASSUME TypeOK, Held, [Next]_vars PROVE TypeOK'
  OBVIOUS
<1>0. outbox \in Seq(Message)
  BY DEF TypeOK
<1>1. ASSUME NEW q \in Request, ReadRequest(q) PROVE TypeOK'
  <2>1. outbox' \in Seq(Message)
    <3>1. <<"response", q>> \in Message
      BY MessageKinds
    <3> QED
      BY <1>0, <1>1, <3>1, SendQueues DEF ReadRequest
  <2>2. task' \in [Request -> TaskState]
    BY <1>1 DEF ReadRequest, TypeOK, TaskState, Unfinished
  <2>3. after' \in SUBSET Request
    BY <1>1 DEF ReadRequest, TypeOK
  <2> QED
    BY <1>1, <2>1, <2>2, <2>3 DEF ReadRequest, TypeOK
<1>2. ASSUME NEW q \in Request, ReadAnswer(q) PROVE TypeOK'
  BY <1>2 DEF ReadAnswer, TypeOK
<1>3. ASSUME NEW q \in Request, Start(q) PROVE TypeOK'
  BY <1>3 DEF Start, TypeOK, TaskState, Unfinished
<1>4. ASSUME NEW q \in Request, SeeCancelled(q) PROVE TypeOK'
  <2>1. outbox' \in Seq(Message) /\ pending' = pending \ {q}
    BY <1>4, WaitEnds DEF SeeCancelled
  <2> QED
    BY <1>4, <2>1 DEF SeeCancelled, Release, TypeOK, TaskState, Unfinished
<1>5. ASSUME NEW q \in Request, Finish(q) PROVE TypeOK'
  <2>1. level' \in BOOLEAN
    BY <1>5, Zenon DEF Finish
  <2>2. jobs' \in SUBSET Request
    BY <1>5 DEF Finish, TypeOK
  <2> QED
    BY <1>5, <2>1, <2>2 DEF Finish, Release, TypeOK, TaskState, Unfinished
<1>6. ASSUME NEW q \in Request, SendResponse(q) PROVE TypeOK'
  <2>1. <<"response", q>> \in Message
    BY MessageKinds
  <2>2. outbox' \in Seq(Message)
    BY <1>0, <1>6, <2>1, SendQueues DEF SendResponse
  <2> QED
    BY <1>6, <2>2 DEF SendResponse, TypeOK, TaskState, Unfinished
<1>7. ASSUME NEW q \in Request, Abort(q) PROVE TypeOK'
  <2>1. outbox' \in Seq(Message) /\ pending' = pending \ {q}
    BY <1>7, WaitEnds DEF Abort
  <2> QED
    BY <1>7, <2>1 DEF Abort, Release, TypeOK, TaskState, Unfinished
<1>8. ASSUME NEW q \in Request, Ask(q) PROVE TypeOK'
  <2>1. <<"ask", q>> \in Message
    BY MessageKinds
  <2>2. outbox' \in Seq(Message)
    BY <1>0, <1>8, <2>1, SendQueues DEF Ask
  <2> QED
    BY <1>8, <2>2 DEF Ask, TypeOK, TaskState, Unfinished
<1>9. ASSUME NEW q \in Request, AskSettled(q) PROVE TypeOK'
  BY <1>9 DEF AskSettled, TypeOK, TaskState, Unfinished
<1>10. ASSUME NEW q \in Request, AskTimesOut(q) PROVE TypeOK'
  <2>1. outbox' \in Seq(Message) /\ pending' = pending \ {q}
    BY <1>10, WaitEnds DEF AskTimesOut
  <2> QED
    BY <1>10, <2>1 DEF AskTimesOut, TypeOK, TaskState, Unfinished
<1>11. ASSUME NEW q \in Request, JobSends(q) PROVE TypeOK'
  <2>1. <<"note", q>> \in Message
    BY MessageKinds
  <2>2. outbox' \in Seq(Message)
    BY <1>0, <1>11, <2>1, SendQueues DEF JobSends
  <2> QED
    BY <1>11, <2>2 DEF JobSends, TypeOK
<1>12. ASSUME NEW i \in Id, ReadCancel(i) \/ Cancel(i) \/ AbortNote(i) PROVE TypeOK'
  BY <1>12 DEF ReadCancel, Cancel, AbortNote, TypeOK
<1>13. CASE EndOfInput \/ WriterDied \/ Drained \/ DrainTimeout \/ ShutDown \/ Return
  <2>1. CASE EndOfInput
    BY <2>1 DEF EndOfInput, TypeOK
  <2>2. CASE WriterDied
    BY <2>2 DEF WriterDied, TypeOK
  <2>3. CASE Drained \/ DrainTimeout \/ ShutDown
    BY <2>3 DEF Drained, DrainTimeout, ShutDown, TypeOK
  <2>4. CASE Return
    BY <2>4 DEF Return, TypeOK
  <2> QED
    BY <1>13, <2>1, <2>2, <2>3, <2>4
<1>14. CASE Write \/ Flush
  <2>1. WriteOne \/ UNCHANGED <<outbox, written>>
    BY <1>14 DEF Write, Flush
  <2>2. outbox' \in Seq(Message) /\ written' \in SUBSET Message
    BY <2>1, WriteMoves DEF TypeOK
  <2> QED
    BY <1>14, <2>2 DEF Write, Flush, TypeOK
<1>15. CASE StopWriting \/ WriteFails
  <2>1. outbox' \in Seq(Message)
    BY <1>0, <1>15, EmptySeq DEF StopWriting, WriteFails
  <2> QED
    BY <1>15, <2>1 DEF StopWriting, WriteFails, TypeOK
<1>16. CASE UNCHANGED vars
  BY <1>16 DEF vars, TypeOK
<1>17. ASSUME NEW q \in Request, Panic(q) PROVE TypeOK'
  <2>1. outbox' \in Seq(Message) /\ pending' = pending \ {q}
    BY <1>17, WaitEnds DEF Panic
  <2> QED
    BY <1>17, <2>1 DEF Panic, Release, TypeOK, TaskState, Unfinished
<1> QED
  BY <1>1, <1>2, <1>3, <1>4, <1>5, <1>6, <1>7, <1>8, <1>9, <1>10, <1>11, <1>12, <1>13, <1>14,
     <1>15, <1>16, <1>17 DEF Next

\* The registry and the table follow the request that moved.
LEMMA HeldStep == TypeOK /\ Held /\ [Next]_vars => Held'
<1> SUFFICES ASSUME TypeOK, Held, [Next]_vars PROVE Held'
  OBVIOUS
<1>0. task \in [Request -> TaskState] /\ pending \subseteq Request /\ answer \subseteq Request
  BY DEF TypeOK
<1>1. ASSUME NEW q \in Request, ReadRequest(q) PROVE Held'
  BY <1>0, <1>1 DEF ReadRequest, Held
<1>2. ASSUME NEW q \in Request, ReadAnswer(q) PROVE Held'
  BY <1>0, <1>2 DEF ReadAnswer, Held
<1>3. ASSUME NEW q \in Request, Start(q) PROVE Held'
  BY <1>0, <1>3 DEF Start, Held
<1>4. ASSUME NEW q \in Request, SeeCancelled(q) PROVE Held'
  <2>1. pending' = pending \ {q}
    BY <1>4, WaitEnds DEF SeeCancelled
  <2> QED
    BY <1>0, <1>4, <2>1 DEF SeeCancelled, Release, Held
<1>5. ASSUME NEW q \in Request, Finish(q) PROVE Held'
  BY <1>0, <1>5 DEF Finish, Release, Held
<1>6. ASSUME NEW q \in Request, SendResponse(q) PROVE Held'
  BY <1>0, <1>6 DEF SendResponse, Held
<1>7. ASSUME NEW q \in Request, Abort(q) PROVE Held'
  <2>1. pending' = pending \ {q}
    BY <1>7, WaitEnds DEF Abort
  <2> QED
    BY <1>0, <1>7, <2>1 DEF Abort, Release, Held
<1>8. ASSUME NEW q \in Request, Ask(q) PROVE Held'
  BY <1>0, <1>8 DEF Ask, Held
<1>9. ASSUME NEW q \in Request, AskSettled(q) PROVE Held'
  <2>1. /\ task[q] = "asking" /\ task' = [task EXCEPT ![q] = "running"]
        /\ answer' = answer \ {q} /\ UNCHANGED <<entries, pending, open>>
    BY <1>9 DEF AskSettled
  <2>2. q \notin pending
    BY <1>9 DEF AskSettled, Held
  <2> QED
    BY <1>0, <2>1, <2>2 DEF Held
<1>10. ASSUME NEW q \in Request, AskTimesOut(q) PROVE Held'
  <2>1. pending' = pending \ {q}
    BY <1>10, WaitEnds DEF AskTimesOut
  <2> QED
    BY <1>0, <1>10, <2>1 DEF AskTimesOut, Held
<1>11. CASE EndOfInput \/ WriterDied
  BY <1>11 DEF EndOfInput, WriterDied, Held
<1>12. ASSUME UNCHANGED <<task, entries, pending, open, answer>> PROVE Held'
  BY <1>12 DEF Held
<1>13. ASSUME NEW q \in Request, JobSends(q) PROVE Held'
  BY <1>12, <1>13 DEF JobSends
<1>14. ASSUME NEW i \in Id, ReadCancel(i) \/ Cancel(i) \/ AbortNote(i) PROVE Held'
  BY <1>12, <1>14 DEF ReadCancel, Cancel, AbortNote
<1>15. CASE Drained \/ DrainTimeout \/ ShutDown \/ Return
  BY <1>12, <1>15 DEF Drained, DrainTimeout, ShutDown, Return
<1>16. CASE Write \/ Flush \/ StopWriting \/ WriteFails
  BY <1>12, <1>16 DEF Write, Flush, StopWriting, WriteFails
<1>17. CASE UNCHANGED vars
  BY <1>12, <1>17 DEF vars
<1>18. ASSUME NEW q \in Request, Panic(q) PROVE Held'
  <2>1. pending' = pending \ {q}
    BY <1>18, WaitEnds DEF Panic
  <2> QED
    BY <1>0, <1>18, <2>1 DEF Panic, Release, Held
<1> QED
  BY <1>1, <1>2, <1>3, <1>4, <1>5, <1>6, <1>7, <1>8, <1>9, <1>10, <1>11, <1>13, <1>14, <1>15,
     <1>16, <1>17, <1>18 DEF Next
-----------------------------------------------------------------------------
(* The end of the connection.                                              *)

\* A request that is still served is in the way of the end.
LEMMA StillServed ==
    ASSUME InStep, NEW q \in Request, task[q] \in Unfinished
    PROVE  reader \notin {"stopping", "returned"} /\ writer \notin {"flushing", "done"}
BY DEF InStep, AllEnded

\* The steps of a request's task leave the reader and the writer where they are.
LEMMA TasksInStep ==
    ASSUME TypeOK, InStep, NEW q \in Request, task[q] \in Unfinished,
           UNCHANGED <<reader, writer, closed>>
    PROVE  InStep'
<1>1. reader \notin {"stopping", "returned"} /\ writer \notin {"flushing", "done"}
  BY StillServed
<1> QED
  BY <1>1 DEF InStep

\* Every step keeps the reader, the writer and the tasks in step.
LEMMA InStepStep == StdioInv /\ [Next]_vars => InStep'
<1> SUFFICES ASSUME TypeOK, Held, InStep, [Next]_vars PROVE InStep'
  BY DEF StdioInv
<1>1. ASSUME NEW q \in Request, ReadRequest(q) PROVE InStep'
  <2>1. reader = "reading" /\ UNCHANGED <<reader, writer, closed>>
    BY <1>1 DEF ReadRequest
  <2> QED
    BY <2>1 DEF InStep
<1>2. ASSUME NEW q \in Request, ReadAnswer(q) PROVE InStep'
  <2>1. reader = "reading" /\ UNCHANGED <<reader, writer, closed>>
    BY <1>2 DEF ReadAnswer
  <2> QED
    BY <2>1 DEF InStep
<1>3. ASSUME NEW q \in Request, Start(q) \/ SeeCancelled(q) \/ Finish(q) \/ SendResponse(q)
                                \/ Abort(q) \/ Panic(q) \/ Ask(q) \/ AskSettled(q)
                                \/ AskTimesOut(q)
      PROVE  InStep'
  <2>1. task[q] \in Unfinished
    BY <1>3 DEF Start, SeeCancelled, Finish, SendResponse, Abort, Panic, Ask, AskSettled,
                AskTimesOut, Unfinished
  <2>2. UNCHANGED <<reader, writer, closed>>
    BY <1>3 DEF Start, SeeCancelled, Finish, SendResponse, Abort, Panic, Ask, AskSettled,
                AskTimesOut
  <2> QED
    BY <2>1, <2>2, TasksInStep
<1>4. ASSUME NEW q \in Request, JobSends(q) PROVE InStep'
  <2>1. Send(<<"note", q>>) /\ UNCHANGED <<reader, task, notes, writer, closed>>
    BY <1>4 DEF JobSends
  <2>2. writer = "done" => outbox' = outbox
    BY <2>1 DEF Send, OutboxOpen
  <2> QED
    BY <2>1, <2>2 DEF InStep, AllEnded
<1>5. ASSUME NEW i \in Id, ReadCancel(i) PROVE InStep'
  <2>1. reader = "reading" /\ UNCHANGED <<reader, writer, closed>>
    BY <1>5 DEF ReadCancel
  <2> QED
    BY <2>1 DEF InStep
<1>6. ASSUME NEW i \in Id, Cancel(i) \/ AbortNote(i) PROVE InStep'
  <2>1. i \in notes /\ UNCHANGED <<reader, writer, closed, outbox>>
    BY <1>6 DEF Cancel, AbortNote
  <2>2. reader \notin {"stopping", "returned"}
    BY <2>1 DEF InStep, AllEnded
  <2> QED
    BY <2>1, <2>2 DEF InStep
<1>7. CASE EndOfInput
  <2>1. reader = "reading" /\ reader' = "draining" /\ UNCHANGED <<writer, closed, outbox>>
    BY <1>7 DEF EndOfInput
  <2> QED
    BY <2>1 DEF InStep
<1>8. CASE WriterDied
  <2>1. writer = "failed" /\ reader' = "abandoning" /\ writer' = writer /\ closed'
    BY <1>8 DEF WriterDied
  <2> QED
    BY <2>1 DEF InStep
<1>9. CASE Drained
  <2>1. /\ reader = "draining" /\ reader' = "stopping" /\ AllEnded
        /\ UNCHANGED <<writer, closed, outbox, task, notes>>
    BY <1>9 DEF Drained
  <2> QED
    BY <2>1 DEF InStep, AllEnded
<1>10. CASE DrainTimeout
  <2>1. /\ reader = "draining" /\ reader' = "aborting" /\ UNCHANGED <<writer, closed, outbox>>
    BY <1>10 DEF DrainTimeout
  <2> QED
    BY <2>1 DEF InStep
<1>11. CASE ShutDown
  <2>1. /\ AllEnded /\ UNCHANGED <<writer, closed, outbox, task, notes>>
        /\ \/ reader = "aborting" /\ reader' = "stopping"
           \/ reader = "abandoning" /\ reader' = "returned"
    BY <1>11 DEF ShutDown
  <2> QED
    BY <2>1 DEF InStep, AllEnded
<1>12. CASE Return
  <2>1. /\ reader = "stopping" /\ writer \in {"done", "failed"} /\ reader' = "returned" /\ closed'
        /\ UNCHANGED <<writer, outbox, task, notes>>
    BY <1>12 DEF Return
  <2> QED
    BY <2>1 DEF InStep, AllEnded
<1>13. CASE Write
  <2>1. writer = "running" /\ UNCHANGED <<reader, writer, closed, task, notes>>
    BY <1>13 DEF Write
  <2> QED
    BY <2>1 DEF InStep, AllEnded
<1>14. CASE StopWriting
  <2>1. /\ writer = "running" /\ reader = "stopping" /\ writer' = "flushing"
        /\ UNCHANGED <<reader, closed, task, notes>>
    BY <1>14 DEF StopWriting
  <2> QED
    BY <2>1 DEF InStep, AllEnded
<1>15. CASE Flush
  <2>1. /\ writer = "flushing" /\ UNCHANGED <<reader, closed, task, notes>>
        /\ writer' = writer \/ (writer' = "done" /\ outbox = <<>> /\ outbox' = outbox)
    BY <1>15 DEF Flush
  <2> QED
    BY <2>1 DEF InStep, AllEnded
<1>16. CASE WriteFails
  <2>1. writer' = "failed" /\ UNCHANGED <<reader, closed, task, notes>>
    BY <1>16 DEF WriteFails
  <2> QED
    BY <2>1 DEF InStep, AllEnded
<1>17. CASE UNCHANGED vars
  BY <1>17 DEF vars, InStep, AllEnded
<1> QED
  BY <1>1, <1>2, <1>3, <1>4, <1>5, <1>6, <1>7, <1>8, <1>9, <1>10, <1>11, <1>12, <1>13, <1>14,
     <1>15, <1>16, <1>17 DEF Next

\* A step that loses no message and ends no request unanswered loses no response.
LEMMA NoneLostKept ==
    ASSUME NoneLost,
           writer' # "failed" => writer # "failed",
           fired \subseteq fired',
           \A x : x \in written \/ Queued(x) => x \in written' \/ Queued(x)',
           \A q \in Request : task'[q] = "done" =>
               task[q] = "done" \/ q \in fired' \/ writer' = "failed" \/ Answered(q)'
    PROVE  NoneLost'
BY DEF NoneLost, Answered

\* No step loses the response of a request that was served to its end.
LEMMA NoneLostStep == StdioInv /\ [Next]_vars => NoneLost'
<1> SUFFICES ASSUME TypeOK, Held, InStep, NoneLost, [Next]_vars PROVE NoneLost'
  BY DEF StdioInv
<1>0. outbox \in Seq(Message) /\ written \in SUBSET Message /\ task \in [Request -> TaskState]
  BY DEF TypeOK
<1>1. ASSUME UNCHANGED <<outbox, written>>
      PROVE  \A x : x \in written \/ Queued(x) => x \in written' \/ Queued(x)'
  BY <1>1 DEF Queued
<1>2. ASSUME NEW q \in Request, ReadRequest(q) PROVE NoneLost'
  <2>1. reader = "reading" /\ UNCHANGED <<writer, written, fired>>
    BY <1>2 DEF ReadRequest
  <2>2. CASE KindOf[q] = "malformed"
    <3>1. Send(<<"response", q>>) /\ task' = [task EXCEPT ![q] = "done"]
      BY <1>2, <2>2 DEF ReadRequest
    <3>2. <<"response", q>> \in Message
      BY MessageKinds
    <3>3. /\ \A x : Queued(x) => Queued(x)'
          /\ OutboxOpen => Queued(<<"response", q>>)'
      BY <1>0, <3>1, <3>2, SendQueues
    <3>4. OutboxOpen \/ writer = "failed"
      BY <2>1 DEF OutboxOpen, InStep, TypeOK
    <3>5. writer' = "failed" \/ Answered(q)'
      BY <2>1, <3>3, <3>4 DEF Answered
    <3> QED
      BY <1>0, <2>1, <3>1, <3>3, <3>5, NoneLostKept
  <2>3. CASE KindOf[q] # "malformed"
    <3>1. task' = [task EXCEPT ![q] = "spawned"] /\ outbox' = outbox
      BY <1>2, <2>3 DEF ReadRequest
    <3> QED
      BY <1>0, <1>1, <2>1, <3>1, NoneLostKept
  <2> QED
    BY <2>2, <2>3
<1>3. ASSUME NEW q \in Request, SendResponse(q) PROVE NoneLost'
  <2>1. /\ Send(<<"response", q>>) /\ task' = [task EXCEPT ![q] = "done"]
        /\ UNCHANGED <<writer, written, fired>> /\ task[q] \in Unfinished
    BY <1>3 DEF SendResponse, Unfinished
  <2>2. <<"response", q>> \in Message
    BY MessageKinds
  <2>3. /\ \A x : Queued(x) => Queued(x)'
        /\ OutboxOpen => Queued(<<"response", q>>)'
    BY <1>0, <2>1, <2>2, SendQueues
  <2>4. OutboxOpen \/ writer = "failed"
    BY <2>1, StillServed DEF OutboxOpen, TypeOK
  <2>5. writer' = "failed" \/ Answered(q)'
    BY <2>1, <2>3, <2>4 DEF Answered
  <2> QED
    BY <1>0, <2>1, <2>3, <2>5, NoneLostKept
<1>4. ASSUME NEW q \in Request, SeeCancelled(q) PROVE NoneLost'
  <2>1. /\ Fired(q) /\ task[q] \in Unfinished /\ task' = [task EXCEPT ![q] = "done"]
        /\ DropWaiting(q) /\ UNCHANGED <<writer, written, fired>>
    BY <1>4 DEF SeeCancelled, Unfinished
  <2>2. \A x : Queued(x) => Queued(x)'
    BY <2>1, WaitEnds
  <2>3. q \in fired' \/ writer' = "failed"
    <3>1. CASE closed
      BY <2>1, <3>1, StillServed DEF InStep
    <3> QED
      BY <2>1, <3>1 DEF Fired
  <2> QED
    BY <1>0, <2>1, <2>2, <2>3, NoneLostKept
<1>5. ASSUME NEW q \in Request, Abort(q) PROVE NoneLost'
  <2>1. /\ task' = [task EXCEPT ![q] = "aborted"] /\ DropWaiting(q) /\ fired \subseteq fired'
        /\ UNCHANGED <<writer, written>>
    BY <1>5 DEF Abort
  <2>2. \A x : Queued(x) => Queued(x)'
    BY <2>1, WaitEnds
  <2> QED
    BY <1>0, <2>1, <2>2, NoneLostKept
<1>6. ASSUME NEW q \in Request, AskTimesOut(q) PROVE NoneLost'
  <2>1. /\ task' = [task EXCEPT ![q] = "running"] /\ DropWaiting(q)
        /\ UNCHANGED <<writer, written, fired>>
    BY <1>6 DEF AskTimesOut
  <2>2. \A x : Queued(x) => Queued(x)'
    BY <2>1, WaitEnds
  <2> QED
    BY <1>0, <2>1, <2>2, NoneLostKept
<1>7. ASSUME NEW q \in Request, Ask(q) PROVE NoneLost'
  <2>1. /\ task' = [task EXCEPT ![q] = "asking"] /\ Send(<<"ask", q>>)
        /\ UNCHANGED <<writer, written, fired>>
    BY <1>7 DEF Ask
  <2>2. <<"ask", q>> \in Message
    BY MessageKinds
  <2>3. \A x : Queued(x) => Queued(x)'
    BY <1>0, <2>1, <2>2, SendQueues
  <2> QED
    BY <1>0, <2>1, <2>3, NoneLostKept
<1>8. ASSUME NEW q \in Request, JobSends(q) PROVE NoneLost'
  <2>1. Send(<<"note", q>>) /\ UNCHANGED <<task, writer, written, fired>>
    BY <1>8 DEF JobSends
  <2>2. <<"note", q>> \in Message
    BY MessageKinds
  <2>3. \A x : Queued(x) => Queued(x)'
    BY <1>0, <2>1, <2>2, SendQueues
  <2> QED
    BY <2>1, <2>3, NoneLostKept
<1>9. ASSUME NEW q \in Request, NEW s \in {"running", "sending"},
             task' = [task EXCEPT ![q] = s], UNCHANGED <<outbox, writer, written, fired>>
      PROVE  NoneLost'
  BY <1>0, <1>1, <1>9, NoneLostKept
<1>10. ASSUME NEW q \in Request, Start(q) \/ Finish(q) \/ AskSettled(q) PROVE NoneLost'
  BY <1>9, <1>10 DEF Start, Finish, AskSettled
<1>11. ASSUME UNCHANGED <<task, outbox, written>>, fired \subseteq fired',
              writer' # "failed" => writer # "failed"
       PROVE  NoneLost'
  BY <1>1, <1>11, NoneLostKept
<1>12. ASSUME NEW q \in Request, ReadAnswer(q) PROVE NoneLost'
  BY <1>11, <1>12 DEF ReadAnswer
<1>13. ASSUME NEW i \in Id, ReadCancel(i) \/ Cancel(i) \/ AbortNote(i) PROVE NoneLost'
  BY <1>11, <1>13 DEF ReadCancel, Cancel, AbortNote
<1>14. CASE EndOfInput \/ WriterDied \/ Drained \/ DrainTimeout \/ ShutDown \/ Return
  BY <1>11, <1>14 DEF EndOfInput, WriterDied, Drained, DrainTimeout, ShutDown, Return
<1>15. CASE StopWriting
  BY <1>11, <1>15 DEF StopWriting
<1>16. CASE Write \/ Flush
  <2>1. WriteOne \/ UNCHANGED <<outbox, written>>
    BY <1>16 DEF Write, Flush
  <2>2. \A x : x \in written \/ Queued(x) => x \in written' \/ Queued(x)'
    BY <1>0, <1>1, <2>1, WriteMoves
  <2>3. UNCHANGED <<task, fired>> /\ (writer' # "failed" => writer # "failed")
    BY <1>16 DEF Write, Flush
  <2> QED
    BY <2>2, <2>3, NoneLostKept
<1>17. CASE WriteFails
  BY <1>17 DEF WriteFails, NoneLost
<1>18. CASE UNCHANGED vars
  BY <1>11, <1>18 DEF vars
<1>19. ASSUME NEW q \in Request, Panic(q) PROVE NoneLost'
  <2>1. /\ task' = [task EXCEPT ![q] = "panicked"] /\ DropWaiting(q) /\ fired \subseteq fired'
        /\ UNCHANGED <<writer, written>>
    BY <1>19 DEF Panic
  <2>2. \A x : Queued(x) => Queued(x)'
    BY <2>1, WaitEnds
  <2> QED
    BY <1>0, <2>1, <2>2, NoneLostKept
<1> QED
  BY <1>2, <1>3, <1>4, <1>5, <1>6, <1>7, <1>8, <1>10, <1>12, <1>13, <1>14, <1>15, <1>16, <1>17,
     <1>18, <1>19 DEF Next

\* The invariant holds of every connection.
THEOREM StdioInvariant == Spec => []StdioInv
<1>1. Init => StdioInv
  <2> SUFFICES ASSUME Init PROVE TypeOK /\ Held /\ InStep /\ NoneLost
    BY DEF StdioInv
  <2>1. TypeOK
    <3>1. outbox \in Seq(Message)
      BY EmptySeq DEF Init
    <3> QED
      BY <3>1 DEF Init, TypeOK, TaskState, Unfinished
  <2>2. Held /\ NoneLost
    BY DEF Init, Held, NoneLost
  <2>3. InStep
    BY DEF Init, InStep
  <2> QED
    BY <2>1, <2>2, <2>3
<1>2. StdioInv /\ [Next]_vars => StdioInv'
  BY TypeStep, HeldStep, InStepStep, NoneLostStep DEF StdioInv
<1> QED
  BY <1>1, <1>2, PTL DEF Spec

\* Exactly the requests being served can be cancelled by their id, however many share
\* it and however they end, and a server request is in the table only while its
\* call waits (InFlightGuard::drop, PendingRequests, Waiting::drop).
THEOREM HeldExactlyWhileServed == Spec => []HeldWhileServed
<1>1. StdioInv => HeldWhileServed
  BY DEF StdioInv, Held, HeldWhileServed
<1> QED
  BY <1>1, StdioInvariant, PTL

\* A connection that drained in time and whose stdout worked has answered every
\* request read from it that was neither cancelled nor lost to a panic of its tool
\* (serve_lines, write_lines).
THEOREM EveryReadIsAnswered == Spec => []ReadIsAnswered
<1>1. StdioInv => ReadIsAnswered
  <2> SUFFICES ASSUME StdioInv, reader = "returned", writer = "done",
                      NEW q \in Request, q \notin fired,
                      task[q] \notin {"unread", "aborted", "panicked"}
               PROVE  <<"response", q>> \in written
    BY DEF ReadIsAnswered
  <2>0. task[q] = "done"
    BY DEF StdioInv, InStep, AllEnded, TypeOK, TaskState
  <2>1. Answered(q)
    BY <2>0 DEF StdioInv, NoneLost
  <2>2. outbox = <<>>
    BY DEF StdioInv, InStep
  <2> QED
    BY <2>1, <2>2 DEF Answered, Queued
<1> QED
  BY <1>1, StdioInvariant, PTL

\* Once the transport returned, no task takes another step and stdout takes no more,
\* whatever jobs the calls left behind (serve_lines, after the writer is awaited).
THEOREM ReturnIsFinal == Spec => NothingAfterReturn
<1>1. StdioInv /\ [Next]_vars =>
          [reader = "returned" => UNCHANGED <<written, task>> /\ closed]_vars
  <2> SUFFICES ASSUME StdioInv, Next, reader = "returned" PROVE UNCHANGED <<written, task>> /\ closed
    OBVIOUS
  <2>1. closed /\ AllEnded /\ writer \in {"done", "failed"}
    BY DEF StdioInv, InStep
  <2>2. \A q \in Request : task[q] \notin Unfinished
    BY <2>1 DEF AllEnded
  <2>3. ASSUME NEW q \in Request PROVE
            ~(\/ ReadRequest(q) \/ ReadAnswer(q) \/ Start(q) \/ SeeCancelled(q) \/ Finish(q)
              \/ SendResponse(q) \/ Abort(q) \/ Panic(q) \/ Ask(q) \/ AskSettled(q)
              \/ AskTimesOut(q))
    BY <2>2 DEF ReadRequest, ReadAnswer, Start, SeeCancelled, Finish, SendResponse, Abort, Panic,
                Ask, AskSettled, AskTimesOut, Unfinished
  <2>4. ~(EndOfInput \/ WriterDied \/ Drained \/ DrainTimeout \/ ShutDown \/ Return
          \/ Write \/ StopWriting \/ Flush \/ WriteFails)
    BY <2>1 DEF EndOfInput, WriterDied, Drained, DrainTimeout, ShutDown, Return, Write,
                StopWriting, Flush, WriteFails
  <2>5. ASSUME NEW q \in Request, JobSends(q) PROVE UNCHANGED <<written, task>>
    BY <2>5 DEF JobSends
  <2>6. ASSUME NEW i \in Id, ReadCancel(i) \/ Cancel(i) \/ AbortNote(i)
        PROVE  UNCHANGED <<written, task>>
    BY <2>6 DEF ReadCancel, Cancel, AbortNote
  <2> QED
    BY <2>1, <2>3, <2>4, <2>5, <2>6 DEF Next
<1> QED
  BY <1>1, StdioInvariant, PTL DEF Spec, NothingAfterReturn
=============================================================================
