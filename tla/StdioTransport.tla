--------------------------- MODULE StdioTransport ---------------------------
(***************************************************************************)
(* One stdio connection: serve_lines and write_lines of                    *)
(* src/mcp/transport/stdio.rs, with what they drive: McpServer::dispatch   *)
(* of src/mcp/server.rs, the registry of in-flight requests of             *)
(* src/mcp/cancellation.rs, and the server requests a call sends its       *)
(* client (ClientChannel::request, PendingRequests) of                     *)
(* src/mcp/client_channel.rs.                                              *)
(*                                                                         *)
(* The reader loop, the writer task and one task per line read run         *)
(* concurrently; they share the outbound channel, the pending table, the   *)
(* registry and the cancellation tokens.                                   *)
(***************************************************************************)
EXTENDS Naturals, Sequences, FiniteSets

CONSTANTS
    Request,  \* request lines the client may send, each at most once
    Id,       \* JSON-RPC ids
    IdOf,     \* the id a request carries; a client may use one twice
    KindOf    \* "call", "setLevel" or "malformed"

ASSUME StdioAssumption ==
    /\ IdOf \in [Request -> Id]
    /\ KindOf \in [Request -> {"call", "setLevel", "malformed"}]

VARIABLES
    reader,   \* where serve_lines is
    task,     \* the task serving each request line
    notes,    \* ids of notifications/cancelled read, whose task has yet to run
    fired,    \* requests whose own cancellation token has fired
    entries,  \* the in-flight registry
    pending,  \* server requests awaiting their answer, by the call that sent it
    open,     \* the pending table is not closed
    answer,   \* server requests whose answer was handed to the waiting call
    outbox,   \* the outbound channel
    writer,   \* where write_lines is
    written,  \* the messages written to stdout
    closed,   \* the connection's cancellation has fired
    jobs,     \* calls that left a job running with a clone of their context
    level,    \* the session's log level is set
    after     \* history: requests read after the setLevel line

vars == <<reader, task, notes, fired, entries, pending, open, answer, outbox, writer,
          written, closed, jobs, level, after>>

-----------------------------------------------------------------------------
Message == {"response", "ask", "notice", "note"} \X Request

\* Tasks in the JoinSet that have not ended.
Unfinished == {"spawned", "running", "asking", "sending"}

TaskState == Unfinished \cup {"unread", "done", "aborted", "panicked"}

\* A request's token is a child of the connection's.
Fired(q) == q \in fired \/ closed

\* The receiving half still takes messages: write_lines neither closed it nor
\* dropped it.
OutboxOpen == writer = "running"

\* outbound.send: refused once the writer closed or dropped its end.
Send(m) == outbox' = IF OutboxOpen THEN Append(outbox, m) ELSE outbox

-----------------------------------------------------------------------------
(* serve_lines: the read loop.                                             *)

\* A request line: a task of its own, or the refusal of an unreadable one.
ReadRequest(q) ==
    /\ reader = "reading"
    /\ task[q] = "unread"
    /\ IF KindOf[q] = "malformed"
       THEN /\ Send(<<"response", q>>)
            /\ task' = [task EXCEPT ![q] = "done"]
       ELSE /\ task' = [task EXCEPT ![q] = "spawned"]
            /\ UNCHANGED outbox
    /\ after' = IF \E p \in Request : KindOf[p] = "setLevel" /\ task[p] # "unread"
                THEN after \cup {q} ELSE after
    /\ UNCHANGED <<reader, notes, fired, entries, pending, open, answer, writer, written,
                   closed, jobs, level>>

\* notifications/cancelled is served on a task of its own too. The client
\* sends one for a request it has sent.
ReadCancel(i) ==
    /\ reader = "reading"
    /\ \E q \in Request : IdOf[q] = i /\ task[q] # "unread"
    /\ notes' = notes \cup {i}
    /\ UNCHANGED <<reader, task, fired, entries, pending, open, answer, outbox, writer,
                   written, closed, jobs, level, after>>

\* The client answers a server request it has been sent; the loop itself
\* delivers it, and a late one finds nobody waiting.
ReadAnswer(q) ==
    /\ reader = "reading"
    /\ <<"ask", q>> \in written
    /\ pending' = pending \ {q}
    /\ answer' = IF q \in pending THEN answer \cup {q} ELSE answer
    /\ UNCHANGED <<reader, task, notes, fired, entries, open, outbox, writer, written,
                   closed, jobs, level, after>>

\* Bug: the pending table is left open at the end of input.
EndOfInputLeavesTable ==
    /\ reader = "reading"
    /\ reader' = "draining"
    /\ UNCHANGED <<task, notes, fired, entries, pending, open, answer, outbox, writer,
                   written, closed, jobs, level, after>>

\* Stdin is closed or fails: the table is closed, which drops every sender.
EndOfInput ==
    /\ reader = "reading"
    /\ reader' = "draining"
    /\ open' = FALSE
    /\ pending' = {}
    /\ UNCHANGED <<task, notes, fired, entries, answer, outbox, writer, written, closed,
                   jobs, level, after>>

\* The writer stopped on a stdout error: give everything up.
WriterDied ==
    /\ reader = "reading"
    /\ writer = "failed"
    /\ reader' = "abandoning"
    /\ open' = FALSE
    /\ pending' = {}
    /\ closed' = TRUE
    /\ UNCHANGED <<task, notes, fired, entries, answer, outbox, writer, written, jobs,
                   level, after>>

\* The JoinSet is empty.
AllEnded == notes = {} /\ \A q \in Request : task[q] \notin Unfinished

Drained ==
    /\ reader = "draining"
    /\ AllEnded
    /\ reader' = "stopping"
    /\ UNCHANGED <<task, notes, fired, entries, pending, open, answer, outbox, writer,
                   written, closed, jobs, level, after>>

\* Bug: the drain has no bound.
DrainUnbounded == FALSE

\* The drain ran out: requests.shutdown aborts every task and waits for all.
DrainTimeout ==
    /\ reader = "draining"
    /\ ~AllEnded
    /\ reader' = "aborting"
    /\ UNCHANGED <<task, notes, fired, entries, pending, open, answer, outbox, writer,
                   written, closed, jobs, level, after>>

ShutDown ==
    /\ reader \in {"aborting", "abandoning"}
    /\ AllEnded
    /\ reader' = IF reader = "aborting" THEN "stopping" ELSE "returned"
    /\ UNCHANGED <<task, notes, fired, entries, pending, open, answer, outbox, writer,
                   written, closed, jobs, level, after>>

\* Bug: the transport returns without waiting for the writer.
ReturnEarly ==
    /\ reader = "stopping"
    /\ reader' = "returned"
    /\ closed' = TRUE
    /\ UNCHANGED <<task, notes, fired, entries, pending, open, answer, outbox, writer,
                   written, jobs, level, after>>

\* After stop_writing: the writer is awaited, then the connection's
\* cancellation reaches whatever still holds a context.
Return ==
    /\ reader = "stopping"
    /\ writer \in {"done", "failed"}
    /\ reader' = "returned"
    /\ closed' = TRUE
    /\ UNCHANGED <<task, notes, fired, entries, pending, open, answer, outbox, writer,
                   written, jobs, level, after>>

-----------------------------------------------------------------------------
(* write_lines.                                                            *)

WriteOne ==
    /\ outbox # <<>>
    /\ written' = written \cup {Head(outbox)}
    /\ outbox' = Tail(outbox)

Write ==
    /\ writer = "running" /\ reader # "stopping"
    /\ WriteOne
    /\ UNCHANGED <<reader, task, notes, fired, entries, pending, open, answer, writer,
                   closed, jobs, level, after>>

\* stop_writing fired (biased: looked at first): the channel is closed.
StopWriting ==
    /\ writer = "running" /\ reader = "stopping"
    /\ writer' = "flushing"
    /\ UNCHANGED <<reader, task, notes, fired, entries, pending, open, answer, outbox,
                   written, closed, jobs, level, after>>

\* Bug: what was queued before the stop is not written.
FlushNothing ==
    /\ writer = "flushing"
    /\ writer' = "done"
    /\ outbox' = <<>>
    /\ UNCHANGED <<reader, task, notes, fired, entries, pending, open, answer, written,
                   closed, jobs, level, after>>

\* What was queued by then is written, and nothing after it.
Flush ==
    /\ writer = "flushing"
    /\ \/ WriteOne /\ UNCHANGED writer
       \/ outbox = <<>> /\ writer' = "done" /\ UNCHANGED <<outbox, written>>
    /\ UNCHANGED <<reader, task, notes, fired, entries, pending, open, answer, closed,
                   jobs, level, after>>

\* A write fails: the writer returns and its end of the channel is dropped.
WriteFails ==
    /\ writer \in {"running", "flushing"}
    /\ outbox # <<>>
    /\ writer' = "failed"
    /\ outbox' = <<>>
    /\ UNCHANGED <<reader, task, notes, fired, entries, pending, open, answer, written,
                   closed, jobs, level, after>>

-----------------------------------------------------------------------------
(* A request's task: McpServer::dispatch and the send of its response.     *)

\* dispatch registers the request, under a token of its own.
Start(q) ==
    /\ task[q] = "spawned"
    /\ task' = [task EXCEPT ![q] = "running"]
    /\ entries' = entries \cup {q}
    /\ UNCHANGED <<reader, notes, fired, pending, open, answer, outbox, writer, written,
                   closed, jobs, level, after>>

\* handle_notification: every registered request with that id is cancelled.
Cancel(i) ==
    /\ i \in notes
    /\ notes' = notes \ {i}
    /\ fired' = fired \cup {q \in entries : IdOf[q] = i}
    /\ UNCHANGED <<reader, task, entries, pending, open, answer, outbox, writer, written,
                   closed, jobs, level, after>>

\* Bug: a finished request takes every entry of its id with it.
ReleaseAll(q) == entries' = {p \in entries : IdOf[p] # IdOf[q]}

\* InFlightGuard::drop: only this request's serial is released.
Release(q) == entries' = entries \ {q}

\* Waiting::drop of a wait that was not settled: the request is forgotten and
\* the client told. Nothing to do for a call that is not waiting.
DropWaiting(q) ==
    IF task[q] # "asking" THEN UNCHANGED <<pending, outbox>>
    ELSE /\ pending' = pending \ {q}
         /\ Send(<<"notice", q>>)

\* dispatch's select sees the token: the route future is dropped, with the
\* wait in it, and no response is sent.
SeeCancelled(q) ==
    /\ task[q] \in {"running", "asking"}
    /\ Fired(q)
    /\ task' = [task EXCEPT ![q] = "done"]
    /\ Release(q)
    /\ DropWaiting(q)
    /\ answer' = answer \ {q}
    /\ UNCHANGED <<reader, notes, fired, open, writer, written, closed, jobs, level, after>>

\* The handler answers. handle_set_level sets the session's level; a tool may
\* leave a job behind. The response may cross a cancellation in flight.
Finish(q) ==
    /\ task[q] = "running"
    /\ task' = [task EXCEPT ![q] = "sending"]
    /\ Release(q)
    /\ level' = (level \/ KindOf[q] = "setLevel")
    /\ \/ UNCHANGED jobs
       \/ KindOf[q] = "call" /\ jobs' = jobs \cup {q}
    /\ UNCHANGED <<reader, notes, fired, pending, open, answer, outbox, writer, written,
                   closed, after>>

\* The response is queued within the same poll: an abort cannot fall between.
SendResponse(q) ==
    /\ task[q] = "sending"
    /\ task' = [task EXCEPT ![q] = "done"]
    /\ Send(<<"response", q>>)
    /\ UNCHANGED <<reader, notes, fired, entries, pending, open, answer, writer, written,
                   closed, jobs, level, after>>

\* A tool panics, in a build that unwinds: the unwinding drops what the task held,
\* which fires the request's token. The join finds an error, which is logged, and
\* no response is written.
Panic(q) ==
    /\ task[q] \in {"running", "asking"} /\ KindOf[q] = "call"
    /\ task' = [task EXCEPT ![q] = "panicked"]
    /\ fired' = fired \cup {q}
    /\ Release(q)
    /\ DropWaiting(q)
    /\ answer' = answer \ {q}
    /\ UNCHANGED <<reader, notes, open, writer, written, closed, jobs, level, after>>

\* requests.shutdown drops the task at an await: the drop guard fires the
\* token of a request that was being served.
Abort(q) ==
    /\ reader \in {"aborting", "abandoning"}
    /\ task[q] \in {"spawned", "running", "asking"}
    /\ task' = [task EXCEPT ![q] = "aborted"]
    /\ fired' = IF task[q] = "spawned" THEN fired ELSE fired \cup {q}
    /\ Release(q)
    /\ DropWaiting(q)
    /\ answer' = answer \ {q}
    /\ UNCHANGED <<reader, notes, open, writer, written, closed, jobs, level, after>>

\* ... and a notification's task that has not run.
AbortNote(i) ==
    /\ reader \in {"aborting", "abandoning"}
    /\ i \in notes
    /\ notes' = notes \ {i}
    /\ UNCHANGED <<reader, task, fired, entries, pending, open, answer, outbox, writer,
                   written, closed, jobs, level, after>>

-----------------------------------------------------------------------------
(* ClientChannel::request from within a call (each call sends at most one).*)

\* Register, then send. A closed table or a closed channel fails the request
\* at once, as Disconnected, with nothing left registered: the call goes on.
Ask(q) ==
    /\ task[q] = "running" /\ KindOf[q] = "call"
    /\ \A m \in {"ask", "notice"} : <<m, q>> \notin written
    /\ \A n \in DOMAIN outbox : outbox[n] \notin {<<"ask", q>>, <<"notice", q>>}
    /\ open /\ OutboxOpen
    /\ pending' = pending \cup {q}
    /\ Send(<<"ask", q>>)
    /\ task' = [task EXCEPT ![q] = "asking"]
    /\ UNCHANGED <<reader, notes, fired, entries, open, answer, writer, written, closed,
                   jobs, level, after>>

\* The answer arrives, or the table was closed under the wait: both settle it.
AskSettled(q) ==
    /\ task[q] = "asking"
    /\ q \in answer \/ q \notin pending
    /\ task' = [task EXCEPT ![q] = "running"]
    /\ answer' = answer \ {q}
    /\ UNCHANGED <<reader, notes, fired, entries, pending, open, outbox, writer, written,
                   closed, jobs, level, after>>

\* The client took too long.
AskTimesOut(q) ==
    /\ task[q] = "asking"
    /\ DropWaiting(q)
    /\ task' = [task EXCEPT ![q] = "running"]
    /\ answer' = answer \ {q}
    /\ UNCHANGED <<reader, notes, fired, entries, open, writer, written, closed, jobs,
                   level, after>>

\* A job a finished call left behind sends a notification (one), until it sees
\* the cancellation and ends.
JobSends(q) ==
    /\ q \in jobs
    /\ jobs' = jobs \ {q}
    /\ Send(<<"note", q>>)
    /\ UNCHANGED <<reader, task, notes, fired, entries, pending, open, answer, writer,
                   written, closed, level, after>>

-----------------------------------------------------------------------------
Init ==
    /\ reader = "reading"
    /\ task = [q \in Request |-> "unread"]
    /\ notes = {}
    /\ fired = {}
    /\ entries = {}
    /\ pending = {}
    /\ open = TRUE
    /\ answer = {}
    /\ outbox = <<>>
    /\ writer = "running"
    /\ written = {}
    /\ closed = FALSE
    /\ jobs = {}
    /\ level = FALSE
    /\ after = {}

Next ==
    \/ \E q \in Request :
          \/ ReadRequest(q) \/ ReadAnswer(q)
          \/ Start(q) \/ SeeCancelled(q) \/ Finish(q) \/ SendResponse(q) \/ Abort(q)
          \/ Panic(q)
          \/ Ask(q) \/ AskSettled(q) \/ AskTimesOut(q) \/ JobSends(q)
    \/ \E i \in Id : ReadCancel(i) \/ Cancel(i) \/ AbortNote(i)
    \/ EndOfInput \/ WriterDied \/ Drained \/ DrainTimeout \/ ShutDown \/ Return
    \/ Write \/ StopWriting \/ Flush \/ WriteFails

Spec == Init /\ [][Next]_vars

\* Tasks that are woken are polled, and the client keeps reading stdout until
\* a write fails. A tool need never finish by itself.
Fairness ==
    /\ WF_vars(WriterDied \/ Drained \/ ShutDown \/ Return)
    /\ WF_vars(Write \/ StopWriting \/ Flush)
    /\ \A q \in Request :
          /\ WF_vars(Start(q)) /\ WF_vars(SeeCancelled(q)) /\ WF_vars(SendResponse(q))
          /\ WF_vars(Abort(q)) /\ WF_vars(AskSettled(q))
    /\ \A i \in Id : WF_vars(Cancel(i) \/ AbortNote(i))

\* How long the drain takes is left open.
FairSpec == Spec /\ Fairness

-----------------------------------------------------------------------------
(* Properties.                                                             *)

TypeOK ==
    /\ reader \in {"reading", "draining", "aborting", "abandoning", "stopping", "returned"}
    /\ task \in [Request -> TaskState]
    /\ notes \in SUBSET Id
    /\ fired \in SUBSET Request
    /\ entries \in SUBSET Request
    /\ pending \in SUBSET Request
    /\ open \in BOOLEAN
    /\ answer \in SUBSET Request
    /\ outbox \in Seq(Message)
    /\ writer \in {"running", "flushing", "done", "failed"}
    /\ written \in SUBSET Message
    /\ closed \in BOOLEAN
    /\ jobs \in SUBSET Request
    /\ level \in BOOLEAN
    /\ after \in SUBSET Request

\* InFlightRequests and PendingRequests: exactly the requests being served can be
\* reached by notifications/cancelled, whichever ids they share and however they
\* end; a server request is in the table only while its call waits for it, and
\* not after the table closed. And every variable keeps its type.
HeldWhileServed ==
    /\ TypeOK
    /\ entries = {q \in Request : task[q] \in {"running", "asking"}}
    /\ \A q \in pending : open /\ task[q] = "asking"
    /\ \A q \in answer : task[q] = "asking"

\* serve_lines: a connection that drained in time and whose stdout worked
\* answered every request read from it, but for the ones the client cancelled and
\* the ones whose tool panicked.
ReadIsAnswered ==
    reader = "returned" /\ writer = "done" =>
        \A q \in Request :
            task[q] \notin {"unread", "aborted", "panicked"} /\ q \notin fired =>
                <<"response", q>> \in written

\* serve_lines awaits the writer: once it returned, stdout takes nothing more,
\* every task has ended, and the connection's cancellation has fired.
NothingAfterReturn ==
    [][reader = "returned" => UNCHANGED <<written, task>> /\ closed]_vars

\* serve_lines with its DRAIN_TIMEOUT: once input ended or stdout failed, the
\* transport returns, even with tools that never finish, calls waiting on the
\* client, and jobs left behind.
ReturnsInTheEnd ==
    WF_vars(DrainTimeout) =>
        ((reader = "draining" \/ writer = "failed") ~> (reader = "returned"))

\* Closing stdin fails every server request still awaiting an answer by itself:
\* no call sits in its wait until the drain runs out.
NoCallWaitsAfterClose ==
    \A q \in Request : (task[q] = "asking" /\ reader # "reading") ~> (task[q] # "asking")

\* The comment on stdio::run: "what the client declares in `initialize` and sets
\* with `logging/setLevel` holds for every later request on it."
LaterRequestsSeeLevel ==
    \A q \in after : KindOf[q] = "call" /\ task[q] \in {"running", "asking"} => level
=============================================================================
