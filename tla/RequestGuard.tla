---------------------------- MODULE RequestGuard ----------------------------
(***************************************************************************)
(* `guard_requests` of server/request_guard.rs, the outermost middleware,  *)
(* and the `enforce_deadline` layer under it.  A request's `InFlight`      *)
(* travels from the handler to the body of a streamed answer; whoever      *)
(* holds it last writes the request's one line in the log.                 *)
(*                                                                         *)
(* The handler is the environment: it answers, panics, outlives its        *)
(* deadline, or is dropped by hyper with its connection.                   *)
(***************************************************************************)
EXTENDS Naturals, Sequences

CONSTANTS Requests,      \* the requests of the process
          Timed          \* the ones routed under `enforce_deadline`

ASSUME TimedAssumption == Timed \subseteq Requests

VARIABLES at,            \* where a request is
          open,          \* whether its InFlight exists and is not finished
          lines          \* what the log says of it

guardVars == <<at, open, lines>>

Places == {"idle", "handling", "body", "over"}
Lines  == {"completed", "cut", "dropped"}
Statuses == {200, 202, 401, 404, 500, 504}

GuardTypeOK ==
    /\ at \in [Requests -> Places]
    /\ open \in [Requests -> BOOLEAN]
    /\ lines \in [Requests -> Seq([line : Lines, status : Statuses \cup {0}])]

GuardInit ==
    /\ at = [r \in Requests |-> "idle"]
    /\ open = [r \in Requests |-> FALSE]
    /\ lines = [r \in Requests |-> <<>>]

Start(r) ==
    /\ at[r] = "idle"
    /\ at' = [at EXCEPT ![r] = "handling"]
    /\ open' = [open EXCEPT ![r] = TRUE]
    /\ UNCHANGED lines

\* InFlight::finish, InFlight::cut and InFlight::drop all leave it finished.
Log(r, line, status) ==
    /\ lines' = [lines EXCEPT ![r] = Append(@, [line |-> line, status |-> status])]
    /\ open' = [open EXCEPT ![r] = FALSE]

\* The handler's response; `streamed` is is_streamed_answer of it.
Respond(r, status, streamed) ==
    /\ at[r] = "handling"
    /\ IF streamed
       THEN at' = [at EXCEPT ![r] = "body"] /\ UNCHANGED <<open, lines>>
       ELSE at' = [at EXCEPT ![r] = "over"] /\ Log(r, "completed", status)

\* catch_unwind around the handler: the 500 is never a stream.
Panic(r) == Respond(r, 500, FALSE)

Deadline(r) == r \in Timed /\ Respond(r, 504, FALSE)

\* The guard's own future is dropped with the connection.
DropHandler(r) ==
    /\ at[r] = "handling"
    /\ at' = [at EXCEPT ![r] = "over"]
    /\ Log(r, "dropped", 0)

\* Mutant: poll_next writes the completion line without taking the InFlight.
EndsWithoutTaking(r) ==
    /\ at[r] = "body" /\ open[r]
    /\ lines' = [lines EXCEPT ![r] = Append(@, [line |-> "completed", status |-> 200])]
    /\ UNCHANGED <<at, open>>

\* StreamedAnswer::poll_next reads the end of the body.
BodyEnds(r) ==
    /\ at[r] = "body" /\ open[r]
    /\ Log(r, "completed", 200)
    /\ UNCHANGED at

\* StreamedAnswer::drop, after the end or before it.
DropBody(r) ==
    /\ at[r] = "body"
    /\ at' = [at EXCEPT ![r] = "over"]
    /\ IF open[r] THEN Log(r, "cut", 200) ELSE UNCHANGED <<open, lines>>

GuardNext ==
    \E r \in Requests :
        \/ Start(r) \/ Panic(r) \/ Deadline(r) \/ DropHandler(r)
        \/ BodyEnds(r) \/ DropBody(r)
        \/ \E status \in Statuses, streamed \in BOOLEAN : Respond(r, status, streamed)

GuardSpec == GuardInit /\ [][GuardNext]_guardVars
-----------------------------------------------------------------------------
\* However a request ends - answered, panicked, timed out, dropped, its stream
\* read to the end or cut - the log holds exactly one line about it, and none
\* while it is still being served (guard_requests, InFlight, StreamedAnswer).
OneLine ==
    \A r \in Requests :
        /\ Len(lines[r]) <= 1
        /\ at[r] = "over" => Len(lines[r]) = 1
        /\ open[r] => lines[r] = <<>>
=============================================================================
