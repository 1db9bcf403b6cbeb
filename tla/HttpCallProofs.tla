--------------------------- MODULE HttpCallProofs ---------------------------
(***************************************************************************)
(* Theorems about RequestGuard and HttpCall, for any requests, clients and *)
(* calls. The log holds one line about a request that is over and none     *)
(* about one that is still served. A call served over HTTP stays within    *)
(* what the guard allows, what is registered for it goes when it does,     *)
(* only its own client reaches it, it is observed once, and its client is  *)
(* told everything in order.                                               *)
(***************************************************************************)
EXTENDS HttpCall, SequenceTheorems, TLAPS

-----------------------------------------------------------------------------
(* The guard.                                                              *)

Line == [line : Lines, status : Statuses \cup {0}]

\* Who holds the InFlight and what was logged: the handler holds it, then the
\* body or nobody; it is unfinished exactly as long as nothing was logged.
Holder(r) ==
    /\ at[r] = "idle" => ~open[r] /\ lines[r] = <<>>
    /\ at[r] = "handling" => open[r]
    /\ at[r] = "over" => ~open[r]
    /\ open[r] => lines[r] = <<>>
    /\ ~open[r] /\ at[r] # "idle" => Len(lines[r]) = 1

\* The inductive invariant.
GuardInv == GuardTypeOK /\ \A r \in Requests : Holder(r)

\* Whatever of InFlight's three ends a request reaches, its first line is well
\* formed and the InFlight is finished with it.
LEMMA LogEnds ==
    ASSUME GuardInv, NEW r \in Requests, open[r],
           NEW line \in Lines, NEW status \in Statuses \cup {0},
           Log(r, line, status)
    PROVE  /\ open' = [open EXCEPT ![r] = FALSE]
           /\ lines' \in [Requests -> Seq(Line)]
           /\ Len(lines'[r]) = 1
           /\ \A q \in Requests : q # r => lines'[q] = lines[q]
<1> DEFINE entry == [line |-> line, status |-> status]
<1>1. entry \in Line
  BY DEF Line
<1>2. lines \in [Requests -> Seq(Line)] /\ lines[r] = <<>>
  BY DEF GuardInv, GuardTypeOK, Holder, Line
<1>3. lines' = [lines EXCEPT ![r] = Append(lines[r], entry)]
  BY DEF Log
<1> HIDE DEF entry
<1>4. Append(lines[r], entry) \in Seq(Line) /\ Len(Append(lines[r], entry)) = 1
  BY <1>1, <1>2
<1>5. open' = [open EXCEPT ![r] = FALSE]
  BY DEF Log
<1> QED
  BY <1>2, <1>3, <1>4, <1>5

\* A request that logs its line and leaves for p keeps the invariant: p is where
\* a finished request may be.
LEMMA LogKeeps ==
    ASSUME GuardInv, NEW r \in Requests, open[r],
           NEW line \in Lines, NEW status \in Statuses \cup {0},
           Log(r, line, status),
           NEW p \in {"body", "over"}, at' = [at EXCEPT ![r] = p]
    PROVE  GuardInv'
<1>1. at \in [Requests -> Places] /\ open \in [Requests -> BOOLEAN]
  BY DEF GuardInv, GuardTypeOK
<1>2. /\ open' = [open EXCEPT ![r] = FALSE]
      /\ lines' \in [Requests -> Seq(Line)]
      /\ Len(lines'[r]) = 1
      /\ \A q \in Requests : q # r => lines'[q] = lines[q]
  BY LogEnds
<1>3. GuardTypeOK'
  BY <1>1, <1>2 DEF GuardTypeOK, Places, Line
<1>4. ASSUME NEW q \in Requests PROVE Holder(q)'
  <2>1. CASE q = r
    BY <2>1, <1>1, <1>2 DEF Holder
  <2>2. CASE q # r
    BY <2>2, <1>1, <1>2 DEF Holder, GuardInv
  <2> QED
    BY <2>1, <2>2
<1> QED
  BY <1>3, <1>4 DEF GuardInv

\* The handler's answer, and with it a panic's 500 and the deadline's 504.
LEMMA RespondKeeps ==
    ASSUME GuardInv, NEW r \in Requests, NEW status \in Statuses,
           NEW streamed \in BOOLEAN, Respond(r, status, streamed)
    PROVE  GuardInv'
<1>1. at[r] = "handling" /\ open[r]
  BY DEF Respond, GuardInv, Holder
<1>2. CASE streamed
  <2>1. at' = [at EXCEPT ![r] = "body"] /\ UNCHANGED <<open, lines>>
    BY <1>2 DEF Respond
  <2> QED
    BY <2>1, <1>1 DEF GuardInv, GuardTypeOK, Places, Holder
<1>3. CASE ~streamed
  <2>1. at' = [at EXCEPT ![r] = "over"] /\ Log(r, "completed", status)
    BY <1>3 DEF Respond
  <2> QED
    BY <2>1, <1>1, LogKeeps DEF Lines
<1> QED
  BY <1>2, <1>3

\* Every step of the guard keeps its invariant.
LEMMA GuardStep == GuardInv /\ [GuardNext]_guardVars => GuardInv'
<1> SUFFICES ASSUME GuardInv, [GuardNext]_guardVars PROVE GuardInv'
  OBVIOUS
<1>1. ASSUME NEW r \in Requests, Start(r) PROVE GuardInv'
  BY <1>1 DEF Start, GuardInv, GuardTypeOK, Places, Holder
<1>2. ASSUME NEW r \in Requests, Panic(r) PROVE GuardInv'
  <2>1. 500 \in Statuses /\ Respond(r, 500, FALSE)
    BY <1>2 DEF Panic, Statuses
  <2> QED
    BY <2>1, RespondKeeps
<1>3. ASSUME NEW r \in Requests, Deadline(r) PROVE GuardInv'
  <2>1. 504 \in Statuses /\ Respond(r, 504, FALSE)
    BY <1>3 DEF Deadline, Statuses
  <2> QED
    BY <2>1, RespondKeeps
<1>4. ASSUME NEW r \in Requests, DropHandler(r) PROVE GuardInv'
  <2>1. open[r]
    BY <1>4 DEF DropHandler, GuardInv, Holder
  <2> QED
    BY <1>4, <2>1, LogKeeps DEF DropHandler, Lines
<1>5. ASSUME NEW r \in Requests, BodyEnds(r) PROVE GuardInv'
  <2>1. at' = [at EXCEPT ![r] = "body"]
    BY <1>5 DEF BodyEnds, GuardInv, GuardTypeOK
  <2>2. "completed" \in Lines /\ 200 \in Statuses \cup {0}
    BY DEF Lines, Statuses
  <2>3. open[r] /\ Log(r, "completed", 200)
    BY <1>5 DEF BodyEnds
  <2> QED
    BY <2>1, <2>2, <2>3, LogKeeps
<1>6. ASSUME NEW r \in Requests, DropBody(r) PROVE GuardInv'
  <2>1. CASE open[r]
    <3>1. "cut" \in Lines /\ 200 \in Statuses \cup {0}
      BY DEF Lines, Statuses
    <3>2. at' = [at EXCEPT ![r] = "over"] /\ Log(r, "cut", 200)
      BY <1>6, <2>1 DEF DropBody
    <3> QED
      BY <2>1, <3>1, <3>2, LogKeeps
  <2>2. CASE ~open[r]
    BY <1>6, <2>2 DEF DropBody, GuardInv, GuardTypeOK, Places, Holder
  <2> QED
    BY <2>1, <2>2
<1>7. ASSUME NEW r \in Requests, NEW status \in Statuses, NEW streamed \in BOOLEAN,
             Respond(r, status, streamed)
      PROVE  GuardInv'
  BY <1>7, RespondKeeps
<1>8. CASE UNCHANGED guardVars
  BY <1>8 DEF guardVars, GuardInv, GuardTypeOK, Holder
<1> QED
  BY <1>1, <1>2, <1>3, <1>4, <1>5, <1>6, <1>7, <1>8 DEF GuardNext

\* Where a request is, whether its InFlight is open and what was logged of it
\* agree at every moment (guard_requests, InFlight, StreamedAnswer).
THEOREM GuardInvariant == GuardSpec => []GuardInv
<1>1. GuardInit => GuardInv
  BY DEF GuardInit, GuardInv, GuardTypeOK, Places, Holder
<1> QED
  BY <1>1, GuardStep, PTL DEF GuardSpec

\* However any number of requests interleave and end - an answer, a panic, the
\* deadline, a dropped connection, a stream read to its end or cut - each has
\* exactly one line in the log, written when it is over and not before.
THEOREM OneLinePerRequest == GuardSpec => []OneLine
<1>1. GuardInv => OneLine
  <2> SUFFICES ASSUME GuardInv, NEW r \in Requests
               PROVE  /\ Len(lines[r]) <= 1
                      /\ at[r] = "over" => Len(lines[r]) = 1
                      /\ open[r] => lines[r] = <<>>
    BY DEF OneLine
  <2>1. Holder(r) /\ open[r] \in BOOLEAN
    BY DEF GuardInv, GuardTypeOK
  <2>2. lines[r] = <<>> \/ Len(lines[r]) = 1
    BY <2>1 DEF Holder
  <2>3. Len(lines[r]) <= 1
    <3>1. CASE lines[r] = <<>>
      BY <3>1
    <3>2. CASE Len(lines[r]) = 1
      BY <3>2
    <3> QED
      BY <2>2, <3>1, <3>2
  <2>4. at[r] = "over" => Len(lines[r]) = 1
    BY <2>1 DEF Holder
  <2>5. open[r] => lines[r] = <<>>
    BY <2>1 DEF Holder
  <2> QED
    BY <2>3, <2>4, <2>5
<1> QED
  BY <1>1, GuardInvariant, PTL

-----------------------------------------------------------------------------
(* The guard sees only its own steps.                                      *)

\* The answer in one piece is a Respond with a status of the server's.
LEMMA SingleGuards ==
    ASSUME NEW c \in Calls, NEW status \in Statuses, NEW body, NEW event \in BOOLEAN,
           Single(c, status, body, event)
    PROVE  GuardNext
BY CallsAssumption DEF Single, GuardNext

\* The first answer of a call, whether JSON, an event or a stream.
LEMMA AnswerGuards ==
    ASSUME NEW c \in Calls, NEW response, NEW out,
           AnswerFirst(c, response, out)
    PROVE  GuardNext
<1>1. 200 \in Statuses /\ 202 \in Statuses
  BY DEF Statuses
<1>2. CASE out = <<>> /\ response = None
  BY <1>1, <1>2, SingleGuards DEF AnswerFirst
<1>3. CASE out = <<>> /\ response # None
  BY <1>1, <1>3, SingleGuards, CallsAssumption DEF AnswerFirst
<1>4. CASE out # <<>>
  <2>1. Respond(c, 200, TRUE)
    BY <1>4 DEF AnswerFirst
  <2> QED
    BY <1>1, <2>1, CallsAssumption DEF GuardNext
<1> QED
  BY <1>2, <1>3, <1>4

\* Every step of a call, of its tool, its stream, its client or its connection is
\* a step of the guard's or none at all.
LEMMA StepGuards == [Next]_vars => [GuardNext]_guardVars
<1> SUFFICES ASSUME [Next]_vars PROVE GuardNext \/ UNCHANGED guardVars
  OBVIOUS
<1> USE CallsAssumption
<1>0. \A s \in {200, 401, 404, 500} : s \in Statuses
  BY DEF Statuses
<1>1. ASSUME NEW c \in Calls, Arrive(c) PROVE GuardNext
  BY <1>1 DEF Arrive, GuardNext
<1>2. ASSUME NEW c \in Calls, AuthRefused(c) \/ SessionNotFound(c) PROVE GuardNext
  <2>1. PICK status \in {401, 404} : Single(c, status, Item("status", status), FALSE)
    BY <1>2 DEF AuthRefused, SessionNotFound, Refused
  <2>2. status \in Statuses
    BY <1>0
  <2>3. Respond(c, status, FALSE)
    BY <2>1 DEF Single
  <2> QED
    BY <2>2, <2>3 DEF GuardNext
<1>3. ASSUME NEW c \in Calls,
             \/ Admit(c) \/ Resume(c) \/ Note(c) \/ Ask(c)
             \/ AskTimesOut(c) \/ AskCancelled(c) \/ StreamMessage(c)
      PROVE  UNCHANGED guardVars
  BY <1>3 DEF Admit, Resume, Note, Ask, AskTimesOut, AskCancelled, GiveUp, StreamMessage
<1>4. ASSUME NEW c \in Calls, Cancelled(c) PROVE GuardNext \/ UNCHANGED guardVars
  <2>1. CASE stage[c] = "first"
    <3>1. PICK out : AnswerFirst(c, None, out)
      BY <1>4, <2>1 DEF Cancelled
    <3> QED
      BY <3>1, AnswerGuards
  <2>2. CASE stage[c] # "first"
    BY <1>4, <2>2 DEF Cancelled, AnswerStreaming
  <2> QED
    BY <2>1, <2>2
<1>5. ASSUME NEW c \in Calls, Return(c) PROVE GuardNext \/ UNCHANGED guardVars
  <2>1. CASE stage[c] = "first"
    BY <1>5, <2>1, AnswerGuards DEF Return
  <2>2. CASE stage[c] # "first"
    BY <1>5, <2>2 DEF Return, AnswerStreaming
  <2> QED
    BY <2>1, <2>2
<1>6. ASSUME NEW c \in Calls, ToolPanics(c) PROVE GuardNext \/ UNCHANGED guardVars
  <2>1. CASE stage[c] = "first"
    BY <1>6, <2>1 DEF ToolPanics, GuardNext
  <2>2. CASE stage[c] # "first"
    BY <1>6, <2>2 DEF ToolPanics, AnswerStreaming
  <2> QED
    BY <2>1, <2>2
<1>7. ASSUME NEW c \in Calls, TakeFirst(c) PROVE GuardNext
  <2>1. Respond(c, 200, TRUE)
    BY <1>7 DEF TakeFirst
  <2> QED
    BY <1>0, <2>1 DEF GuardNext
<1>8. ASSUME NEW c \in Calls, StreamReply(c) \/ StreamEnds(c)
      PROVE  GuardNext \/ UNCHANGED guardVars
  <2>1. BodyEnds(c) \/ UNCHANGED guardVars
    BY <1>8 DEF StreamReply, StreamEnds
  <2> QED
    BY <2>1 DEF GuardNext
<1>9. ASSUME NEW c \in Calls, BodyReleased(c) \/ Disconnect(c) PROVE GuardNext
  BY <1>9 DEF BodyReleased, Disconnect, GuardNext
<1>10. ASSUME NEW k \in Clients, NEW c \in Calls, CancelNotice(k, c.id) \/ Deliver(k, c)
       PROVE  UNCHANGED guardVars
  BY <1>10 DEF CancelNotice, Deliver
<1>11. ASSUME NEW s \in Sessions, EndSession(s) PROVE UNCHANGED guardVars
  BY <1>11 DEF EndSession
<1>12. ASSUME NEW r \in Rest, RestStep(r) PROVE GuardNext
  <2>1. Start(r) \/ Respond(r, 200, FALSE) \/ Panic(r) \/ Deadline(r) \/ DropHandler(r)
    BY <1>12 DEF RestStep
  <2>2. CASE Respond(r, 200, FALSE)
    BY <1>0, <2>2 DEF GuardNext
  <2> QED
    BY <2>1, <2>2 DEF GuardNext
<1>13. CASE UNCHANGED vars
  BY <1>13 DEF vars
<1> QED
  BY <1>1, <1>2, <1>3, <1>4, <1>5, <1>6, <1>7, <1>8, <1>9, <1>10, <1>11, <1>12, <1>13
  DEF Next, Step, ToolStep

\* Calls over HTTP implement the request guard: every step of the composed
\* system, whoever takes it, is one of the guard's or leaves what it keeps alone.
THEOREM ImplementsGuard == Spec => GuardSpec
<1>1. Init => GuardInit
  BY DEF Init
<1> QED
  BY <1>1, StepGuards, PTL DEF Spec, GuardSpec

\* Hence however a call served over HTTP ends, JSON or stream, cancelled, panicked
\* or disconnected, the log has exactly one line about its request.
THEOREM OneLinePerCall == Spec => []OneLine
BY ImplementsGuard, OneLinePerRequest, PTL
-----------------------------------------------------------------------------
(* What is held for a call.                                                *)

Stages == {"idle", "auth", "first", "running", "draining", "done", "over"}

HeldTypeOK ==
    /\ stage \in [Calls -> Stages]
    /\ tool \in [Calls -> {"none", "over"} \cup Live]
    /\ pending \subseteq Calls /\ registered \subseteq Calls /\ busy \subseteq Calls

\* A dispatch runs only before its answer is complete; the registry, the table of
\* questions and the session know a call exactly as long as they have to.
Held(c) ==
    /\ at[c] = "idle" => stage[c] = "idle"
    /\ tool[c] \in Live => stage[c] \in {"first", "running"}
    /\ c \in pending <=> tool[c] = "asking"
    /\ c \in registered <=> (tool[c] \in Live /\ TellsCallersApart(Key(c)))
    /\ c \in busy <=> ( /\ stage[c] \in {"first", "running", "draining"}
                        /\ c.client.session # None)

\* The inductive invariant, on top of the guard's.
HeldInv == GuardInv /\ HeldTypeOK /\ \A c \in Calls : Held(c)

\* No request goes back to the time before it arrived.
LEMMA ArrivesOnce ==
    ASSUME GuardInv, [GuardNext]_guardVars, NEW r \in Requests, at'[r] = "idle"
    PROVE  at[r] = "idle"
<1>1. at \in [Requests -> Places]
  BY DEF GuardInv, GuardTypeOK
<1>2. CASE UNCHANGED guardVars
  BY <1>2 DEF guardVars
<1>3. CASE GuardNext
  <2>1. PICK q \in Requests :
            at' = at \/ \E p \in {"handling", "body", "over"} : at' = [at EXCEPT ![q] = p]
    BY <1>3 DEF GuardNext, Start, Panic, Deadline, DropHandler, BodyEnds, DropBody, Respond
  <2> QED
    BY <1>1, <2>1
<1> QED
  BY <1>2, <1>3

\* Nothing is noted of any call but c.
Only(c) ==
    \A d \in Calls \ {c} :
        /\ stage'[d] = stage[d] /\ tool'[d] = tool[d]
        /\ d \in pending' <=> d \in pending
        /\ d \in registered' <=> d \in registered
        /\ d \in busy' <=> d \in busy

\* A step that is about call c alone has to be looked at for c alone.
LEMMA HeldByOne ==
    ASSUME HeldInv, GuardInv', [GuardNext]_guardVars,
           NEW c \in Calls, HeldTypeOK', Held(c)', Only(c)
    PROVE  HeldInv'
<1>1. ASSUME NEW d \in Calls \ {c} PROVE Held(d)'
  <2>1. at'[d] = "idle" => at[d] = "idle"
    BY ArrivesOnce, CallsAssumption DEF HeldInv
  <2>2. Held(d)
    BY DEF HeldInv
  <2> QED
    BY <2>1, <2>2 DEF Held, Only
<1> QED
  BY <1>1 DEF HeldInv

\* The first answer of a call whose dispatch is over releases the session, or
\* leaves it to the stream that goes on.
LEMMA AnswerReleases ==
    ASSUME HeldInv, NEW c \in Calls, stage[c] = "first", NEW response, NEW out,
           AnswerFirst(c, response, out)
    PROVE  \/ /\ \E s \in {"done", "over"} : stage' = [stage EXCEPT ![c] = s]
              /\ busy' = busy \ {c}
           \/ stage' = [stage EXCEPT ![c] = "draining"] /\ busy' = busy
BY DEF AnswerFirst, Single

\* The end of a dispatch, however it came: unregistered, waited for by nobody,
\* and its session released with the answer or handed to the stream.
LEMMA OverReleases ==
    ASSUME HeldInv, GuardInv', [GuardNext]_guardVars,
           NEW c \in Calls, NEW told, stage[c] \in {"first", "running"},
           DispatchOver(c, told),
           pending' = pending \ {c},
           \/ /\ \E s \in {"done", "over"} : stage' = [stage EXCEPT ![c] = s]
              /\ busy' = busy \ {c}
           \/ stage' = [stage EXCEPT ![c] = "draining"] /\ busy' = busy
    PROVE  HeldInv'
<1>1. HeldTypeOK /\ Held(c)
  BY DEF HeldInv
<1>2. tool' = [tool EXCEPT ![c] = "over"] /\ registered' = registered \ {c}
  BY DEF DispatchOver
<1>3. HeldTypeOK'
  BY <1>1, <1>2 DEF HeldTypeOK, Stages
<1>4. at'[c] # "idle"
  BY <1>1, ArrivesOnce, CallsAssumption DEF Held, HeldInv
<1>5. tool'[c] = "over" /\ tool'[c] \notin Live
  BY <1>1, <1>2 DEF HeldTypeOK, Live
<1>6. Held(c)'
  BY <1>1, <1>2, <1>4, <1>5 DEF Held, HeldTypeOK
<1>7. Only(c)
  BY <1>1, <1>2 DEF Only, HeldTypeOK
<1> QED
  BY <1>3, <1>6, <1>7, HeldByOne

\* Every step of the system keeps what is held in agreement with the calls.
LEMMA HeldStep == HeldInv /\ GuardInv' /\ [Next]_vars => HeldInv'
<1> SUFFICES ASSUME HeldInv, GuardInv', [Next]_vars PROVE HeldInv'
  OBVIOUS
<1>0. [GuardNext]_guardVars
  BY StepGuards
<1> USE <1>0
<1>1. \A c \in Calls : at'[c] = "idle" => stage[c] = "idle"
  <2> SUFFICES ASSUME NEW c \in Calls, at'[c] = "idle" PROVE stage[c] = "idle"
    OBVIOUS
  <2>1. at[c] = "idle"
    BY ArrivesOnce, CallsAssumption DEF HeldInv
  <2> QED
    BY <2>1 DEF HeldInv, Held
<1>2. ASSUME NEW c \in Calls, Arrive(c) PROVE HeldInv'
  <2>1. HeldTypeOK /\ Held(c)
    BY DEF HeldInv
  <2>2. HeldTypeOK'
    BY <1>2, <2>1 DEF Arrive, Start, GuardInv, GuardTypeOK, HeldTypeOK, Stages, Live
  <2>3. Held(c)'
    BY <1>2, <1>1, <2>1 DEF Arrive, Start, GuardInv, GuardTypeOK, HeldTypeOK, Held, Live
  <2>4. Only(c)
    BY <1>2, <2>1 DEF Arrive, Start, GuardInv, GuardTypeOK, HeldTypeOK, Only
  <2> QED
    BY <2>2, <2>3, <2>4, HeldByOne
<1>3. ASSUME NEW c \in Calls, AuthRefused(c) \/ SessionNotFound(c) PROVE HeldInv'
  <2>1. HeldTypeOK /\ Held(c)
    BY DEF HeldInv
  <2>2. /\ stage[c] = "auth" /\ stage' = [stage EXCEPT ![c] = "over"]
        /\ UNCHANGED <<tool, pending, registered, busy>>
    BY <1>3 DEF AuthRefused, SessionNotFound, Refused, Single
  <2>3. HeldTypeOK'
    BY <2>1, <2>2 DEF HeldTypeOK, Stages
  <2>4. Held(c)'
    BY <1>1, <2>1, <2>2 DEF HeldTypeOK, Held
  <2>5. Only(c)
    BY <2>1, <2>2 DEF HeldTypeOK, Only
  <2> QED
    BY <2>3, <2>4, <2>5, HeldByOne
<1>4. ASSUME NEW c \in Calls, Admit(c) PROVE HeldInv'
  <2>1. HeldTypeOK /\ Held(c)
    BY DEF HeldInv
  <2>2. HeldTypeOK'
    BY <1>4, <2>1 DEF Admit, HeldTypeOK, Stages, Live
  <2>3. Held(c)'
    BY <1>4, <1>1, <2>1 DEF Admit, HeldTypeOK, Held, Live
  <2>4. Only(c)
    BY <1>4, <2>1 DEF Admit, HeldTypeOK, Only
  <2> QED
    BY <2>2, <2>3, <2>4, HeldByOne
<1>5. ASSUME NEW c \in Calls, Note(c) PROVE HeldInv'
  <2>1. HeldTypeOK /\ Held(c)
    BY DEF HeldInv
  <2>2. HeldTypeOK'
    BY <1>5, <2>1 DEF Note, Polled, HeldTypeOK, Stages, Live
  <2>3. Held(c)'
    BY <1>5, <1>1, <2>1 DEF Note, Polled, HeldTypeOK, Held, Live
  <2>4. Only(c)
    BY <1>5, <2>1 DEF Note, Polled, HeldTypeOK, Only
  <2> QED
    BY <2>2, <2>3, <2>4, HeldByOne
<1>6. ASSUME NEW c \in Calls, Ask(c) PROVE HeldInv'
  <2>1. HeldTypeOK /\ Held(c)
    BY DEF HeldInv
  <2>2. HeldTypeOK'
    BY <1>6, <2>1 DEF Ask, Polled, HeldTypeOK, Stages, Live
  <2>3. Held(c)'
    BY <1>6, <1>1, <2>1 DEF Ask, Polled, HeldTypeOK, Held, Live
  <2>4. Only(c)
    BY <1>6, <2>1 DEF Ask, Polled, HeldTypeOK, Only
  <2> QED
    BY <2>2, <2>3, <2>4, HeldByOne
<1>7. ASSUME NEW c \in Calls, Resume(c) PROVE HeldInv'
  <2>1. HeldTypeOK /\ Held(c)
    BY DEF HeldInv
  <2>2. HeldTypeOK'
    BY <1>7, <2>1 DEF Resume, Polled, HeldTypeOK, Stages, Live
  <2>3. Held(c)'
    BY <1>7, <1>1, <2>1 DEF Resume, Polled, HeldTypeOK, Held, Live
  <2>4. Only(c)
    BY <1>7, <2>1 DEF Resume, Polled, HeldTypeOK, Only
  <2> QED
    BY <2>2, <2>3, <2>4, HeldByOne
<1>8. ASSUME NEW c \in Calls, AskTimesOut(c) \/ AskCancelled(c) PROVE HeldInv'
  <2>1. HeldTypeOK /\ Held(c)
    BY DEF HeldInv
  <2>2. HeldTypeOK'
    BY <1>8, <2>1 DEF AskTimesOut, AskCancelled, GiveUp, Withdraw, Polled, HeldTypeOK, Stages, Live
  <2>3. Held(c)'
    BY <1>8, <1>1, <2>1 DEF AskTimesOut, AskCancelled, GiveUp, Withdraw, Polled, HeldTypeOK, Held, Live
  <2>4. Only(c)
    BY <1>8, <2>1 DEF AskTimesOut, AskCancelled, GiveUp, Withdraw, Polled, HeldTypeOK, Only
  <2> QED
    BY <2>2, <2>3, <2>4, HeldByOne
<1>9. ASSUME NEW c \in Calls, TakeFirst(c) PROVE HeldInv'
  <2>1. HeldTypeOK /\ Held(c)
    BY DEF HeldInv
  <2>2. HeldTypeOK'
    BY <1>9, <2>1 DEF TakeFirst, HeldTypeOK, Stages, Live
  <2>3. Held(c)'
    BY <1>9, <1>1, <2>1 DEF TakeFirst, HeldTypeOK, Held, Live
  <2>4. Only(c)
    BY <1>9, <2>1 DEF TakeFirst, HeldTypeOK, Only
  <2> QED
    BY <2>2, <2>3, <2>4, HeldByOne
<1>10. ASSUME NEW c \in Calls, StreamMessage(c) PROVE HeldInv'
  <2>1. HeldTypeOK /\ Held(c)
    BY DEF HeldInv
  <2>2. HeldTypeOK'
    BY <1>10, <2>1 DEF StreamMessage, HeldTypeOK, Stages, Live
  <2>3. Held(c)'
    BY <1>10, <1>1, <2>1 DEF StreamMessage, HeldTypeOK, Held, Live
  <2>4. Only(c)
    BY <1>10, <2>1 DEF StreamMessage, HeldTypeOK, Only
  <2> QED
    BY <2>2, <2>3, <2>4, HeldByOne
<1>11. ASSUME NEW c \in Calls, StreamReply(c) PROVE HeldInv'
  <2>1. HeldTypeOK /\ Held(c)
    BY DEF HeldInv
  <2>2. HeldTypeOK'
    BY <1>11, <2>1 DEF StreamReply, HeldTypeOK, Stages, Live
  <2>3. Held(c)'
    BY <1>11, <1>1, <2>1 DEF StreamReply, HeldTypeOK, Held, Live
  <2>4. Only(c)
    BY <1>11, <2>1 DEF StreamReply, HeldTypeOK, Only
  <2> QED
    BY <2>2, <2>3, <2>4, HeldByOne
<1>12. ASSUME NEW c \in Calls, StreamEnds(c) PROVE HeldInv'
  <2>1. HeldTypeOK /\ Held(c)
    BY DEF HeldInv
  <2>2. HeldTypeOK'
    BY <1>12, <2>1 DEF StreamEnds, callVars, HeldTypeOK, Stages, Live
  <2>3. Held(c)'
    BY <1>12, <1>1, <2>1 DEF StreamEnds, callVars, HeldTypeOK, Held, Live
  <2>4. Only(c)
    BY <1>12, <2>1 DEF StreamEnds, callVars, HeldTypeOK, Only
  <2> QED
    BY <2>2, <2>3, <2>4, HeldByOne
<1>13. ASSUME NEW c \in Calls, BodyReleased(c) PROVE HeldInv'
  <2>1. HeldTypeOK /\ Held(c)
    BY DEF HeldInv
  <2>2. HeldTypeOK'
    BY <1>13, <2>1 DEF BodyReleased, HeldTypeOK, Stages, Live
  <2>3. Held(c)'
    BY <1>13, <1>1, <2>1 DEF BodyReleased, HeldTypeOK, Held, Live
  <2>4. Only(c)
    BY <1>13, <2>1 DEF BodyReleased, HeldTypeOK, Only
  <2> QED
    BY <2>2, <2>3, <2>4, HeldByOne
<1>14. ASSUME NEW c \in Calls, Disconnect(c) PROVE HeldInv'
  <2>1. HeldTypeOK /\ Held(c)
    BY DEF HeldInv
  <2>2. HeldTypeOK'
    BY <1>14, <2>1 DEF Disconnect, DispatchOver, HeldTypeOK, Stages, Live
  <2>3. Held(c)'
    BY <1>14, <1>1, <2>1 DEF Disconnect, DispatchOver, HeldTypeOK, Held, Live
  <2>4. Only(c)
    BY <1>14, <2>1 DEF Disconnect, DispatchOver, HeldTypeOK, Only
  <2> QED
    BY <2>2, <2>3, <2>4, HeldByOne
<1>15. ASSUME NEW c \in Calls, Return(c) PROVE HeldInv'
  <2>1. HeldTypeOK /\ Held(c)
    BY DEF HeldInv
  <2>2. stage[c] \in {"first", "running"} /\ \E told : DispatchOver(c, told)
    BY <1>15 DEF Return, Polled
  <2>3. pending' = pending \ {c}
    BY <1>15, <2>1 DEF Return, Held
  <2> DEFINE Released ==
         \/ /\ \E s \in {"done", "over"} : stage' = [stage EXCEPT ![c] = s]
            /\ busy' = busy \ {c}
         \/ stage' = [stage EXCEPT ![c] = "draining"] /\ busy' = busy
  <2>4. CASE stage[c] = "first"
    <3>1. Released
      <4>1. \E out : AnswerFirst(c, "result", out)
        BY <1>15, <2>4 DEF Return
      <4> QED
        BY <2>4, <4>1, AnswerReleases
    <3> QED
      BY <2>2, <2>3, <3>1, OverReleases
  <2>5. CASE stage[c] # "first"
    <3>1. Released
      BY <1>15, <2>5 DEF Return, AnswerStreaming
    <3> QED
      BY <2>2, <2>3, <3>1, OverReleases
  <2> QED
    BY <2>4, <2>5
<1>16. ASSUME NEW c \in Calls, Cancelled(c) PROVE HeldInv'
  <2>1. HeldTypeOK /\ Held(c)
    BY DEF HeldInv
  <2>2. stage[c] \in {"first", "running"} /\ \E told : DispatchOver(c, told)
    BY <1>16 DEF Cancelled, Polled
  <2>3. pending' = pending \ {c}
    BY <1>16, <2>1 DEF Cancelled, Held
  <2> DEFINE Released ==
         \/ /\ \E s \in {"done", "over"} : stage' = [stage EXCEPT ![c] = s]
            /\ busy' = busy \ {c}
         \/ stage' = [stage EXCEPT ![c] = "draining"] /\ busy' = busy
  <2>4. CASE stage[c] = "first"
    <3>1. Released
      <4>1. \E out : AnswerFirst(c, None, out)
        BY <1>16, <2>4 DEF Cancelled
      <4> QED
        BY <2>4, <4>1, AnswerReleases
    <3> QED
      BY <2>2, <2>3, <3>1, OverReleases
  <2>5. CASE stage[c] # "first"
    <3>1. Released
      BY <1>16, <2>5 DEF Cancelled, AnswerStreaming
    <3> QED
      BY <2>2, <2>3, <3>1, OverReleases
  <2> QED
    BY <2>4, <2>5
<1>17. ASSUME NEW c \in Calls, ToolPanics(c) PROVE HeldInv'
  <2>1. HeldTypeOK /\ Held(c)
    BY DEF HeldInv
  <2>2. stage[c] \in {"first", "running"} /\ \E told : DispatchOver(c, told)
    BY <1>17 DEF ToolPanics, Polled
  <2>3. pending' = pending \ {c}
    BY <1>17, <2>1 DEF ToolPanics, Held
  <2> DEFINE Released ==
         \/ /\ \E s \in {"done", "over"} : stage' = [stage EXCEPT ![c] = s]
            /\ busy' = busy \ {c}
         \/ stage' = [stage EXCEPT ![c] = "draining"] /\ busy' = busy
  <2>4. CASE stage[c] = "first"
    <3>1. Released
      BY <1>17, <2>4 DEF ToolPanics
    <3> QED
      BY <2>2, <2>3, <3>1, OverReleases
  <2>5. CASE stage[c] # "first"
    <3>1. Released
      BY <1>17, <2>5 DEF ToolPanics, AnswerStreaming
    <3> QED
      BY <2>2, <2>3, <3>1, OverReleases
  <2> QED
    BY <2>4, <2>5
<1>18. ASSUME NEW k \in Clients, NEW c \in Calls, Deliver(k, c) PROVE HeldInv'
  <2>1. HeldTypeOK /\ Held(c)
    BY DEF HeldInv
  <2>2. HeldTypeOK'
    BY <1>18, <2>1 DEF Deliver, HeldTypeOK, Live
  <2>3. Held(c)'
    BY <1>18, <1>1, <2>1 DEF Deliver, HeldTypeOK, Held, Live
  <2>4. Only(c)
    BY <1>18, <2>1 DEF Deliver, HeldTypeOK, Only
  <2> QED
    BY <2>2, <2>3, <2>4, HeldByOne
<1>19. ASSUME UNCHANGED <<stage, tool, pending, registered, busy>> PROVE HeldInv'
  <2>1. HeldTypeOK'
    BY <1>19 DEF HeldInv, HeldTypeOK
  <2>2. ASSUME NEW c \in Calls PROVE Held(c)'
    BY <1>1, <1>19 DEF HeldInv, Held
  <2> QED
    BY <2>1, <2>2 DEF HeldInv
<1>20. ASSUME NEW k \in Clients, NEW c \in Calls, CancelNotice(k, c.id) PROVE HeldInv'
  BY <1>19, <1>20 DEF CancelNotice
<1>21. ASSUME NEW s \in Sessions, EndSession(s) PROVE HeldInv'
  BY <1>19, <1>21 DEF EndSession
<1>22. ASSUME NEW r \in Rest, RestStep(r) PROVE HeldInv'
  BY <1>19, <1>22 DEF RestStep, callVars
<1>23. CASE UNCHANGED vars
  BY <1>19, <1>23 DEF vars, callVars
<1> QED
  BY <1>2, <1>3, <1>4, <1>5, <1>6, <1>7, <1>8, <1>9, <1>10, <1>11, <1>12, <1>13, <1>14,
     <1>15, <1>16, <1>17, <1>18, <1>20, <1>21, <1>22, <1>23
  DEF Next, Step, ToolStep

\* The registry, the table of questions and the session agree with the call, for
\* any number of clients and calls.
THEOREM HeldInvariant == Spec => []HeldInv
<1>1. Init => HeldInv
  <2>1. GuardInit => GuardInv
    BY DEF GuardInit, GuardInv, GuardTypeOK, Places, Holder
  <2> QED
    BY <2>1 DEF Init, HeldInv, HeldTypeOK, Held, Stages, Live
<1>2. Spec => []GuardInv
  BY ImplementsGuard, GuardInvariant, PTL
<1> QED
  BY <1>1, <1>2, HeldStep, PTL DEF Spec

\* Nothing a call holds outlives it: its questions are in the table exactly while it
\* waits for their answers, its registration goes with its dispatch and its
\* session is free once the answer is out, whatever ends the call and whoever
\* else is served meanwhile (Waiting::drop, InFlightGuard::drop, SessionUse).
THEOREM NothingIsLeftBehind == Spec => []HeldWhileServed
<1>1. HeldInv => HeldWhileServed
  BY DEF HeldInv, Held, HeldWhileServed
<1> QED
  BY <1>1, HeldInvariant, PTL
-----------------------------------------------------------------------------
(* What the observer is told.                                              *)

Outcomes == {"completed", "notification_accepted", "cancelled"}

\* A dispatch is there from the moment its call is admitted until its answer is
\* complete or its request is gone.
Dispatched(c) ==
    /\ stage[c] \in {"idle", "auth"} => tool[c] = "none"
    /\ stage[c] \in {"first", "running"} => tool[c] \in Live
    /\ stage[c] \in {"draining", "done"} => tool[c] = "over"

\* The outcome of a call is settled with its dispatch and never after.
Observed(c) ==
    /\ tool[c] # "over" => outcome[c] = <<>>
    /\ tool[c] = "over" => \E told \in Outcomes : outcome[c] = <<told>>
    /\ outcome[c] = <<"cancelled">> => c \in token

ObservedInv ==
    /\ outcome \in [Calls -> Seq(Outcomes)] /\ token \subseteq Calls
    /\ \A c \in Calls : Dispatched(c) /\ Observed(c)

\* A step that ends no dispatch leaves the outcomes alone.
LEMMA ObservedWhileLive ==
    ASSUME HeldTypeOK, ObservedInv, NEW c \in Calls,
           outcome' = outcome, token \subseteq token', token' \subseteq Calls,
           \A d \in Calls \ {c} : stage'[d] = stage[d] /\ tool'[d] = tool[d],
           Dispatched(c)', tool'[c] = "over" <=> tool[c] = "over"
    PROVE  ObservedInv'
<1>1. ASSUME NEW d \in Calls PROVE Dispatched(d)' /\ Observed(d)'
  <2>1. Dispatched(d) /\ Observed(d)
    BY DEF ObservedInv
  <2> QED
    BY <2>1 DEF Dispatched, Observed
<1> QED
  BY <1>1 DEF ObservedInv

\* The end of a dispatch is told once, and one that was dropped has fired its
\* token.
LEMMA ObservedAtTheEnd ==
    ASSUME HeldTypeOK, ObservedInv, NEW c \in Calls, NEW told \in Outcomes,
           tool[c] \in Live, DispatchOver(c, told),
           token \subseteq token', token' \subseteq Calls, told = "cancelled" => c \in token',
           NEW s \in {"draining", "done", "over"}, stage' = [stage EXCEPT ![c] = s]
    PROVE  ObservedInv'
<1>1. /\ tool' = [tool EXCEPT ![c] = "over"]
      /\ outcome' = [outcome EXCEPT ![c] = Append(@, told)]
  BY DEF DispatchOver
<1>2. outcome[c] = <<>>
  BY DEF ObservedInv, Observed, Live
<1>3. outcome'[c] = <<told>> /\ outcome' \in [Calls -> Seq(Outcomes)]
  BY <1>1, <1>2 DEF ObservedInv
<1>4. Dispatched(c)' /\ Observed(c)'
  <2>1. tool'[c] = "over" /\ stage'[c] = s
    BY <1>1 DEF HeldTypeOK
  <2>2. outcome'[c] = <<"cancelled">> => c \in token'
    BY <1>3
  <2> QED
    BY <1>3, <2>1, <2>2 DEF Dispatched, Observed
<1>5. ASSUME NEW d \in Calls \ {c} PROVE Dispatched(d)' /\ Observed(d)'
  <2>1. Dispatched(d) /\ Observed(d)
    BY DEF ObservedInv
  <2>2. stage'[d] = stage[d] /\ tool'[d] = tool[d] /\ outcome'[d] = outcome[d]
    BY <1>1 DEF HeldTypeOK, ObservedInv
  <2> QED
    BY <2>1, <2>2 DEF Dispatched, Observed
<1> QED
  BY <1>3, <1>4, <1>5 DEF ObservedInv

\* Every step of the system tells the observer what it has to and no more.
LEMMA ObservedStep == HeldInv /\ ObservedInv /\ [Next]_vars => ObservedInv'
<1> SUFFICES ASSUME HeldInv, ObservedInv, [Next]_vars PROVE ObservedInv'
  OBVIOUS
<1>0. HeldTypeOK /\ token \subseteq Calls /\ \A c \in Calls : Dispatched(c) /\ Held(c)
  BY DEF HeldInv, ObservedInv
<1>1. ASSUME NEW c \in Calls,
             \/ Arrive(c) \/ AuthRefused(c) \/ SessionNotFound(c) \/ Admit(c)
             \/ TakeFirst(c) \/ StreamReply(c) \/ BodyReleased(c)
      PROVE  ObservedInv'
  <2>1. outcome' = outcome /\ token' = token
    BY <1>1 DEF Arrive, AuthRefused, SessionNotFound, Refused, Admit, TakeFirst, StreamReply,
                BodyReleased
  <2>2. \A d \in Calls \ {c} : stage'[d] = stage[d] /\ tool'[d] = tool[d]
    BY <1>0, <1>1 DEF HeldTypeOK, Arrive, AuthRefused, SessionNotFound, Refused, Single, Admit,
                      TakeFirst, StreamReply, BodyReleased
  <2>3. Dispatched(c)' /\ (tool'[c] = "over" <=> tool[c] = "over")
    <3>1. CASE Arrive(c)
      <4>1. stage[c] = "idle"
        BY <1>0, <3>1 DEF Arrive, Start, Held, HeldInv, HeldTypeOK, GuardInv, GuardTypeOK, Stages
      <4> QED
        BY <1>0, <3>1, <4>1 DEF Arrive, Dispatched, HeldTypeOK
    <3>2. CASE AuthRefused(c) \/ SessionNotFound(c)
      <4>1. /\ stage[c] = "auth" /\ tool' = tool
            /\ stage' = [stage EXCEPT ![c] = IF FALSE THEN "done" ELSE "over"]
        BY <3>2 DEF AuthRefused, SessionNotFound, Refused, Single
      <4>2. stage'[c] = "over" /\ tool'[c] = tool[c]
        BY <1>0, <4>1 DEF HeldTypeOK
      <4> QED
        BY <4>2 DEF Dispatched
    <3>3. CASE Admit(c)
      BY <1>0, <3>3 DEF Admit, Dispatched, HeldTypeOK, Live
    <3>4. CASE TakeFirst(c)
      BY <1>0, <3>4 DEF TakeFirst, Dispatched, HeldTypeOK
    <3>5. CASE StreamReply(c) \/ BodyReleased(c)
      BY <1>0, <3>5 DEF StreamReply, BodyReleased, Dispatched, HeldTypeOK
    <3> QED
      BY <1>1, <3>1, <3>2, <3>3, <3>4, <3>5
  <2> QED
    BY <1>0, <2>1, <2>2, <2>3, ObservedWhileLive
<1>2. ASSUME NEW c \in Calls, UNCHANGED <<stage, outcome, token>>,
             tool[c] \in Live, NEW t \in Live, tool' = [tool EXCEPT ![c] = t]
      PROVE  ObservedInv'
  <2>1. \A d \in Calls \ {c} : stage'[d] = stage[d] /\ tool'[d] = tool[d]
    BY <1>0, <1>2 DEF HeldTypeOK
  <2>2. Dispatched(c)' /\ (tool'[c] = "over" <=> tool[c] = "over")
    BY <1>0, <1>2 DEF HeldTypeOK, Held, Dispatched, Live
  <2> QED
    BY <1>0, <1>2, <2>1, <2>2, ObservedWhileLive
<1>3. ASSUME NEW c \in Calls,
             Ask(c) \/ Resume(c) \/ AskTimesOut(c) \/ AskCancelled(c)
      PROVE  ObservedInv'
  <2>1. /\ tool[c] \in Live /\ UNCHANGED <<stage, outcome, token>>
        /\ \E t \in Live : tool' = [tool EXCEPT ![c] = t]
    BY <1>3 DEF Ask, Resume, AskTimesOut, AskCancelled, GiveUp, Live
  <2> QED
    BY <1>2, <2>1
<1>4. ASSUME NEW k \in Clients, NEW c \in Calls, Deliver(k, c) PROVE ObservedInv'
  <2>1. tool[c] = "asking"
    BY <1>0, <1>4 DEF Deliver, Held
  <2>2. UNCHANGED <<stage, outcome, token>> /\ tool' = [tool EXCEPT ![c] = "told"]
    BY <1>4 DEF Deliver
  <2>3. tool[c] \in Live /\ "told" \in Live
    BY <2>1 DEF Live
  <2> QED
    BY <1>2, <2>2, <2>3
<1>5. ASSUME UNCHANGED <<stage, tool, outcome>>, token \subseteq token', token' \subseteq Calls
      PROVE  ObservedInv'
  BY <1>0, <1>5 DEF ObservedInv, Observed, Dispatched
<1>6. ASSUME NEW c \in Calls, Note(c) \/ StreamMessage(c) \/ StreamEnds(c) PROVE ObservedInv'
  BY <1>0, <1>5, <1>6 DEF Note, StreamMessage, StreamEnds, callVars
<1>7. ASSUME NEW k \in Clients, NEW c \in Calls, CancelNotice(k, c.id) PROVE ObservedInv'
  BY <1>0, <1>5, <1>7 DEF CancelNotice, Reached, HeldTypeOK
<1>8. ASSUME NEW s \in Sessions, EndSession(s) PROVE ObservedInv'
  BY <1>0, <1>5, <1>8 DEF EndSession
<1>9. ASSUME NEW r \in Rest, RestStep(r) PROVE ObservedInv'
  BY <1>0, <1>5, <1>9 DEF RestStep, callVars
<1>10. CASE UNCHANGED vars
  BY <1>0, <1>5, <1>10 DEF vars, callVars
<1>11. ASSUME NEW c \in Calls, Return(c) PROVE ObservedInv'
  <2>1. /\ tool[c] \in Live /\ DispatchOver(c, "completed") /\ "completed" \in Outcomes
        /\ token' = token
    BY <1>11, CallsAssumption DEF Return, OutcomeOf, Live, Outcomes
  <2>2. \E s \in {"draining", "done", "over"} : stage' = [stage EXCEPT ![c] = s]
    BY <1>11 DEF Return, AnswerFirst, Single, AnswerStreaming
  <2> QED
    BY <1>0, <2>1, <2>2, ObservedAtTheEnd
<1>12. ASSUME NEW c \in Calls, Cancelled(c) PROVE ObservedInv'
  <2>1. /\ tool[c] \in Live /\ DispatchOver(c, "notification_accepted")
        /\ "notification_accepted" \in Outcomes /\ token' = token
    BY <1>12 DEF Cancelled, OutcomeOf, Outcomes
  <2>2. \E s \in {"draining", "done", "over"} : stage' = [stage EXCEPT ![c] = s]
    BY <1>12 DEF Cancelled, AnswerFirst, Single, AnswerStreaming
  <2> QED
    BY <1>0, <2>1, <2>2, ObservedAtTheEnd
<1>13. ASSUME NEW c \in Calls, ToolPanics(c) PROVE ObservedInv'
  <2>1. /\ tool[c] \in Live /\ DispatchOver(c, "cancelled") /\ "cancelled" \in Outcomes
        /\ token' = token \cup {c}
    BY <1>13 DEF ToolPanics, Live, Outcomes
  <2>2. \E s \in {"draining", "done", "over"} : stage' = [stage EXCEPT ![c] = s]
    BY <1>13 DEF ToolPanics, AnswerStreaming
  <2> QED
    BY <1>0, <2>1, <2>2, ObservedAtTheEnd
<1>14. ASSUME NEW c \in Calls, Disconnect(c) PROVE ObservedInv'
  <2>1. stage' = [stage EXCEPT ![c] = "over"]
    BY <1>14 DEF Disconnect
  <2>2. CASE tool[c] \in Live
    <3>1. /\ DispatchOver(c, "cancelled") /\ "cancelled" \in Outcomes
          /\ token' = token \cup {c}
      BY <1>14, <2>2 DEF Disconnect, Outcomes
    <3> QED
      BY <1>0, <2>1, <2>2, <3>1, ObservedAtTheEnd
  <2>3. CASE tool[c] \notin Live
    <3>1. UNCHANGED <<tool, outcome, token>>
      BY <1>14, <2>3 DEF Disconnect
    <3>2. Dispatched(c)' /\ \A d \in Calls \ {c} : stage'[d] = stage[d]
      BY <1>0, <2>1 DEF Dispatched, HeldTypeOK
    <3> QED
      BY <1>0, <3>1, <3>2, ObservedWhileLive
  <2> QED
    BY <2>2, <2>3
<1> QED
  BY <1>1, <1>3, <1>4, <1>6, <1>7, <1>8, <1>9, <1>10, <1>11, <1>12, <1>13, <1>14
  DEF Next, Step, ToolStep

\* A dispatch and its outcome agree, for any number of calls.
THEOREM ObservedInvariant == Spec => []ObservedInv
<1>1. Init => ObservedInv
  BY DEF Init, ObservedInv, Observed, Dispatched, Outcomes
<1> QED
  BY <1>1, HeldInvariant, ObservedStep, PTL DEF Spec

\* The observer hears of every admitted call exactly once, when its dispatch is over,
\* and a dispatch dropped unanswered has fired its token: however the call ends and
\* whatever the other calls and clients do (observe, Pending::complete and drop).
THEOREM EveryCallIsObservedOnce == Spec => []ObservedOnce
<1>1. ObservedInv => ObservedOnce
  <2> SUFFICES ASSUME ObservedInv, NEW c \in Calls
               PROVE  /\ Len(outcome[c]) = IF tool[c] = "over" THEN 1 ELSE 0
                      /\ outcome[c] = <<"cancelled">> => c \in token
    BY DEF ObservedOnce
  <2>1. Observed(c)
    BY DEF ObservedInv
  <2> QED
    BY <2>1 DEF Observed
<1> QED
  BY <1>1, ObservedInvariant, PTL
-----------------------------------------------------------------------------
(* Who reaches a call.                                                     *)

\* Whoever cancelled a call or answered it presented the call's own key, and one
\* that stands for a single caller.
SameCaller(c) ==
    /\ tool[c] = "asking" => c.client.session # None
    /\ \A reach \in by[c] : CallerKey(reach[1]) = Key(c) /\ TellsCallersApart(Key(c))

CallerInv ==
    /\ by \in [Calls -> SUBSET (Clients \X Nat)]
    /\ said \in [Calls -> Seq(Message)]
    /\ \A c \in Calls : SameCaller(c)

\* A session is one caller's.
LEMMA SessionTellsApart ==
    ASSUME NEW c \in Calls, c.client.session # None
    PROVE  TellsCallersApart(Key(c))
BY DEF Key, CallerKey, TellsCallersApart

\* What a tool says is numbered by its place.
LEMMA SaysTyped ==
    ASSUME said \in [Calls -> Seq(Message)], NEW c \in Calls,
           NEW kind \in {"note", "ask", "withdraw"}
    PROVE  Item(kind, Len(said[c])) \in Message
BY DEF Message, Item

\* A step that reaches no call and asks nothing keeps who reached them.
LEMMA CallerKept ==
    ASSUME CallerInv, by' = by, said' \in [Calls -> Seq(Message)],
           \A c \in Calls : tool'[c] = "asking" => tool[c] = "asking" \/ c.client.session # None
    PROVE  CallerInv'
BY DEF CallerInv, SameCaller

\* Every step of the system keeps the calls to their callers.
LEMMA CallerStep == HeldInv /\ CallerInv /\ [Next]_vars => CallerInv'
<1> SUFFICES ASSUME HeldInv, CallerInv, [Next]_vars PROVE CallerInv'
  OBVIOUS
<1>0. /\ HeldTypeOK /\ said \in [Calls -> Seq(Message)]
      /\ by \in [Calls -> SUBSET (Clients \X Nat)]
      /\ \A c \in Calls : Held(c) /\ SameCaller(c)
  BY DEF HeldInv, CallerInv
<1>1. ASSUME NEW c \in Calls, by' = by,
             \/ said' = said
             \/ \E kind \in {"note", "ask", "withdraw"} :
                    said' = [said EXCEPT ![c] = Append(@, Item(kind, Len(said[c])))]
      PROVE  said' \in [Calls -> Seq(Message)]
  <2>1. CASE said' = said
    BY <1>0, <2>1
  <2>2. ASSUME NEW kind \in {"note", "ask", "withdraw"},
               said' = [said EXCEPT ![c] = Append(@, Item(kind, Len(said[c])))]
        PROVE  said' \in [Calls -> Seq(Message)]
    <3>1. Item(kind, Len(said[c])) \in Message
      BY <1>0, SaysTyped
    <3> QED
      BY <1>0, <2>2, <3>1
  <2> QED
    BY <1>1, <2>1, <2>2
<1>2. ASSUME NEW c \in Calls,
             \/ Arrive(c) \/ AuthRefused(c) \/ SessionNotFound(c) \/ TakeFirst(c)
             \/ StreamMessage(c) \/ StreamReply(c) \/ StreamEnds(c) \/ BodyReleased(c)
             \/ Admit(c) \/ Resume(c) \/ Return(c) \/ ToolPanics(c) \/ Disconnect(c)
      PROVE  CallerInv'
  <2>1. by' = by /\ said' = said
    BY <1>2 DEF Arrive, AuthRefused, SessionNotFound, Refused, TakeFirst, StreamMessage,
                StreamReply, StreamEnds, callVars, BodyReleased, Admit, Resume, Return,
                ToolPanics, Disconnect
  <2>2. tool' = tool \/ \E t \in {"running", "over"} : tool' = [tool EXCEPT ![c] = t]
    BY <1>2 DEF Arrive, AuthRefused, SessionNotFound, Refused, TakeFirst, StreamMessage,
                StreamReply, StreamEnds, callVars, BodyReleased, Admit, Resume, Return,
                ToolPanics, Disconnect, DispatchOver
  <2> QED
    BY <1>0, <2>1, <2>2, CallerKept DEF HeldTypeOK
<1>3. ASSUME NEW c \in Calls, Note(c) PROVE CallerInv'
  <2>1. by' = by /\ tool' = tool
    BY <1>3 DEF Note
  <2>2. said' = [said EXCEPT ![c] = Append(@, Item("note", Len(said[c])))]
    BY <1>3 DEF Note, Says
  <2> QED
    BY <1>0, <1>1, <2>1, <2>2, CallerKept
<1>4. ASSUME NEW c \in Calls, Ask(c) PROVE CallerInv'
  <2>1. by' = by /\ tool' = [tool EXCEPT ![c] = "asking"] /\ c.client.session # None
    BY <1>4 DEF Ask
  <2>2. said' = [said EXCEPT ![c] = Append(@, Item("ask", Len(said[c])))]
    BY <1>4 DEF Ask, Says
  <2>3. said' \in [Calls -> Seq(Message)]
    BY <1>1, <2>1, <2>2
  <2> QED
    BY <1>0, <2>1, <2>3, CallerKept DEF HeldTypeOK
<1>5. ASSUME NEW c \in Calls, AskTimesOut(c) \/ AskCancelled(c) PROVE CallerInv'
  <2>1. by' = by /\ tool' = [tool EXCEPT ![c] = "running"]
    BY <1>5 DEF AskTimesOut, AskCancelled, GiveUp
  <2>2. said' = [said EXCEPT ![c] = Append(@, Item("withdraw", Len(said[c])))]
    BY <1>5 DEF AskTimesOut, AskCancelled, GiveUp, Withdraw, Says
  <2>3. said' \in [Calls -> Seq(Message)]
    BY <1>1, <2>1, <2>2
  <2> QED
    BY <1>0, <2>1, <2>3, CallerKept DEF HeldTypeOK
<1>6. ASSUME NEW c \in Calls, Cancelled(c) PROVE CallerInv'
  <2>1. by' = by /\ tool' = [tool EXCEPT ![c] = "over"]
    BY <1>6 DEF Cancelled, DispatchOver
  <2>2. \/ said' = said
        \/ said' = [said EXCEPT ![c] = Append(@, Item("withdraw", Len(said[c])))]
    BY <1>6 DEF Cancelled
  <2>3. said' \in [Calls -> Seq(Message)]
    BY <1>1, <2>1, <2>2
  <2> QED
    BY <1>0, <2>1, <2>3, CallerKept DEF HeldTypeOK
<1>7. ASSUME NEW k \in Clients, NEW c \in Calls, CancelNotice(k, c.id) PROVE CallerInv'
  <2>1. /\ tool' = tool /\ said' = said
        /\ by' = [d \in Calls |-> IF d \in Reached(k, c.id) THEN by[d] \cup {<<k, 0>>} ELSE by[d]]
    BY <1>7 DEF CancelNotice
  <2>2. by' \in [Calls -> SUBSET (Clients \X Nat)]
    BY <1>0, <2>1
  <2>3. ASSUME NEW d \in Calls PROVE SameCaller(d)'
    <3>1. CASE d \in Reached(k, c.id)
      <4>1. CallerKey(k) = Key(d) /\ TellsCallersApart(Key(d))
        BY <3>1 DEF Reached
      <4>2. by'[d] = by[d] \cup {<<k, 0>>}
        BY <2>1, <3>1
      <4> QED
        BY <1>0, <2>1, <4>1, <4>2 DEF SameCaller
    <3>2. CASE d \notin Reached(k, c.id)
      BY <1>0, <2>1, <3>2 DEF SameCaller
    <3> QED
      BY <3>1, <3>2
  <2> QED
    BY <1>0, <2>1, <2>2, <2>3 DEF CallerInv
<1>8. ASSUME NEW k \in Clients, NEW c \in Calls, Deliver(k, c) PROVE CallerInv'
  <2>1. /\ tool' = [tool EXCEPT ![c] = "told"] /\ said' = said
        /\ by' = [by EXCEPT ![c] = @ \cup {<<k, Len(said[c])>>}]
        /\ Key(c) = CallerKey(k) /\ c \in pending
    BY <1>8 DEF Deliver
  <2>2. Len(said[c]) \in Nat
    BY <1>0
  <2>3. by' \in [Calls -> SUBSET (Clients \X Nat)]
    BY <1>0, <2>1, <2>2
  <2>4. TellsCallersApart(Key(c))
    BY <1>0, <2>1, SessionTellsApart DEF Held, SameCaller
  <2>5. ASSUME NEW d \in Calls PROVE SameCaller(d)'
    <3>1. CASE d = c
      <4>1. by'[c] = by[c] \cup {<<k, Len(said[c])>>} /\ tool'[c] = "told"
        BY <1>0, <2>1 DEF HeldTypeOK
      <4>2. \A reach \in by'[c] : CallerKey(reach[1]) = Key(c)
        BY <1>0, <2>1, <4>1 DEF SameCaller
      <4> QED
        BY <2>4, <3>1, <4>1, <4>2 DEF SameCaller
    <3>2. CASE d # c
      <4>1. by'[d] = by[d] /\ tool'[d] = tool[d]
        BY <1>0, <2>1, <3>2 DEF HeldTypeOK
      <4> QED
        BY <1>0, <4>1 DEF SameCaller
    <3> QED
      BY <3>1, <3>2
  <2> QED
    BY <1>0, <2>1, <2>3, <2>5 DEF CallerInv
<1>9. ASSUME UNCHANGED <<tool, said, by>> PROVE CallerInv'
  BY <1>0, <1>9, CallerKept
<1>10. ASSUME NEW s \in Sessions, EndSession(s) PROVE CallerInv'
  BY <1>9, <1>10 DEF EndSession
<1>11. ASSUME NEW r \in Rest, RestStep(r) PROVE CallerInv'
  BY <1>9, <1>11 DEF RestStep, callVars
<1>12. CASE UNCHANGED vars
  BY <1>9, <1>12 DEF vars, callVars
<1> QED
  BY <1>2, <1>3, <1>4, <1>5, <1>6, <1>7, <1>8, <1>10, <1>11, <1>12 DEF Next, Step, ToolStep

\* The callers that reached a call have its key, for any set of clients.
THEOREM CallerInvariant == Spec => []CallerInv
<1>1. Init => CallerInv
  BY DEF Init, CallerInv, SameCaller
<1> QED
  BY <1>1, HeldInvariant, CallerStep, PTL DEF Spec

\* Where a key that is told apart is one client's - a session is not shared, nor a
\* credential with a principal - no other client ever cancels a call or answers
\* its questions (CallerKey::http, tells_callers_apart, cancel, deliver).
THEOREM CallsAreTheirClients ==
    ASSUME \A k, l \in Clients :
               CallerKey(k) = CallerKey(l) /\ TellsCallersApart(CallerKey(k)) => k = l
    PROVE  Spec => []OnlyItsClient
<1>1. CallerInv => OnlyItsClient
  <2> SUFFICES ASSUME CallerInv, NEW c \in Calls, NEW reach \in by[c]
               PROVE  reach[1] = c.client
    BY DEF OnlyItsClient
  <2>1. reach[1] \in Clients /\ c.client \in Clients
    BY CallsAssumption DEF CallerInv
  <2>2. CallerKey(reach[1]) = CallerKey(c.client) /\ TellsCallersApart(CallerKey(c.client))
    BY DEF CallerInv, SameCaller, Key
  <2> QED
    BY <2>1, <2>2
<1> QED
  BY <1>1, CallerInvariant, PTL
-----------------------------------------------------------------------------
(* What the client is sent.                                                *)

\* An element moves from the head of one sequence to the tail of another.
LEMMA MoveHead ==
    ASSUME NEW S, NEW s \in Seq(S), NEW q \in Seq(S), q # <<>>
    PROVE  Append(s, Head(q)) \o Tail(q) = s \o q
<1>1. Head(q) \in S /\ Tail(q) \in Seq(S)
  BY HeadTailProperties
<1>2. <<Head(q)>> \in Seq(S) /\ <<Head(q)>> \o Tail(q) = q
  BY <1>1
<1>3. Append(s, Head(q)) = s \o <<Head(q)>>
  BY <1>1, AppendIsConcat
<1> QED
  BY <1>1, <1>2, <1>3, ConcatAssociative

\* An element put at the end of the last sequence is at the end of the whole.
LEMMA AppendLast ==
    ASSUME NEW S, NEW s \in Seq(S), NEW t \in Seq(S), NEW x \in S
    PROVE  s \o Append(t, x) = Append(s \o t, x)
<1>1. <<x>> \in Seq(S) /\ s \o t \in Seq(S)
  BY ConcatProperties
<1>2. Append(t, x) = t \o <<x>> /\ Append(s \o t, x) = (s \o t) \o <<x>>
  BY <1>1, AppendIsConcat
<1> QED
  BY <1>1, <1>2, ConcatAssociative

\* The first part of a sequence is a prefix of it.
LEMMA PartIsPrefix ==
    ASSUME NEW S, NEW s \in Seq(S), NEW t \in Seq(S)
    PROVE  IsPrefix(s, s \o t)
<1>1. Len(s) <= Len(s \o t)
  BY ConcatProperties
<1>2. SubSeq(s \o t, 1, Len(s)) = s
  BY SubSeqOfConcat1, SubSeqFull
<1>3. SubSeq(s, 1, Len(s)) = s
  BY SubSeqFull
<1> QED
  BY <1>1, <1>2, <1>3 DEF IsPrefix

Sendable == Message \cup [kind : Reply, n : {0}] \cup [kind : {"status"}, n : Statuses]

\* Everything the server sends a client.
LEMMA Sends ==
    /\ \A response \in Reply : Item(response, 0) \in Sendable
    /\ \A status \in Statuses : Item("status", status) \in Sendable
    /\ \A s \in Seq(Message) : s \in Seq(Sendable)
<1>1. Message \subseteq Sendable
  BY DEF Sendable
<1>2. \A s \in Seq(Message) : s \in Seq(Sendable)
  BY <1>1, SeqMonotonic
<1> QED
  BY <1>2 DEF Item, Sendable

SeqTypeOK ==
    /\ reply \in [Calls -> Reply \cup {None}]
    /\ outbox \in [Calls -> Seq(Message)] /\ sent \in [Calls -> Seq(Message)]
    /\ wire \in [Calls -> Seq(Sendable)]

\* Where a call's request is, as the guard sees it.
Placed(c) ==
    /\ stage[c] = "idle" => at[c] = "idle"
    /\ stage[c] \in {"auth", "first"} => at[c] = "handling"
    /\ stage[c] \in {"running", "draining"} => at[c] = "body" /\ open[c]
    /\ stage[c] = "done" => at[c] = "body"
    /\ stage[c] = "over" => at[c] = "over"

\* A stream as far as the client has read it.
Delivered(c) ==
    \/ IsPrefix(wire[c], said[c])
    \/ \E response \in Reply : wire[c] = Append(said[c], Item(response, 0))
    \/ \E status \in Statuses : wire[c] = <<Item("status", status)>>

\* Nothing said is lost or overtaken: it is on the wire, taken off the channel or
\* still on it, in that order; the response follows once both are empty.
Carried(c) ==
    /\ stage[c] \in {"idle", "auth"} => said[c] = <<>>
    /\ stage[c] \in {"idle", "auth", "first"} => wire[c] = <<>> /\ sent[c] = <<>>
    /\ stage[c] \in {"running", "draining"} => said[c] # <<>>
    /\ stage[c] \notin {"done", "over"} => said[c] = wire[c] \o (sent[c] \o outbox[c])
    /\ stage[c] = "done" =>
          \/ wire[c] = said[c]
          \/ \E response \in Reply : wire[c] = Append(said[c], Item(response, 0))
    /\ stage[c] = "over" => Delivered(c)

CarriedInv == SeqTypeOK /\ \A c \in Calls : Placed(c) /\ Carried(c)

\* The invariants so far.
CallInv == HeldInv /\ ObservedInv /\ CallerInv

\* Before its response a call's stream is a prefix of what it said.
LEMMA CarriedIsDelivered ==
    ASSUME CallInv, CarriedInv, NEW c \in Calls
    PROVE  Delivered(c)
<1>1. /\ wire[c] \in Seq(Sendable) /\ sent[c] \in Seq(Sendable) /\ outbox[c] \in Seq(Sendable)
      /\ said[c] \in Seq(Sendable)
  BY Sends DEF CarriedInv, SeqTypeOK, CallInv, CallerInv
<1>2. Carried(c)
  BY DEF CarriedInv
<1>3. CASE stage[c] \notin {"done", "over"}
  <2>1. sent[c] \o outbox[c] \in Seq(Sendable)
    BY <1>1, ConcatProperties
  <2> QED
    BY <1>1, <1>2, <1>3, <2>1, PartIsPrefix DEF Carried, Delivered
<1>4. CASE stage[c] = "done"
  <2>1. said[c] \o <<>> = said[c] /\ <<>> \in Seq(Sendable)
    BY <1>1, ConcatEmptySeq
  <2>2. IsPrefix(said[c], said[c] \o <<>>)
    BY <1>1, <2>1, PartIsPrefix
  <2>3. IsPrefix(said[c], said[c])
    BY <2>1, <2>2
  <2> QED
    BY <1>2, <1>4, <2>3 DEF Carried, Delivered
<1> QED
  BY <1>2, <1>3, <1>4 DEF Carried

\* A step of one call.
CallStep(c) ==
    Arrive(c) \/ AuthRefused(c) \/ SessionNotFound(c) \/ Step(c) \/ ToolStep(c) \/ Disconnect(c)

\* Nothing happens to any call but c.
Alone(c) ==
    \A d \in Calls \ {c} :
        /\ at'[d] = at[d] /\ open'[d] = open[d] /\ lines'[d] = lines[d]
        /\ stage'[d] = stage[d] /\ tool'[d] = tool[d] /\ reply'[d] = reply[d]
        /\ outbox'[d] = outbox[d] /\ sent'[d] = sent[d] /\ wire'[d] = wire[d]
        /\ outcome'[d] = outcome[d] /\ said'[d] = said[d] /\ by'[d] = by[d]

\* The guard's steps concern one request.
LEMMA GuardAlone ==
    ASSUME GuardTypeOK, NEW r \in Requests,
           \/ UNCHANGED guardVars \/ Start(r) \/ DropHandler(r) \/ BodyEnds(r) \/ DropBody(r)
           \/ \E status, streamed : Respond(r, status, streamed)
    PROVE  \A q \in Requests \ {r} : at'[q] = at[q] /\ open'[q] = open[q] /\ lines'[q] = lines[q]
<1>1. CASE UNCHANGED guardVars \/ Start(r)
  BY <1>1 DEF guardVars, Start, GuardTypeOK
<1>2. CASE DropHandler(r)
  BY <1>2 DEF DropHandler, Log, GuardTypeOK
<1>3. CASE BodyEnds(r)
  BY <1>3 DEF BodyEnds, Log, GuardTypeOK
<1>4. CASE DropBody(r)
  BY <1>4 DEF DropBody, Log, GuardTypeOK
<1>5. CASE \E status, streamed : Respond(r, status, streamed)
  BY <1>5 DEF Respond, Log, GuardTypeOK
<1> QED
  BY <1>1, <1>2, <1>3, <1>4, <1>5

\* A step of a call changes nothing of the others.
LEMMA CallAlone ==
    ASSUME CallInv, SeqTypeOK, NEW c \in Calls, CallStep(c)
    PROVE  Alone(c)
<1>0. /\ HeldTypeOK /\ SeqTypeOK /\ GuardTypeOK /\ c \in Requests /\ Calls \subseteq Requests
      /\ said \in [Calls -> Seq(Message)] /\ outcome \in [Calls -> Seq(Outcomes)]
  BY CallsAssumption DEF CallInv, HeldInv, GuardInv, CallerInv, ObservedInv
<1>1. \/ UNCHANGED guardVars \/ Start(c) \/ DropHandler(c) \/ BodyEnds(c) \/ DropBody(c)
      \/ \E status, streamed : Respond(c, status, streamed)
  <2>1. CASE Arrive(c) \/ AuthRefused(c) \/ SessionNotFound(c) \/ Disconnect(c)
    BY <2>1 DEF Arrive, AuthRefused, SessionNotFound, Refused, Single, Disconnect
  <2>2. CASE Step(c)
    <3>1. CASE Cancelled(c)
      BY <3>1 DEF Cancelled, AnswerFirst, AnswerStreaming, Single
    <3> QED
      BY <2>2, <3>1 DEF Step, Admit, Resume, TakeFirst, StreamMessage, StreamReply, StreamEnds,
                        BodyReleased
  <2>3. CASE ToolStep(c)
    <3>1. CASE Return(c)
      BY <3>1 DEF Return, AnswerFirst, AnswerStreaming, Single
    <3>2. CASE ToolPanics(c)
      BY <3>2 DEF ToolPanics, AnswerStreaming, Panic
    <3> QED
      BY <2>3, <3>1, <3>2 DEF ToolStep, Note, Ask, AskTimesOut, AskCancelled, GiveUp
  <2> QED
    BY <2>1, <2>2, <2>3 DEF CallStep
<1>2. \A d \in Calls \ {c} : at'[d] = at[d] /\ open'[d] = open[d] /\ lines'[d] = lines[d]
  BY <1>0, <1>1, GuardAlone
<1> DEFINE Rest1(d) == stage'[d] = stage[d] /\ tool'[d] = tool[d] /\ reply'[d] = reply[d]
           Rest2(d) == outbox'[d] = outbox[d] /\ sent'[d] = sent[d] /\ wire'[d] = wire[d]
           Rest3(d) == outcome'[d] = outcome[d] /\ said'[d] = said[d] /\ by'[d] = by[d]
<1>3. SUFFICES ASSUME NEW d \in Calls, d # c PROVE Rest1(d) /\ Rest2(d) /\ Rest3(d)
  BY <1>2 DEF Alone
<1>4. CASE Arrive(c) \/ AuthRefused(c) \/ SessionNotFound(c)
  BY <1>0, <1>3, <1>4 DEF Arrive, AuthRefused, SessionNotFound, Refused, Single, HeldTypeOK,
                          SeqTypeOK
<1>5. CASE Admit(c) \/ Resume(c)
  BY <1>0, <1>3, <1>5 DEF Admit, Resume, HeldTypeOK, SeqTypeOK
<1>6. CASE Note(c) \/ Ask(c) \/ AskTimesOut(c) \/ AskCancelled(c)
  <2>1. Rest1(d)
    BY <1>0, <1>3, <1>6 DEF Note, Ask, AskTimesOut, AskCancelled, GiveUp, HeldTypeOK
  <2>2. PICK kind : Says(c, kind)
    BY <1>6 DEF Note, Ask, AskTimesOut, AskCancelled, GiveUp, Withdraw
  <2>3. sent' = sent /\ wire' = wire /\ outcome' = outcome /\ by' = by
    BY <1>6 DEF Note, Ask, AskTimesOut, AskCancelled, GiveUp
  <2> QED
    BY <1>0, <1>3, <2>1, <2>2, <2>3 DEF Says, SeqTypeOK
<1>7. CASE Return(c)
  <2>1. tool'[d] = tool[d] /\ outcome'[d] = outcome[d] /\ said' = said /\ by' = by
    BY <1>0, <1>3, <1>7 DEF Return, DispatchOver, HeldTypeOK
  <2>2. outbox'[d] = outbox[d]
    BY <1>0, <1>3, <1>7 DEF Return, SeqTypeOK
  <2>3. stage'[d] = stage[d] /\ reply'[d] = reply[d] /\ sent'[d] = sent[d] /\ wire'[d] = wire[d]
    BY <1>0, <1>3, <1>7 DEF Return, AnswerFirst, AnswerStreaming, Single, HeldTypeOK, SeqTypeOK
  <2> QED
    BY <2>1, <2>2, <2>3
<1>8. CASE Cancelled(c)
  <2>1. tool'[d] = tool[d] /\ outcome'[d] = outcome[d] /\ by' = by
    BY <1>0, <1>3, <1>8 DEF Cancelled, DispatchOver, HeldTypeOK
  <2>2. outbox'[d] = outbox[d] /\ said'[d] = said[d]
    BY <1>0, <1>3, <1>8 DEF Cancelled, SeqTypeOK
  <2>3. stage'[d] = stage[d] /\ reply'[d] = reply[d] /\ sent'[d] = sent[d] /\ wire'[d] = wire[d]
    <3>1. AnswerStreaming(c, None) \/ \E out : AnswerFirst(c, None, out)
      BY <1>8 DEF Cancelled
    <3> QED
      BY <1>0, <1>3, <3>1 DEF AnswerFirst, AnswerStreaming, Single, HeldTypeOK, SeqTypeOK
  <2> QED
    BY <2>1, <2>2, <2>3
<1>9. CASE ToolPanics(c)
  BY <1>0, <1>3, <1>9 DEF ToolPanics, DispatchOver, AnswerStreaming, HeldTypeOK, SeqTypeOK
<1>10. CASE TakeFirst(c) \/ StreamMessage(c) \/ StreamReply(c)
  BY <1>0, <1>3, <1>10 DEF TakeFirst, StreamMessage, StreamReply, HeldTypeOK, SeqTypeOK
<1>11. CASE StreamEnds(c) \/ BodyReleased(c)
  BY <1>0, <1>3, <1>11 DEF StreamEnds, BodyReleased, callVars, HeldTypeOK
<1>12. CASE Disconnect(c)
  BY <1>0, <1>3, <1>12 DEF Disconnect, DispatchOver, HeldTypeOK, SeqTypeOK
<1> QED
  BY <1>4, <1>5, <1>6, <1>7, <1>8, <1>9, <1>10, <1>11, <1>12 DEF CallStep, Step, ToolStep

\* A step of one call has to be looked at for that call alone.
LEMMA CarriedByOne ==
    ASSUME CarriedInv, SeqTypeOK', NEW c \in Calls, Alone(c), Placed(c)', Carried(c)'
    PROVE  CarriedInv'
<1>1. ASSUME NEW d \in Calls \ {c} PROVE Placed(d)' /\ Carried(d)'
  <2>1. Placed(d) /\ Carried(d)
    BY DEF CarriedInv
  <2>2. Placed(d)'
    BY <2>1 DEF Placed, Alone
  <2>3. Delivered(d)' <=> Delivered(d)
    BY DEF Delivered, Alone
  <2>4. Carried(d)'
    BY <2>1, <2>3 DEF Carried, Alone
  <2> QED
    BY <2>2, <2>4
<1> QED
  BY <1>1 DEF CarriedInv

\* What the guard knows of a request after a step on it.
LEMMA GuardPlaces ==
    ASSUME GuardInv, NEW r \in Requests
    PROVE  /\ Start(r) => at'[r] = "handling"
           /\ DropHandler(r) \/ DropBody(r) => at'[r] = "over"
           /\ BodyEnds(r) => at'[r] = "body"
           /\ \A status : Respond(r, status, FALSE) => at'[r] = "over"
           /\ \A status : Respond(r, status, TRUE) => at'[r] = "body" /\ open'[r]
<1>1. at \in [Requests -> Places] /\ Holder(r)
  BY DEF GuardInv, GuardTypeOK
<1>2. Start(r) => at'[r] = "handling"
  BY <1>1 DEF Start
<1>3. DropHandler(r) \/ DropBody(r) => at'[r] = "over"
  BY <1>1 DEF DropHandler, DropBody
<1>4. BodyEnds(r) => at'[r] = "body"
  BY <1>1 DEF BodyEnds
<1>5. \A status : Respond(r, status, FALSE) => at'[r] = "over"
  BY <1>1 DEF Respond
<1>6. \A status : Respond(r, status, TRUE) => at'[r] = "body" /\ open'[r]
  BY <1>1 DEF Respond, Holder
<1> QED
  BY <1>2, <1>3, <1>4, <1>5, <1>6

\* What a tool says next joins the end of what is under way.
LEMMA SaysCarried ==
    ASSUME CallInv, CarriedInv, NEW c \in Calls, tool[c] \in Live,
           NEW kind \in {"note", "ask", "withdraw"}
    PROVE  LET msg == Item(kind, Len(said[c]))
           IN  /\ msg \in Message
               /\ Append(said[c], msg) = wire[c] \o (sent[c] \o Append(outbox[c], msg))
               /\ Append(said[c], msg) # <<>>
<1>0. PICK msg : msg = Item(kind, Len(said[c]))
  OBVIOUS
<1>1. msg \in Message /\ msg \in Sendable
  BY <1>0, SaysTyped DEF CallInv, CallerInv, Sendable
<1>2. /\ wire[c] \in Seq(Sendable) /\ sent[c] \in Seq(Sendable) /\ outbox[c] \in Seq(Sendable)
      /\ said[c] \in Seq(Sendable)
  BY Sends DEF CarriedInv, SeqTypeOK, CallInv, CallerInv
<1>3. stage[c] \in {"first", "running"}
  BY DEF CallInv, HeldInv, Held
<1>4. said[c] = wire[c] \o (sent[c] \o outbox[c])
  BY <1>3 DEF CarriedInv, Carried
<1>5. sent[c] \o outbox[c] \in Seq(Sendable)
  BY <1>2, ConcatProperties
<1>6. \A s, t \in Seq(Sendable) : s \o Append(t, msg) = Append(s \o t, msg)
  BY <1>1, AppendLast
<1>7. /\ sent[c] \o Append(outbox[c], msg) = Append(sent[c] \o outbox[c], msg)
      /\ wire[c] \o Append(sent[c] \o outbox[c], msg) = Append(wire[c] \o (sent[c] \o outbox[c]), msg)
  BY <1>2, <1>5, <1>6
<1>8. Append(said[c], msg) = wire[c] \o (sent[c] \o Append(outbox[c], msg))
  BY <1>4, <1>7
<1>9. Append(said[c], msg) # <<>>
  BY <1>1, <1>2, AppendProperties
<1> QED
  BY <1>0, <1>1, <1>8, <1>9

\* The call that is answered in one go had said `out`; it is in the answer, or
\* the stream that goes on has it first.
LEMMA AnswerCarries ==
    ASSUME CallInv, CarriedInv, NEW c \in Calls, stage[c] = "first",
           NEW response \in Reply \cup {None}, NEW out \in Seq(Message),
           AnswerFirst(c, response, out), said'[c] = out,
           outbox' = [outbox EXCEPT ![c] = <<>>]
    PROVE  SeqTypeOK' /\ Placed(c)' /\ Carried(c)'
<1>0. SeqTypeOK /\ HeldTypeOK /\ GuardInv /\ Carried(c) /\ c \in Requests /\ c.event \in BOOLEAN
  BY CallsAssumption DEF CarriedInv, CallInv, HeldInv
<1>1. wire[c] = <<>> /\ sent[c] = <<>>
  BY <1>0 DEF Carried
<1>2. outbox'[c] = <<>> /\ outbox' \in [Calls -> Seq(Message)]
  BY <1>0 DEF SeqTypeOK
<1>3. CASE out = <<>>
  <2>1. PICK item, event :
            /\ event \in BOOLEAN
            /\ \/ item = Item("status", 202) /\ event = FALSE /\ Single(c, 202, item, event)
               \/ \E r \in Reply : item = Item(r, 0) /\ Single(c, 200, item, event)
            /\ UNCHANGED <<reply, sent>>
    <3>1. CASE response = None
      BY <1>3, <3>1 DEF AnswerFirst
    <3>2. CASE response # None
      BY <1>0, <1>3, <3>2 DEF AnswerFirst
    <3> QED
      BY <3>1, <3>2
  <2>2. \E status : Single(c, status, item, event)
    BY <2>1
  <2>3. item \in Sendable
    <3>1. 202 \in Statuses
      BY DEF Statuses
    <3> QED
      BY <2>1, <3>1, Sends
  <2>4. wire'[c] = <<item>> /\ wire' \in [Calls -> Seq(Sendable)]
    BY <1>0, <2>2, <2>3 DEF Single, SeqTypeOK
  <2>5. SeqTypeOK'
    BY <1>0, <1>2, <2>1, <2>4 DEF SeqTypeOK
  <2>6. stage'[c] = IF event THEN "done" ELSE "over"
    BY <1>0, <2>2 DEF Single, HeldTypeOK
  <2>7. Placed(c)'
    <3>1. PICK status : Respond(c, status, event)
      BY <2>2 DEF Single
    <3>2. CASE event
      <4>1. event = TRUE
        BY <2>1, <3>2
      <4>2. at'[c] = "body"
        BY <1>0, <3>1, <4>1, GuardPlaces
      <4> QED
        BY <2>6, <3>2, <4>2 DEF Placed
    <3>3. CASE ~event
      <4>1. event = FALSE
        BY <2>1, <3>3
      <4>2. at'[c] = "over"
        BY <1>0, <3>1, <4>1, GuardPlaces
      <4> QED
        BY <2>6, <3>3, <4>2 DEF Placed
    <3> QED
      BY <3>2, <3>3
  <2>8. \/ ~event /\ wire'[c] = <<Item("status", 202)>> /\ 202 \in Statuses
        \/ \E r \in Reply : wire'[c] = Append(said'[c], Item(r, 0))
    <3>1. Append(<<>>, item) = <<item>>
      OBVIOUS
    <3> QED
      BY <1>3, <2>1, <2>4, <3>1 DEF Statuses
  <2>9. Delivered(c)' /\ (event => \E r \in Reply : wire'[c] = Append(said'[c], Item(r, 0)))
    BY <2>8 DEF Delivered
  <2> QED
    BY <2>5, <2>6, <2>7, <2>9 DEF Carried
<1>4. CASE out # <<>>
  <2>1. /\ stage' = [stage EXCEPT ![c] = "draining"] /\ reply' = [reply EXCEPT ![c] = response]
        /\ sent' = [sent EXCEPT ![c] = out] /\ Respond(c, 200, TRUE) /\ wire' = wire
    BY <1>4 DEF AnswerFirst
  <2>2. stage'[c] = "draining" /\ sent'[c] = out /\ wire'[c] = <<>>
    BY <1>0, <1>1, <2>1 DEF HeldTypeOK, SeqTypeOK
  <2>3. SeqTypeOK'
    BY <1>0, <1>2, <2>1 DEF SeqTypeOK
  <2>4. Placed(c)'
    BY <1>0, <2>1, <2>2, GuardPlaces DEF Placed
  <2>5. said'[c] = wire'[c] \o (sent'[c] \o outbox'[c])
    BY <1>2, <2>2
  <2> QED
    BY <1>4, <2>2, <2>3, <2>4, <2>5 DEF Carried
<1> QED
  BY <1>3, <1>4

\* A dispatch that answers on the stream leaves it to drain.
LEMMA StreamCarries ==
    ASSUME CallInv, CarriedInv, NEW c \in Calls, stage[c] = "running", sent[c] = <<>>,
           NEW response \in Reply \cup {None}, AnswerStreaming(c, response),
           outbox' \in [Calls -> Seq(Message)], said'[c] # <<>>,
           said'[c] = wire[c] \o (sent[c] \o outbox'[c])
    PROVE  SeqTypeOK' /\ Placed(c)' /\ Carried(c)'
<1>0. SeqTypeOK /\ HeldTypeOK /\ Placed(c)
  BY DEF CarriedInv, CallInv, HeldInv
<1>1. /\ stage' = [stage EXCEPT ![c] = "draining"] /\ reply' = [reply EXCEPT ![c] = response]
      /\ at' = at /\ open' = open /\ sent' = sent /\ wire' = wire
  BY DEF AnswerStreaming, guardVars
<1>2. stage'[c] = "draining"
  BY <1>0, <1>1 DEF HeldTypeOK
<1>3. SeqTypeOK'
  BY <1>0, <1>1 DEF SeqTypeOK
<1>4. Placed(c)'
  BY <1>0, <1>1, <1>2 DEF Placed
<1>5. Carried(c)'
  BY <1>1, <1>2 DEF Carried
<1> QED
  BY <1>3, <1>4, <1>5

\* What goes from the head of a queue to the wire keeps its place.
LEMMA SendCarries ==
    ASSUME NEW S, NEW w \in Seq(S), NEW q \in Seq(S), NEW o \in Seq(S)
    PROVE  /\ q # <<>> => Append(w, Head(q)) \o (Tail(q) \o o) = w \o (q \o o)
           /\ o # <<>> => Append(w, Head(o)) \o (<<>> \o Tail(o)) = w \o (<<>> \o o)
<1>1. ASSUME q # <<>> PROVE Append(w, Head(q)) \o (Tail(q) \o o) = w \o (q \o o)
  <2>1. Head(q) \in S /\ Tail(q) \in Seq(S)
    BY <1>1, HeadTailProperties
  <2>2. Append(w, Head(q)) \in Seq(S)
    BY <2>1, AppendProperties
  <2>3. Append(w, Head(q)) \o (Tail(q) \o o) = (Append(w, Head(q)) \o Tail(q)) \o o
    BY <2>1, <2>2, ConcatAssociative
  <2>4. Append(w, Head(q)) \o Tail(q) = w \o q
    BY <1>1, MoveHead
  <2>5. (w \o q) \o o = w \o (q \o o)
    BY ConcatAssociative
  <2> QED
    BY <2>3, <2>4, <2>5
<1>2. ASSUME o # <<>> PROVE Append(w, Head(o)) \o (<<>> \o Tail(o)) = w \o (<<>> \o o)
  <2>1. Tail(o) \in Seq(S)
    BY <1>2, HeadTailProperties
  <2>2. <<>> \o Tail(o) = Tail(o) /\ <<>> \o o = o
    BY <2>1, ConcatEmptySeq
  <2> QED
    BY <1>2, <2>2, MoveHead
<1> QED
  BY <1>1, <1>2

\* The steps of a call before its answer begins, and after it is complete.
LEMMA EndsCarry ==
    ASSUME CallInv, CarriedInv, NEW c \in Calls,
           \/ Arrive(c) \/ AuthRefused(c) \/ SessionNotFound(c) \/ Admit(c)
           \/ StreamEnds(c) \/ BodyReleased(c) \/ Disconnect(c)
    PROVE  SeqTypeOK' /\ Placed(c)' /\ Carried(c)'
<1>0. /\ SeqTypeOK /\ HeldTypeOK /\ GuardInv /\ Held(c) /\ Placed(c) /\ Carried(c)
      /\ c \in Requests
  BY CallsAssumption DEF CarriedInv, CallInv, HeldInv
<1>1. CASE Arrive(c)
  <2>1. stage[c] = "idle" /\ stage'[c] = "auth" /\ Start(c)
    BY <1>0, <1>1 DEF Arrive, Start, Held, HeldTypeOK
  <2>2. UNCHANGED <<reply, outbox, sent, wire, said>>
    BY <1>1 DEF Arrive
  <2>3. SeqTypeOK' /\ Carried(c)'
    BY <1>0, <2>1, <2>2 DEF SeqTypeOK, Carried
  <2>4. at'[c] = "handling"
    BY <1>0, <2>1, GuardPlaces
  <2> QED
    BY <2>1, <2>3, <2>4 DEF Placed
<1>2. CASE AuthRefused(c) \/ SessionNotFound(c)
  <2>1. PICK status \in {401, 404} : Single(c, status, Item("status", status), FALSE)
    BY <1>2 DEF AuthRefused, SessionNotFound, Refused
  <2>2. status \in Statuses
    BY DEF Statuses
  <2>3. Item("status", status) \in Sendable
    BY <2>2, Sends
  <2>4. /\ wire' = [wire EXCEPT ![c] = <<Item("status", status)>>]
        /\ stage' = [stage EXCEPT ![c] = "over"] /\ Respond(c, status, FALSE)
    BY <2>1 DEF Single
  <2>5. wire'[c] = <<Item("status", status)>> /\ wire' \in [Calls -> Seq(Sendable)]
    BY <1>0, <2>3, <2>4 DEF SeqTypeOK
  <2>6. UNCHANGED <<reply, outbox, sent>>
    BY <1>2 DEF AuthRefused, SessionNotFound, Refused
  <2>7. SeqTypeOK'
    BY <1>0, <2>5, <2>6 DEF SeqTypeOK
  <2>8. at'[c] = "over"
    <3>1. Respond(c, status, FALSE)
      BY <2>4
    <3> QED
      BY <1>0, <3>1 DEF Respond, GuardInv, GuardTypeOK
  <2>9. Delivered(c)'
    BY <2>2, <2>5 DEF Delivered
  <2>10. stage'[c] = "over"
    BY <1>0, <2>4 DEF HeldTypeOK
  <2> QED
    BY <2>7, <2>8, <2>9, <2>10 DEF Placed, Carried
<1>3. CASE Admit(c)
  <2>1. /\ stage[c] = "auth" /\ stage'[c] = "first" /\ at' = at
        /\ UNCHANGED <<reply, outbox, sent, wire, said>>
    BY <1>0, <1>3 DEF Admit, HeldTypeOK, guardVars
  <2> QED
    BY <1>0, <2>1 DEF SeqTypeOK, Carried, Placed
<1>4. CASE StreamEnds(c)
  <2>1. stage[c] = "done" /\ BodyEnds(c) /\ UNCHANGED <<stage, reply, outbox, sent, wire, said>>
    BY <1>4 DEF StreamEnds, callVars
  <2>2. at'[c] = "body"
    BY <1>0, <2>1, GuardPlaces
  <2> QED
    BY <1>0, <2>1, <2>2 DEF SeqTypeOK, Carried, Placed
<1>5. CASE BodyReleased(c)
  <2>1. /\ DropBody(c) /\ stage'[c] = "over"
        /\ UNCHANGED <<reply, outbox, sent, wire, said>>
    BY <1>0, <1>5 DEF BodyReleased, HeldTypeOK
  <2>2. at'[c] = "over"
    BY <1>0, <2>1, GuardPlaces
  <2>3. Delivered(c)'
    BY <2>1, CarriedIsDelivered DEF Delivered
  <2> QED
    BY <1>0, <2>1, <2>2, <2>3 DEF SeqTypeOK, Carried, Placed
<1>6. CASE Disconnect(c)
  <2>1. /\ DropHandler(c) \/ DropBody(c)
        /\ stage'[c] = "over" /\ UNCHANGED <<wire, said>>
        /\ outbox' = [outbox EXCEPT ![c] = <<>>] /\ sent' = [sent EXCEPT ![c] = <<>>]
        /\ reply' = [reply EXCEPT ![c] = None]
    BY <1>0, <1>6 DEF Disconnect, HeldTypeOK
  <2>2. at'[c] = "over"
    BY <1>0, <2>1, GuardPlaces
  <2>3. Delivered(c)'
    BY <2>1, CarriedIsDelivered DEF Delivered
  <2>4. SeqTypeOK' /\ stage'[c] = "over"
    BY <1>0, <1>6, <2>1 DEF SeqTypeOK, Disconnect, HeldTypeOK
  <2> QED
    BY <2>2, <2>3, <2>4 DEF Carried, Placed
<1> QED
  BY <1>1, <1>2, <1>3, <1>4, <1>5, <1>6

\* The steps of the tool and of the client that answers it.
LEMMA ToolCarries ==
    ASSUME CallInv, CarriedInv, NEW c \in Calls,
           \/ Note(c) \/ Ask(c) \/ AskTimesOut(c) \/ AskCancelled(c)
           \/ Return(c) \/ Cancelled(c) \/ ToolPanics(c)
    PROVE  SeqTypeOK' /\ Placed(c)' /\ Carried(c)'
<1>0. /\ SeqTypeOK /\ HeldTypeOK /\ GuardInv /\ Held(c) /\ Placed(c) /\ Carried(c)
      /\ c \in Requests /\ said \in [Calls -> Seq(Message)]
  BY CallsAssumption DEF CarriedInv, CallInv, HeldInv, CallerInv
<1>1. CASE Note(c) \/ Ask(c) \/ AskTimesOut(c) \/ AskCancelled(c)
  <2>1. /\ tool[c] \in Live /\ UNCHANGED <<guardVars, stage, reply, sent, wire>>
        /\ \E kind \in {"note", "ask", "withdraw"} : Says(c, kind)
    BY <1>1 DEF Note, Ask, AskTimesOut, AskCancelled, GiveUp, Withdraw, Live
  <2>2. PICK kind \in {"note", "ask", "withdraw"} : Says(c, kind)
    BY <2>1
  <2>3. PICK msg : msg = Item(kind, Len(said[c]))
    OBVIOUS
  <2>4. /\ msg \in Message /\ Append(said[c], msg) # <<>>
        /\ Append(said[c], msg) = wire[c] \o (sent[c] \o Append(outbox[c], msg))
    BY <2>1, <2>3, SaysCarried
  <2>5. outbox' = [outbox EXCEPT ![c] = Append(@, msg)] /\ said' = [said EXCEPT ![c] = Append(@, msg)]
    BY <2>2, <2>3 DEF Says
  <2>6. outbox' \in [Calls -> Seq(Message)]
    BY <1>0, <2>4, <2>5 DEF SeqTypeOK
  <2>7. outbox'[c] = Append(outbox[c], msg) /\ said'[c] = Append(said[c], msg)
    BY <1>0, <2>5 DEF SeqTypeOK
  <2>8. stage'[c] \in {"first", "running"} /\ stage' = stage /\ at' = at /\ open' = open
    BY <1>0, <2>1 DEF Held, guardVars
  <2>9. SeqTypeOK' /\ Placed(c)'
    BY <1>0, <2>1, <2>6, <2>8 DEF SeqTypeOK, Placed
  <2>10. Carried(c)'
    BY <1>0, <2>1, <2>4, <2>7, <2>8 DEF Carried
  <2> QED
    BY <2>9, <2>10
<1>2. ASSUME stage[c] = "first" PROVE said[c] = outbox[c]
  <2>1. said[c] = <<>> \o (<<>> \o outbox[c]) /\ outbox[c] \in Seq(Message)
    BY <1>0, <1>2 DEF Carried, SeqTypeOK
  <2> QED
    BY <2>1, ConcatEmptySeq
<1>3. ASSUME Polled(c), stage[c] # "first"
      PROVE  /\ stage[c] = "running" /\ sent[c] = <<>> /\ said[c] # <<>>
             /\ said[c] = wire[c] \o (sent[c] \o outbox[c])
  BY <1>0, <1>3 DEF Polled, Carried
<1>4. CASE Return(c)
  <2>1. Polled(c) /\ said' = said /\ "result" \in Reply \cup {None}
    BY <1>4 DEF Return, Reply
  <2>2. CASE stage[c] = "first"
    <3>1. AnswerFirst(c, "result", outbox[c]) /\ outbox' = [outbox EXCEPT ![c] = <<>>]
      BY <1>4, <2>2 DEF Return
    <3>2. outbox[c] \in Seq(Message) /\ said'[c] = outbox[c]
      BY <1>0, <1>2, <2>1, <2>2 DEF SeqTypeOK
    <3> QED
      BY <2>1, <2>2, <3>1, <3>2, AnswerCarries
  <2>3. CASE stage[c] # "first"
    <3>1. AnswerStreaming(c, "result") /\ outbox' = outbox
      BY <1>4, <2>3 DEF Return
    <3>2. outbox' \in [Calls -> Seq(Message)]
      BY <1>0, <3>1 DEF SeqTypeOK
    <3>3. said'[c] # <<>> /\ said'[c] = wire[c] \o (sent[c] \o outbox'[c])
      BY <1>3, <2>1, <2>3, <3>1
    <3> QED
      BY <1>3, <2>1, <2>3, <3>1, <3>2, <3>3, StreamCarries
  <2> QED
    BY <2>2, <2>3
<1>5. CASE ToolPanics(c)
  <2>1. Polled(c) /\ said' = said /\ "failed" \in Reply \cup {None}
    BY <1>5 DEF ToolPanics, Reply
  <2>2. CASE stage[c] = "first"
    <3>1. /\ Respond(c, 500, FALSE) /\ stage'[c] = "over" /\ UNCHANGED <<reply, sent>>
          /\ wire' = [wire EXCEPT ![c] = <<Item("status", 500)>>]
          /\ outbox' = [outbox EXCEPT ![c] = <<>>]
      BY <1>0, <1>5, <2>2 DEF ToolPanics, Panic, HeldTypeOK
    <3>2. 500 \in Statuses
      BY DEF Statuses
    <3>3. Item("status", 500) \in Sendable
      BY <3>2, Sends
    <3>4. wire'[c] = <<Item("status", 500)>> /\ SeqTypeOK'
      BY <1>0, <3>1, <3>3 DEF SeqTypeOK
    <3>5. at'[c] = "over"
      BY <1>0, <3>1, GuardPlaces
    <3>6. Delivered(c)'
      BY <3>2, <3>4 DEF Delivered
    <3> QED
      BY <3>1, <3>4, <3>5, <3>6 DEF Placed, Carried
  <2>3. CASE stage[c] # "first"
    <3>1. AnswerStreaming(c, "failed") /\ outbox' = outbox
      BY <1>5, <2>3 DEF ToolPanics
    <3>2. outbox' \in [Calls -> Seq(Message)]
      BY <1>0, <3>1 DEF SeqTypeOK
    <3>3. said'[c] # <<>> /\ said'[c] = wire[c] \o (sent[c] \o outbox'[c])
      BY <1>3, <2>1, <2>3, <3>1
    <3> QED
      BY <1>3, <2>1, <2>3, <3>1, <3>2, <3>3, StreamCarries
  <2> QED
    BY <2>2, <2>3
<1>6. CASE Cancelled(c)
  <2>1. Polled(c) /\ tool[c] \in Live
    BY <1>6 DEF Cancelled
  <2>2. PICK msg : msg = Item("withdraw", Len(said[c]))
    OBVIOUS
  <2>3. /\ msg \in Message /\ Append(said[c], msg) # <<>>
        /\ Append(said[c], msg) = wire[c] \o (sent[c] \o Append(outbox[c], msg))
    BY <2>1, <2>2, SaysCarried
  <2>4. PICK out : out = IF tool[c] = "running" THEN outbox[c] ELSE Append(outbox[c], msg)
    OBVIOUS
  <2>5. out \in Seq(Message)
    BY <1>0, <2>3, <2>4 DEF SeqTypeOK
  <2>6. said' = IF tool[c] = "running" THEN said ELSE [said EXCEPT ![c] = Append(@, msg)]
    BY <1>6, <2>2 DEF Cancelled
  <2>7. said'[c] = IF tool[c] = "running" THEN said[c] ELSE Append(said[c], msg)
    BY <1>0, <2>6
  <2>8. CASE stage[c] = "first"
    <3>1. AnswerFirst(c, None, out) /\ outbox' = [outbox EXCEPT ![c] = <<>>]
      BY <1>6, <2>2, <2>4, <2>8 DEF Cancelled
    <3>2. said'[c] = out
      BY <1>2, <2>4, <2>7, <2>8
    <3> QED
      BY <2>5, <2>8, <3>1, <3>2, AnswerCarries
  <2>9. CASE stage[c] # "first"
    <3>1. AnswerStreaming(c, None) /\ outbox' = [outbox EXCEPT ![c] = out]
      BY <1>6, <2>2, <2>4, <2>9 DEF Cancelled
    <3>2. outbox'[c] = out /\ outbox' \in [Calls -> Seq(Message)]
      BY <1>0, <2>5, <3>1 DEF SeqTypeOK
    <3>3. said'[c] # <<>> /\ said'[c] = wire[c] \o (sent[c] \o outbox'[c])
      BY <1>3, <2>1, <2>3, <2>4, <2>7, <2>9, <3>2
    <3> QED
      BY <1>3, <2>1, <2>9, <3>1, <3>2, <3>3, StreamCarries
  <2> QED
    BY <2>8, <2>9
<1> QED
  BY <1>1, <1>4, <1>5, <1>6

\* The steps of the stream.
LEMMA StreamStepCarries ==
    ASSUME CallInv, CarriedInv, NEW c \in Calls, TakeFirst(c) \/ StreamMessage(c) \/ StreamReply(c)
    PROVE  SeqTypeOK' /\ Placed(c)' /\ Carried(c)'
<1>0. /\ SeqTypeOK /\ HeldTypeOK /\ GuardInv /\ Held(c) /\ Placed(c) /\ Carried(c)
      /\ c \in Requests /\ said \in [Calls -> Seq(Message)]
  BY CallsAssumption DEF CarriedInv, CallInv, HeldInv, CallerInv
<1>1. /\ wire[c] \in Seq(Sendable) /\ sent[c] \in Seq(Sendable) /\ outbox[c] \in Seq(Sendable)
      /\ sent[c] \in Seq(Message) /\ outbox[c] \in Seq(Message)
  BY <1>0, Sends DEF SeqTypeOK
<1>2. \A q \in Seq(Message) : q # <<>> => Head(q) \in Message /\ Tail(q) \in Seq(Message)
  BY HeadTailProperties
<1>3. Message \subseteq Sendable
  BY DEF Sendable
<1>4. CASE TakeFirst(c)
  <2>1. /\ stage[c] = "first" /\ stage'[c] = "running" /\ outbox[c] # <<>>
        /\ sent' = [sent EXCEPT ![c] = <<Head(outbox[c])>>]
        /\ outbox' = [outbox EXCEPT ![c] = Tail(@)]
        /\ Respond(c, 200, TRUE) /\ UNCHANGED <<reply, wire, said>>
    BY <1>0, <1>4 DEF TakeFirst, HeldTypeOK
  <2>2. Head(outbox[c]) \in Message /\ Tail(outbox[c]) \in Seq(Message)
    BY <1>1, <1>2, <2>1
  <2>3. /\ sent'[c] = <<Head(outbox[c])>> /\ outbox'[c] = Tail(outbox[c])
        /\ SeqTypeOK'
    BY <1>0, <2>1, <2>2 DEF SeqTypeOK
  <2>4. at'[c] = "body" /\ open'[c]
    BY <1>0, <2>1, GuardPlaces
  <2>5. wire[c] = <<>> /\ sent[c] = <<>> /\ said[c] = <<>> \o (<<>> \o outbox[c])
    BY <1>0, <2>1 DEF Carried
  <2>6. said[c] = outbox[c]
    BY <1>1, <2>5, ConcatEmptySeq
  <2>7. <<Head(outbox[c])>> \o Tail(outbox[c]) = outbox[c]
    BY <1>1, <2>1
  <2>8. said'[c] = wire'[c] \o (sent'[c] \o outbox'[c]) /\ said'[c] # <<>>
    BY <1>1, <2>1, <2>3, <2>5, <2>6, <2>7, ConcatEmptySeq
  <2> QED
    BY <2>1, <2>3, <2>4, <2>8 DEF Placed, Carried
<1>5. CASE StreamMessage(c)
  <2>1. stage[c] \in {"running", "draining"} /\ UNCHANGED <<guardVars, stage, reply, said>>
    BY <1>5 DEF StreamMessage
  <2>2. said[c] # <<>> /\ said[c] = wire[c] \o (sent[c] \o outbox[c])
    BY <1>0, <2>1 DEF Carried
  <2>3. SeqTypeOK' /\ wire'[c] \o (sent'[c] \o outbox'[c]) = wire[c] \o (sent[c] \o outbox[c])
    <3>1. CASE /\ sent[c] # <<>>
               /\ wire' = [wire EXCEPT ![c] = Append(@, Head(sent[c]))]
               /\ sent' = [sent EXCEPT ![c] = Tail(@)] /\ outbox' = outbox
      <4>1. Head(sent[c]) \in Message /\ Head(sent[c]) \in Sendable /\ Tail(sent[c]) \in Seq(Message)
        BY <1>1, <1>2, <1>3, <3>1
      <4>2. Append(wire[c], Head(sent[c])) \in Seq(Sendable)
        BY <1>1, <4>1
      <4>3. /\ wire'[c] = Append(wire[c], Head(sent[c])) /\ sent'[c] = Tail(sent[c])
            /\ outbox'[c] = outbox[c] /\ SeqTypeOK'
        BY <1>0, <2>1, <3>1, <4>1, <4>2 DEF SeqTypeOK
      <4>4. Append(wire[c], Head(sent[c])) \o (Tail(sent[c]) \o outbox[c])
                = wire[c] \o (sent[c] \o outbox[c])
        <5>1. \A w, q, o \in Seq(Sendable) :
                  q # <<>> => Append(w, Head(q)) \o (Tail(q) \o o) = w \o (q \o o)
          BY SendCarries
        <5> QED
          BY <1>1, <3>1, <5>1
      <4> QED
        BY <4>3, <4>4
    <3>2. CASE /\ sent[c] = <<>> /\ outbox[c] # <<>>
               /\ wire' = [wire EXCEPT ![c] = Append(@, Head(outbox[c]))]
               /\ outbox' = [outbox EXCEPT ![c] = Tail(@)] /\ sent' = sent
      <4>1. /\ Head(outbox[c]) \in Message /\ Head(outbox[c]) \in Sendable
            /\ Tail(outbox[c]) \in Seq(Message)
        BY <1>1, <1>2, <1>3, <3>2
      <4>2. Append(wire[c], Head(outbox[c])) \in Seq(Sendable)
        BY <1>1, <4>1
      <4>3. /\ wire'[c] = Append(wire[c], Head(outbox[c])) /\ sent'[c] = <<>>
            /\ outbox'[c] = Tail(outbox[c]) /\ SeqTypeOK'
        BY <1>0, <2>1, <3>2, <4>1, <4>2 DEF SeqTypeOK
      <4>4. Append(wire[c], Head(outbox[c])) \o (<<>> \o Tail(outbox[c]))
                = wire[c] \o (<<>> \o outbox[c])
        BY <1>1, <3>2, SendCarries
      <4> QED
        BY <3>2, <4>3, <4>4
    <3> QED
      BY <1>5, <3>1, <3>2 DEF StreamMessage
  <2>4. Placed(c)'
    BY <1>0, <2>1 DEF Placed, guardVars
  <2> QED
    BY <2>1, <2>2, <2>3, <2>4 DEF Carried
<1>6. CASE StreamReply(c)
  <2>1. /\ stage[c] = "draining" /\ sent[c] = <<>> /\ outbox[c] = <<>> /\ stage'[c] = "done"
        /\ reply' = [reply EXCEPT ![c] = None] /\ UNCHANGED <<outbox, sent, said>>
    BY <1>0, <1>6 DEF StreamReply, HeldTypeOK
  <2>2. said[c] = wire[c] \o (<<>> \o <<>>)
    BY <1>0, <2>1 DEF Carried
  <2>3. said[c] = wire[c]
    BY <1>1, <2>2, ConcatEmptySeq
  <2>4. CASE reply[c] = None
    <3>1. BodyEnds(c) /\ wire' = wire
      BY <1>6, <2>4 DEF StreamReply
    <3>2. at'[c] = "body"
      BY <1>0, <3>1, GuardPlaces
    <3> QED
      BY <1>0, <2>1, <2>3, <3>1, <3>2 DEF SeqTypeOK, Placed, Carried
  <2>5. CASE reply[c] # None
    <3>1. wire' = [wire EXCEPT ![c] = Append(@, Item(reply[c], 0))] /\ at' = at
      BY <1>6, <2>5 DEF StreamReply, guardVars
    <3>2. reply[c] \in Reply
      BY <1>0, <2>5 DEF SeqTypeOK
    <3>3. Item(reply[c], 0) \in Sendable
      BY <3>2, Sends
    <3>4. wire'[c] = Append(wire[c], Item(reply[c], 0)) /\ wire' \in [Calls -> Seq(Sendable)]
      BY <1>0, <3>1, <3>3 DEF SeqTypeOK
    <3>5. SeqTypeOK'
      BY <1>0, <2>1, <3>4 DEF SeqTypeOK
    <3>6. Placed(c)'
      BY <1>0, <2>1, <3>1 DEF Placed
    <3>7. \E response \in Reply : wire'[c] = Append(said'[c], Item(response, 0))
      BY <2>1, <2>3, <3>2, <3>4
    <3> QED
      BY <2>1, <3>5, <3>6, <3>7 DEF Carried
  <2> QED
    BY <2>4, <2>5
<1> QED
  BY <1>4, <1>5, <1>6

\* A step of one of the clients, the sessions or the host's own routes carries nothing.
LEMMA CarriedKept ==
    ASSUME CarriedInv, UNCHANGED <<stage, reply, outbox, sent, wire, said>>,
           \A c \in Calls : at'[c] = at[c] /\ open'[c] = open[c]
    PROVE  CarriedInv'
<1>1. SeqTypeOK'
  BY DEF CarriedInv, SeqTypeOK
<1>2. ASSUME NEW c \in Calls PROVE Placed(c)' /\ Carried(c)'
  <2>1. Placed(c) /\ Carried(c)
    BY DEF CarriedInv
  <2>2. Delivered(c) <=> Delivered(c)'
    BY DEF Delivered
  <2> QED
    BY <2>1, <2>2 DEF Placed, Carried
<1> QED
  BY <1>1, <1>2 DEF CarriedInv

\* The host's own routes are other requests than the calls.
LEMMA RestIsApart ==
    ASSUME CallInv, NEW r \in Rest, RestStep(r)
    PROVE  \A c \in Calls : at'[c] = at[c] /\ open'[c] = open[c] /\ lines'[c] = lines[c]
<1>1. \/ Start(r) \/ DropHandler(r) \/ \E status, streamed : Respond(r, status, streamed)
  BY DEF RestStep, Panic, Deadline
<1>2. GuardTypeOK /\ r \in Requests /\ \A c \in Calls : c \in Requests \ {r}
  BY CallsAssumption DEF CallInv, HeldInv, GuardInv
<1> QED
  BY <1>1, <1>2, GuardAlone

\* A step of a call itself, or a step that leaves all calls' streams alone.
LEMMA StepKinds ==
    ASSUME CallInv, [Next]_vars
    PROVE  \/ \E c \in Calls : CallStep(c)
           \/ /\ UNCHANGED <<stage, reply, outbox, sent, wire, outcome, said>>
              /\ \A c \in Calls : at'[c] = at[c] /\ open'[c] = open[c] /\ lines'[c] = lines[c]
<1>1. ASSUME NEW k \in Clients, NEW c \in Calls, CancelNotice(k, c.id) \/ Deliver(k, c)
      PROVE  UNCHANGED <<guardVars, stage, reply, outbox, sent, wire, outcome, said>>
  BY <1>1 DEF CancelNotice, Deliver
<1>2. ASSUME NEW s \in Sessions, EndSession(s)
      PROVE  UNCHANGED <<guardVars, stage, reply, outbox, sent, wire, outcome, said>>
  BY <1>2 DEF EndSession
<1>3. ASSUME NEW r \in Rest, RestStep(r)
      PROVE  /\ UNCHANGED <<stage, reply, outbox, sent, wire, outcome, said>>
             /\ \A c \in Calls : at'[c] = at[c] /\ open'[c] = open[c] /\ lines'[c] = lines[c]
  <2>1. UNCHANGED <<stage, reply, outbox, sent, wire, outcome, said>>
    BY <1>3 DEF RestStep, callVars
  <2> QED
    BY <1>3, <2>1, RestIsApart
<1>4. CASE UNCHANGED vars
  BY <1>4 DEF vars, callVars, guardVars
<1> QED
  BY <1>1, <1>2, <1>3, <1>4 DEF Next, CallStep, guardVars

\* Every step of the system carries what the tools say in order.
LEMMA CarriedStep == CallInv /\ CarriedInv /\ [Next]_vars => CarriedInv'
<1> SUFFICES ASSUME CallInv, CarriedInv, [Next]_vars PROVE CarriedInv'
  OBVIOUS
<1>1. ASSUME NEW c \in Calls, CallStep(c) PROVE CarriedInv'
  <2>1. Alone(c)
    BY <1>1, CallAlone DEF CarriedInv
  <2>2. SeqTypeOK /\ HeldTypeOK /\ Placed(c) /\ Carried(c)
    BY DEF CarriedInv, CallInv, HeldInv
  <2>3. SeqTypeOK' /\ Placed(c)' /\ Carried(c)'
    <3>1. CASE Resume(c)
      <4>1. UNCHANGED <<guardVars, stage, reply, outbox, sent, wire, said>>
        BY <3>1 DEF Resume
      <4>2. Delivered(c) <=> Delivered(c)'
        BY <4>1 DEF Delivered
      <4> QED
        BY <2>2, <4>1, <4>2 DEF SeqTypeOK, Placed, Carried, guardVars
    <3> QED
      BY <1>1, <3>1, EndsCarry, ToolCarries, StreamStepCarries DEF CallStep, Step, ToolStep
  <2> QED
    BY <2>1, <2>3, CarriedByOne
<1> QED
  BY <1>1, StepKinds, CarriedKept

\* What a tool says is on the wire or on its way to it, in order, for any number of
\* calls, messages and clients.
THEOREM CarriedInvariant == Spec => [](CallInv /\ CarriedInv)
<1>1. Init => CarriedInv
  <2>1. <<>> = <<>> \o (<<>> \o <<>>)
    OBVIOUS
  <2> QED
    BY <2>1, CallsAssumption DEF Init, GuardInit, CarriedInv, SeqTypeOK, Placed, Carried
<1>2. Spec => []CallInv
  BY HeldInvariant, ObservedInvariant, CallerInvariant, PTL DEF CallInv
<1> QED
  BY <1>1, <1>2, CarriedStep, PTL DEF Spec
-----------------------------------------------------------------------------
(* What a cancelled call sends, and what its questions come to.            *)

\* A cancelled call drains without a response.
Silent(c) ==
    outcome[c] = <<"notification_accepted">> =>
        /\ stage[c] = "draining" => reply[c] = None
        /\ stage[c] = "done" => said[c] # <<>> /\ wire[c] = said[c]
        /\ stage[c] = "over" /\ lines[c] # <<>> /\ lines[c][1].line = "completed" =>
              wire[c] = IF said[c] = <<>> THEN <<Item("status", 202)>> ELSE said[c]

\* The question at a place of `said` was answered, or withdrawn with the message
\* after it.
Settled(c, i) ==
    \/ \E k \in Clients : <<k, i>> \in by[c]
    \/ i + 1 \in DOMAIN said[c] /\ said[c][i + 1].kind = "withdraw"

\* As long as a call is served its questions are settled, but for the last one
\* while the tool waits for it.
Questions(c) ==
    stage[c] # "over" =>
        \A i \in DOMAIN said[c] :
            said[c][i].kind = "ask" => Settled(c, i) \/ (i = Len(said[c]) /\ tool[c] = "asking")

ToldInv == \A c \in Calls : Silent(c) /\ Questions(c)

\* A step of call c keeps it silent when it was cancelled.
LEMMA SilentStep ==
    ASSUME CallInv, CarriedInv, NEW c \in Calls, Silent(c), CallStep(c)
    PROVE  Silent(c)'
<1>0. /\ HeldTypeOK /\ GuardInv /\ SeqTypeOK /\ Placed(c) /\ Carried(c) /\ Held(c)
      /\ Dispatched(c) /\ Observed(c) /\ c \in Requests
      /\ outcome \in [Calls -> Seq(Outcomes)] /\ said \in [Calls -> Seq(Message)]
  BY CallsAssumption DEF CallInv, HeldInv, ObservedInv, CallerInv, CarriedInv
<1>1. ASSUME outcome'[c] = outcome[c], tool[c] # "over" PROVE Silent(c)'
  BY <1>0, <1>1 DEF Observed, Silent
<1>2. CASE \/ Arrive(c) \/ AuthRefused(c) \/ SessionNotFound(c) \/ Admit(c) \/ Resume(c)
           \/ Note(c) \/ Ask(c) \/ AskTimesOut(c) \/ AskCancelled(c) \/ TakeFirst(c)
  <2>1. outcome' = outcome
    BY <1>2 DEF Arrive, AuthRefused, SessionNotFound, Refused, Admit, Resume, Note, Ask,
                AskTimesOut, AskCancelled, GiveUp, TakeFirst
  <2>2. CASE Arrive(c)
    BY <1>0, <1>1, <2>1, <2>2 DEF Arrive, Start, Held, Dispatched, Placed, HeldTypeOK, Stages
  <2>3. CASE AuthRefused(c) \/ SessionNotFound(c) \/ Admit(c)
    BY <1>0, <1>1, <2>1, <2>3 DEF AuthRefused, SessionNotFound, Refused, Admit, Dispatched
  <2>4. CASE \/ Resume(c) \/ Note(c) \/ Ask(c) \/ AskTimesOut(c) \/ AskCancelled(c) \/ TakeFirst(c)
    BY <1>1, <2>1, <2>4 DEF Resume, Note, Ask, AskTimesOut, AskCancelled, TakeFirst, Live
  <2> QED
    BY <1>2, <2>2, <2>3, <2>4
<1>3. ASSUME tool[c] \in Live, NEW told, DispatchOver(c, told)
      PROVE  outcome'[c] = <<told>>
  <2>1. outcome[c] = <<>>
    BY <1>0, <1>3 DEF Observed, Live
  <2> QED
    BY <1>0, <1>3, <2>1 DEF DispatchOver
<1>4. CASE Return(c) \/ ToolPanics(c)
  <2>1. PICK told \in {"completed", "cancelled"} : DispatchOver(c, told)
    BY <1>4, CallsAssumption DEF Return, ToolPanics, OutcomeOf
  <2>2. tool[c] \in Live
    BY <1>4 DEF Return, ToolPanics, Live
  <2>3. outcome'[c] = <<told>>
    BY <1>3, <2>1, <2>2
  <2> QED
    BY <2>3 DEF Silent
<1>5. CASE Cancelled(c)
  <2>1. Polled(c)
    BY <1>5 DEF Cancelled
  <2>2. CASE stage[c] = "first"
    <3>1. PICK out : /\ AnswerFirst(c, None, out)
                     /\ out = IF tool[c] = "running" THEN outbox[c]
                              ELSE Append(outbox[c], Item("withdraw", Len(said[c])))
      BY <1>5, <2>2 DEF Cancelled
    <3>2. CASE out # <<>>
      <4>1. stage'[c] = "draining" /\ reply'[c] = None
        BY <1>0, <3>1, <3>2 DEF AnswerFirst, HeldTypeOK, SeqTypeOK
      <4> QED
        BY <4>1 DEF Silent
    <3>3. CASE out = <<>>
      <4>1. stage'[c] = "over" /\ wire'[c] = <<Item("status", 202)>>
        BY <1>0, <3>1, <3>3 DEF AnswerFirst, Single, HeldTypeOK, SeqTypeOK
      <4>2. tool[c] = "running" /\ outbox[c] = <<>>
        <5>1. Append(outbox[c], Item("withdraw", Len(said[c]))) # <<>>
          <6>1. Item("withdraw", Len(said[c])) \in Message /\ outbox[c] \in Seq(Message)
            BY <1>0, SaysTyped DEF SeqTypeOK
          <6> QED
            BY <6>1, AppendProperties
        <5> QED
          BY <3>1, <3>3, <5>1
      <4>3. said' = said
        BY <1>5, <4>2 DEF Cancelled
      <4>4. said[c] = <<>> \o (<<>> \o <<>>)
        BY <1>0, <2>2, <4>2 DEF Carried
      <4>5. said'[c] = <<>>
        BY <4>3, <4>4
      <4> QED
        BY <4>1, <4>5 DEF Silent
    <3> QED
      BY <3>2, <3>3
  <2>3. CASE stage[c] # "first"
    <3>1. AnswerStreaming(c, None)
      BY <1>5, <2>3 DEF Cancelled
    <3>2. stage'[c] = "draining" /\ reply'[c] = None
      BY <1>0, <3>1 DEF AnswerStreaming, HeldTypeOK, SeqTypeOK
    <3> QED
      BY <3>2 DEF Silent
  <2> QED
    BY <2>2, <2>3
<1>6. CASE StreamMessage(c)
  <2>1. stage[c] \in {"running", "draining"} /\ UNCHANGED <<guardVars, stage, reply, outcome>>
    BY <1>6 DEF StreamMessage
  <2> QED
    BY <2>1 DEF Silent
<1>7. CASE StreamReply(c)
  <2>1. /\ stage[c] = "draining" /\ sent[c] = <<>> /\ outbox[c] = <<>> /\ stage'[c] = "done"
        /\ outcome' = outcome /\ said' = said
    BY <1>0, <1>7 DEF StreamReply, HeldTypeOK
  <2>2. CASE reply[c] = None
    <3>1. wire' = wire
      BY <1>7, <2>2 DEF StreamReply
    <3>2. said[c] = wire[c] \o (<<>> \o <<>>) /\ said[c] # <<>> /\ wire[c] \in Seq(Sendable)
      BY <1>0, <2>1 DEF Carried, SeqTypeOK
    <3>3. said[c] = wire[c]
      BY <3>2, ConcatEmptySeq
    <3> QED
      BY <2>1, <3>1, <3>2, <3>3 DEF Silent
  <2>3. CASE reply[c] # None
    BY <2>1, <2>3 DEF Silent
  <2> QED
    BY <2>2, <2>3
<1>8. CASE StreamEnds(c)
  BY <1>8 DEF StreamEnds, callVars, Silent
<1>9. CASE BodyReleased(c)
  BY <1>0, <1>9 DEF BodyReleased, Silent, HeldTypeOK
<1>10. CASE Disconnect(c)
  <2>1. stage'[c] = "over" /\ UNCHANGED <<wire, said>>
    BY <1>0, <1>10 DEF Disconnect, HeldTypeOK
  <2>2. CASE tool[c] \in Live
    <3>1. DispatchOver(c, "cancelled")
      BY <1>10, <2>2 DEF Disconnect
    <3>2. outcome'[c] = <<"cancelled">>
      BY <1>3, <2>2, <3>1
    <3> QED
      BY <3>2 DEF Silent
  <2>3. CASE tool[c] \notin Live
    <3>1. outcome' = outcome
      BY <1>10, <2>3 DEF Disconnect
    <3>2. stage[c] \in {"auth", "draining", "done"}
      BY <1>0, <1>10, <2>3 DEF Disconnect, Dispatched
    <3>3. CASE stage[c] = "auth"
      BY <1>0, <1>1, <3>1, <3>3 DEF Dispatched
    <3>4. CASE stage[c] = "draining"
      <4>1. at[c] = "body" /\ open[c] /\ lines[c] = <<>>
        BY <1>0, <3>4 DEF Placed, GuardInv, Holder
      <4>2. DropBody(c)
        BY <1>10, <4>1 DEF Disconnect, DropHandler
      <4>3. lines' = [lines EXCEPT ![c] = Append(@, [line |-> "cut", status |-> 200])]
        BY <4>1, <4>2 DEF DropBody, Log
      <4>4. lines'[c] = <<[line |-> "cut", status |-> 200]>>
        BY <1>0, <4>1, <4>3 DEF GuardInv, GuardTypeOK
      <4>5. lines'[c][1].line # "completed"
        BY <4>4
      <4> QED
        BY <2>1, <4>5 DEF Silent
    <3>5. CASE stage[c] = "done"
      BY <2>1, <3>1, <3>5 DEF Silent
    <3> QED
      BY <3>2, <3>3, <3>4, <3>5
  <2> QED
    BY <2>2, <2>3
<1> QED
  BY <1>2, <1>4, <1>5, <1>6, <1>7, <1>8, <1>9, <1>10 DEF CallStep, Step, ToolStep

\* Questions stay settled while nothing more is said and none is left waiting.
LEMMA QuestionsKept ==
    ASSUME NEW c \in Calls, Questions(c), stage[c] # "over", said'[c] = said[c], by'[c] = by[c],
           tool[c] = "asking" => tool'[c] = "asking"
    PROVE  Questions(c)'
<1> SUFFICES ASSUME NEW i \in DOMAIN said[c], said[c][i].kind = "ask"
             PROVE  Settled(c, i)' \/ (i = Len(said[c]) /\ tool'[c] = "asking")
  BY DEF Questions
<1>1. Settled(c, i) \/ (i = Len(said[c]) /\ tool[c] = "asking")
  BY DEF Questions
<1>2. Settled(c, i)' <=> Settled(c, i)
  BY DEF Settled
<1> QED
  BY <1>1, <1>2

\* A message more: a withdrawal settles the question before it, and anything else
\* is said only when no question waits.
LEMMA QuestionsSaid ==
    ASSUME NEW c \in Calls, Questions(c), stage[c] # "over", said[c] \in Seq(Message),
           NEW kind \in {"note", "ask", "withdraw"}, NEW n \in Nat,
           said'[c] = Append(said[c], Item(kind, n)), by'[c] = by[c],
           kind # "withdraw" => tool[c] # "asking",
           kind = "ask" => tool'[c] = "asking"
    PROVE  Questions(c)'
<1>0. PICK msg : msg = Item(kind, n)
  OBVIOUS
<1>1. msg \in Message /\ msg.kind = kind
  BY <1>0 DEF Message, Item
<1>2. PICK old : old = said[c]
  OBVIOUS
<1>3. /\ old \in Seq(Message) /\ said'[c] = Append(old, msg)
      /\ DOMAIN old = 1 .. Len(old) /\ DOMAIN said'[c] = 1 .. Len(old) + 1
      /\ Len(said'[c]) = Len(old) + 1 /\ said'[c][Len(old) + 1] = msg
      /\ \A i \in 1 .. Len(old) : said'[c][i] = old[i]
  BY <1>0, <1>1, <1>2
<1> SUFFICES ASSUME NEW i \in 1 .. Len(old) + 1, said'[c][i].kind = "ask"
             PROVE  Settled(c, i)' \/ (i = Len(old) + 1 /\ tool'[c] = "asking")
  BY <1>3 DEF Questions
<1>4. CASE i = Len(old) + 1
  BY <1>1, <1>3, <1>4
<1>5. CASE i \in 1 .. Len(old)
  <2>1. old[i].kind = "ask"
    BY <1>3, <1>5
  <2>2. Settled(c, i) \/ (i = Len(old) /\ tool[c] = "asking")
    BY <1>2, <1>3, <1>5, <2>1 DEF Questions
  <2>3. CASE Settled(c, i)
    BY <1>2, <1>3, <1>5, <2>3 DEF Settled
  <2>4. CASE i = Len(old) /\ tool[c] = "asking"
    <3>1. kind = "withdraw"
      BY <2>4
    <3>2. i + 1 \in DOMAIN said'[c] /\ said'[c][i + 1].kind = "withdraw"
      BY <1>1, <1>3, <2>4, <3>1
    <3> QED
      BY <3>2 DEF Settled
  <2> QED
    BY <2>2, <2>3, <2>4
<1> QED
  BY <1>3, <1>4, <1>5

\* A step of call c leaves its questions settled.
LEMMA QuestionsStep ==
    ASSUME CallInv, CarriedInv, NEW c \in Calls, Questions(c), CallStep(c)
    PROVE  Questions(c)'
<1>0. /\ HeldTypeOK /\ SeqTypeOK /\ Placed(c) /\ Held(c) /\ Dispatched(c)
      /\ said \in [Calls -> Seq(Message)] /\ said[c] \in Seq(Message) /\ Len(said[c]) \in Nat
  BY DEF CallInv, HeldInv, ObservedInv, CallerInv, CarriedInv
<1>1. CASE AuthRefused(c) \/ SessionNotFound(c) \/ BodyReleased(c) \/ Disconnect(c)
  <2>1. stage'[c] = "over"
    BY <1>0, <1>1 DEF AuthRefused, SessionNotFound, Refused, Single, BodyReleased, Disconnect,
                      HeldTypeOK
  <2> QED
    BY <2>1 DEF Questions
<1>2. CASE \/ Arrive(c) \/ Admit(c) \/ Resume(c) \/ Return(c) \/ ToolPanics(c)
           \/ TakeFirst(c) \/ StreamMessage(c) \/ StreamReply(c) \/ StreamEnds(c)
  <2>1. said' = said /\ by' = by
    BY <1>2 DEF Arrive, Admit, Resume, Return, ToolPanics, TakeFirst, StreamMessage,
                StreamReply, StreamEnds, callVars
  <2>2. stage[c] # "over"
    BY <1>0, <1>2 DEF Arrive, Start, Placed, Admit, Resume, Return, ToolPanics, TakeFirst,
                      Polled, StreamMessage, StreamReply, StreamEnds
  <2>3. tool[c] # "asking" \/ tool' = tool
    <3>1. CASE Admit(c)
      BY <1>0, <3>1 DEF Admit, Dispatched
    <3> QED
      BY <1>2, <3>1 DEF Arrive, Resume, Return, ToolPanics, TakeFirst, StreamMessage, StreamReply,
                        StreamEnds, callVars
  <2> QED
    BY <2>1, <2>2, <2>3, QuestionsKept
<1>3. ASSUME NEW kind \in {"note", "ask", "withdraw"}, Says(c, kind)
      PROVE  said'[c] = Append(said[c], Item(kind, Len(said[c])))
  BY <1>0, <1>3 DEF Says
<1>4. CASE Note(c)
  <2>1. Says(c, "note") /\ by' = by /\ tool[c] = "running" /\ stage[c] # "over"
    BY <1>4 DEF Note, Polled
  <2>2. said'[c] = Append(said[c], Item("note", Len(said[c])))
    BY <1>3, <2>1
  <2> QED
    BY <1>0, <2>1, <2>2, QuestionsSaid
<1>5. CASE Ask(c)
  <2>1. /\ Says(c, "ask") /\ by' = by /\ tool[c] = "running" /\ stage[c] # "over"
        /\ tool'[c] = "asking"
    BY <1>0, <1>5 DEF Ask, Polled, HeldTypeOK
  <2>2. said'[c] = Append(said[c], Item("ask", Len(said[c])))
    BY <1>3, <2>1
  <2> QED
    BY <1>0, <2>1, <2>2, QuestionsSaid
<1>6. CASE AskTimesOut(c) \/ AskCancelled(c)
  <2>1. Says(c, "withdraw") /\ by' = by /\ stage[c] # "over"
    BY <1>6 DEF AskTimesOut, AskCancelled, GiveUp, Withdraw, Polled
  <2>2. said'[c] = Append(said[c], Item("withdraw", Len(said[c])))
    BY <1>3, <2>1
  <2> QED
    BY <1>0, <2>1, <2>2, QuestionsSaid
<1>7. CASE Cancelled(c)
  <2>1. by' = by /\ stage[c] # "over"
    BY <1>7 DEF Cancelled, Polled
  <2>2. CASE tool[c] = "running"
    <3>1. said' = said
      BY <1>7, <2>2 DEF Cancelled
    <3> QED
      BY <2>1, <2>2, <3>1, QuestionsKept
  <2>3. CASE tool[c] # "running"
    <3>1. said' = [said EXCEPT ![c] = Append(@, Item("withdraw", Len(said[c])))]
      BY <1>7, <2>3 DEF Cancelled
    <3>2. said'[c] = Append(said[c], Item("withdraw", Len(said[c])))
      BY <1>0, <3>1
    <3> QED
      BY <1>0, <2>1, <3>2, QuestionsSaid
  <2> QED
    BY <2>2, <2>3
<1> QED
  BY <1>1, <1>2, <1>4, <1>5, <1>6, <1>7 DEF CallStep, Step, ToolStep

\* An answer settles the question that waits for it, and no step of the clients
\* unsettles one.
LEMMA QuestionsOfOthers ==
    ASSUME CallInv, CarriedInv, NEW d \in Calls, Questions(d),
           \/ \E k \in Clients, c \in Calls : CancelNotice(k, c.id) \/ Deliver(k, c)
           \/ \E s \in Sessions : EndSession(s)
           \/ \E r \in Rest : RestStep(r)
           \/ UNCHANGED vars
    PROVE  Questions(d)'
<1>0. /\ HeldTypeOK /\ Held(d) /\ by \in [Calls -> SUBSET (Clients \X Nat)]
      /\ said[d] \in Seq(Message)
  BY DEF CallInv, HeldInv, CallerInv
<1>1. ASSUME UNCHANGED <<stage, said, tool>>, by[d] \subseteq by'[d] PROVE Questions(d)'
  BY <1>1 DEF Questions, Settled
<1>2. ASSUME NEW k \in Clients, NEW c \in Calls, CancelNotice(k, c.id) PROVE Questions(d)'
  <2>1. UNCHANGED <<stage, said, tool>> /\ by[d] \subseteq by'[d]
    BY <1>2 DEF CancelNotice
  <2> QED
    BY <1>1, <2>1
<1>3. ASSUME NEW k \in Clients, NEW c \in Calls, Deliver(k, c) PROVE Questions(d)'
  <2>1. /\ UNCHANGED <<stage, said>> /\ tool' = [tool EXCEPT ![c] = "told"]
        /\ by' = [by EXCEPT ![c] = @ \cup {<<k, Len(said[c])>>}]
    BY <1>3 DEF Deliver
  <2>2. by[d] \subseteq by'[d]
    BY <1>0, <2>1
  <2>3. CASE d # c
    <3>1. tool'[d] = tool[d]
      BY <1>0, <2>1, <2>3 DEF HeldTypeOK
    <3> QED
      BY <2>1, <2>2, <3>1 DEF Questions, Settled
  <2>4. CASE d = c
    <3>1. <<k, Len(said[d])>> \in by'[d]
      BY <1>0, <2>1, <2>4
    <3> SUFFICES ASSUME stage[d] # "over", NEW i \in DOMAIN said[d], said[d][i].kind = "ask"
                 PROVE  Settled(d, i)'
      BY <2>1 DEF Questions
    <3>2. Settled(d, i) \/ i = Len(said[d])
      BY DEF Questions
    <3> QED
      BY <2>1, <2>2, <3>1, <3>2 DEF Settled
  <2> QED
    BY <2>3, <2>4
<1>4. ASSUME NEW s \in Sessions, EndSession(s) PROVE Questions(d)'
  BY <1>1, <1>4 DEF EndSession
<1>5. ASSUME NEW r \in Rest, RestStep(r) PROVE Questions(d)'
  BY <1>1, <1>5 DEF RestStep, callVars
<1>6. CASE UNCHANGED vars
  BY <1>1, <1>6 DEF vars, callVars
<1> QED
  BY <1>2, <1>3, <1>4, <1>5, <1>6

\* Every step of the system keeps every call silent or answered as it has to be.
LEMMA ToldStep == CallInv /\ CarriedInv /\ ToldInv /\ [Next]_vars => ToldInv'
<1> SUFFICES ASSUME CallInv, CarriedInv, ToldInv, [Next]_vars PROVE ToldInv'
  OBVIOUS
<1>1. ASSUME NEW c \in Calls, CallStep(c) PROVE ToldInv'
  <2>1. Alone(c)
    BY <1>1, CallAlone DEF CarriedInv
  <2>2. Silent(c)' /\ Questions(c)'
    BY <1>1, SilentStep, QuestionsStep DEF ToldInv
  <2>3. ASSUME NEW d \in Calls \ {c} PROVE Silent(d)' /\ Questions(d)'
    <3>1. Silent(d) /\ Questions(d)
      BY DEF ToldInv
    <3>2. Silent(d)'
      BY <2>1, <3>1 DEF Silent, Alone
    <3>3. Questions(d)'
      BY <2>1, <3>1 DEF Questions, Settled, Alone
    <3> QED
      BY <3>2, <3>3
  <2> QED
    BY <2>2, <2>3 DEF ToldInv
<1>2. ASSUME ~ \E c \in Calls : CallStep(c) PROVE ToldInv'
  <2>1. /\ UNCHANGED <<stage, reply, outbox, sent, wire, outcome, said>>
        /\ \A c \in Calls : lines'[c] = lines[c]
    BY <1>2, StepKinds
  <2>2. \/ \E k \in Clients, c \in Calls : CancelNotice(k, c.id) \/ Deliver(k, c)
        \/ \E s \in Sessions : EndSession(s)
        \/ \E r \in Rest : RestStep(r)
        \/ UNCHANGED vars
    BY <1>2 DEF Next, CallStep
  <2>3. ASSUME NEW d \in Calls PROVE Silent(d)' /\ Questions(d)'
    <3>1. Silent(d) /\ Questions(d)
      BY DEF ToldInv
    <3>2. Silent(d)'
      BY <2>1, <3>1 DEF Silent
    <3>3. Questions(d)'
      BY <2>2, <3>1, QuestionsOfOthers
    <3> QED
      BY <3>2, <3>3
  <2> QED
    BY <2>3 DEF ToldInv
<1> QED
  BY <1>1, <1>2

\* Only sessions are ended, and only by a DELETE.
LEMMA EndedSessions == Spec => [](ended \subseteq Sessions)
<1>1. ended \subseteq Sessions /\ [Next]_vars => (ended \subseteq Sessions)'
  <2>0. SUFFICES ASSUME ended \subseteq Sessions, [Next]_vars PROVE ended' \subseteq Sessions
    OBVIOUS
  <2>1. ASSUME NEW c \in Calls, CallStep(c) PROVE ended' = ended
    BY <2>1 DEF CallStep, Step, ToolStep, Arrive, AuthRefused, SessionNotFound, Refused, Admit,
                Resume, Cancelled, TakeFirst, StreamMessage, StreamReply, StreamEnds, callVars,
                BodyReleased, Note, Ask, AskTimesOut, AskCancelled, GiveUp, Return, ToolPanics,
                Disconnect
  <2>2. ASSUME NEW k \in Clients, NEW c \in Calls, CancelNotice(k, c.id) \/ Deliver(k, c)
        PROVE  ended' = ended
    BY <2>2 DEF CancelNotice, Deliver
  <2>3. ASSUME NEW s \in Sessions, EndSession(s) PROVE ended' \subseteq Sessions
    BY <2>0, <2>3 DEF EndSession
  <2>4. ASSUME NEW r \in Rest, RestStep(r) PROVE ended' = ended
    BY <2>4 DEF RestStep, callVars
  <2>5. CASE UNCHANGED vars
    BY <2>0, <2>5 DEF vars, callVars
  <2> QED
    BY <2>0, <2>1, <2>2, <2>3, <2>4, <2>5 DEF Next, CallStep
<1>2. Init => ended \subseteq Sessions
  BY DEF Init
<1> QED
  BY <1>1, <1>2, PTL DEF Spec

\* A client reads what its call said in the order it was said and the response last;
\* a call it cancelled has no response, and a stream read to its end leaves no
\* question open: for any calls, any number of messages, and every interleaving
\* of the tool, the stream, the clients and the connections (answer_call,
\* CallStream::next, Waiting::drop).
THEOREM ClientsAreToldInOrder == Spec => []ToldInOrder
<1>1. Init => ToldInv
  BY DEF Init, ToldInv, Silent, Questions
<1>2. Spec => [](CallInv /\ CarriedInv /\ ToldInv)
  BY <1>1, CarriedInvariant, ToldStep, PTL DEF Spec
<1>3. CallInv /\ CarriedInv /\ ToldInv /\ ended \subseteq Sessions => ToldInOrder
  <2> SUFFICES ASSUME CallInv, CarriedInv, ToldInv, ended \subseteq Sessions PROVE ToldInOrder
    OBVIOUS
  <2>1. ResponseIsLast
    BY CarriedIsDelivered DEF ResponseIsLast, Delivered
  <2>2. CancelledIsSilent
    <3> SUFFICES ASSUME NEW c \in Calls, outcome[c] = <<"notification_accepted">>,
                        lines[c] # <<>>, lines[c][1].line = "completed"
                 PROVE  wire[c] = IF said[c] = <<>> THEN <<Item("status", 202)>> ELSE said[c]
      BY DEF CancelledIsSilent
    <3>1. /\ Silent(c) /\ Placed(c) /\ Dispatched(c) /\ Observed(c) /\ Holder(c)
          /\ HeldTypeOK
      BY CallsAssumption DEF ToldInv, CarriedInv, CallInv, HeldInv, GuardInv, ObservedInv
    <3>2. CASE stage[c] \in {"done", "over"}
      BY <3>1, <3>2 DEF Silent
    <3>3. CASE stage[c] \notin {"done", "over"}
      <4>1. open[c] \/ at[c] = "idle"
        BY <3>1, <3>3 DEF Placed, Holder, HeldTypeOK, Stages
      <4> QED
        BY <3>1, <4>1 DEF Holder
    <3> QED
      BY <3>2, <3>3
  <2>3. NoStaleQuestion
    <3> SUFFICES ASSUME NEW c \in Calls, stage[c] = "done", NEW i \in DOMAIN wire[c],
                        wire[c][i].kind = "ask"
                 PROVE  \/ \E k \in Clients : <<k, i>> \in by[c]
                        \/ i + 1 \in DOMAIN wire[c] /\ wire[c][i + 1].kind = "withdraw"
      BY DEF NoStaleQuestion
    <3>1. Carried(c) /\ Questions(c) /\ tool[c] # "asking" /\ said[c] \in Seq(Message)
      BY DEF ToldInv, CarriedInv, CallInv, ObservedInv, Dispatched, CallerInv
    <3>2. ASSUME i \in DOMAIN said[c], said[c][i].kind = "ask"
          PROVE  Settled(c, i)
      BY <3>1, <3>2 DEF Questions
    <3>3. CASE wire[c] = said[c]
      BY <3>2, <3>3 DEF Settled
    <3>4. ASSUME NEW response \in Reply, wire[c] = Append(said[c], Item(response, 0))
          PROVE  \/ \E k \in Clients : <<k, i>> \in by[c]
                 \/ i + 1 \in DOMAIN wire[c] /\ wire[c][i + 1].kind = "withdraw"
      <4>1. PICK item : item = Item(response, 0)
        OBVIOUS
      <4>2. item.kind # "ask"
        BY <4>1 DEF Item, Reply
      <4>3. PICK old : old = said[c]
        OBVIOUS
      <4>4. /\ DOMAIN old = 1 .. Len(old) /\ DOMAIN wire[c] = 1 .. Len(old) + 1
            /\ wire[c][Len(old) + 1] = item /\ \A j \in 1 .. Len(old) : wire[c][j] = old[j]
            /\ Len(old) \in Nat
        <5>1. old \in Seq(Message)
          BY <3>1, <4>3
        <5>2. wire[c] = Append(old, item)
          BY <3>4, <4>1, <4>3
        <5> QED
          BY <5>1, <5>2
      <4>5. i \in DOMAIN old /\ old[i].kind = "ask"
        BY <4>2, <4>4
      <4>6. Settled(c, i)
        BY <3>2, <4>3, <4>5
      <4>7. CASE i + 1 \in DOMAIN old /\ old[i + 1].kind = "withdraw"
        BY <4>4, <4>7
      <4> QED
        BY <4>3, <4>6, <4>7 DEF Settled
    <3> QED
      BY <3>1, <3>3, <3>4 DEF Carried
  <2>4. TypeOK
    BY DEF TypeOK, CallInv, HeldInv, HeldTypeOK, Stages, GuardInv, ObservedInv, Outcomes,
           CallerInv, CarriedInv, SeqTypeOK, Sendable
  <2> QED
    BY <2>1, <2>2, <2>3, <2>4 DEF ToldInOrder
<1> QED
  BY <1>2, <1>3, EndedSessions, PTL
=============================================================================
