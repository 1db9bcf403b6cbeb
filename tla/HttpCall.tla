------------------------------ MODULE HttpCall ------------------------------
(***************************************************************************)
(* A call served over HTTP, from `serve_request` of transport/http.rs to   *)
(* the end of its answer, under the request guard.  The call, its client's *)
(* cancellation, a deleted session, the answers of the clients to requests *)
(* of the server's own, and the connection all race; `answer_call` settles *)
(* on one JSON answer or on an event stream by what comes first.           *)
(*                                                                         *)
(* A call is a record: the client that sent it, its JSON-RPC id, whether   *)
(* the client takes a stream (`stream`) and a single answer as an event    *)
(* (`event`), and how much its tool says (`notes`) and asks (`asks`)       *)
(* before it answers.  A client is a record of what the auth hook resolves *)
(* for it and of the channel it uses: user, tenant, credential, session.   *)
(* Requests the gates refuse are HttpGate's; an `initialize` is            *)
(* SessionStore's.                                                         *)
(***************************************************************************)
EXTENDS RequestGuard, SequencesExt, FiniteSets

CONSTANTS Clients, Calls, Rest, None
ASSUME CallsAssumption ==
    /\ Requests = Calls \cup Rest /\ Calls \cap Rest = {}
    /\ \A c \in Calls : c.client \in Clients /\ c.event \in BOOLEAN
    /\ None \notin {"result", "failed"}

VARIABLES stage,         \* how far answer_call, and then the CallStream, is
          tool,          \* the dispatch of the call: its future
          reply,         \* the response Phase::Draining holds
          outbox, sent,  \* the call's channel, and what was taken off it
          wire,          \* what the client has been sent
          token,         \* the calls whose CancellationToken has fired
          registered,    \* the InFlightRequests table: calls by key and id
          pending,       \* the PendingRequests table: the calls waiting in it
          busy,          \* the calls that hold their session's SessionUse
          ended,         \* sessions ended by DELETE
          outcome,       \* what the observer was told of each call
          said, by       \* history: what the tool sent; who reached the call,
                         \*   with the place in `said` of the question answered

callVars == <<stage, tool, reply, outbox, sent, wire, token, registered,
              pending, busy, ended, outcome, said, by>>
vars == <<guardVars, callVars>>

Sessions == {c.client.session : c \in Calls} \ {None}
Message == [kind : {"note", "ask", "withdraw"}, n : Nat]
Reply == {"result", "failed"}
Item(kind, n) == [kind |-> kind, n |-> n]  \* what goes out: a message, a reply, a status
Live == {"running", "asking", "told"}      \* "told": asking, its answer is in

TypeOK ==
    /\ GuardTypeOK
    /\ stage \in [Calls -> {"idle", "auth", "first", "running", "draining", "done", "over"}]
    /\ tool \in [Calls -> {"none", "over"} \cup Live]
    /\ reply \in [Calls -> Reply \cup {None}]
    /\ outbox \in [Calls -> Seq(Message)] /\ sent \in [Calls -> Seq(Message)]
    /\ said \in [Calls -> Seq(Message)]
    /\ wire \in [Calls -> Seq(Message \cup [kind : Reply, n : {0}]
                                         \cup [kind : {"status"}, n : Statuses])]
    /\ token \subseteq Calls /\ registered \subseteq Calls
    /\ pending \subseteq Calls /\ busy \subseteq Calls
    /\ ended \subseteq Sessions
    /\ outcome \in [Calls -> Seq({"completed", "notification_accepted", "cancelled"})]
    /\ by \in [Calls -> SUBSET (Clients \X Nat)]

Init ==
    /\ GuardInit
    /\ stage = [c \in Calls |-> "idle"]
    /\ tool = [c \in Calls |-> "none"]
    /\ reply = [c \in Calls |-> None]
    /\ outbox = [c \in Calls |-> <<>>] /\ sent = outbox
    /\ wire = [c \in Calls |-> <<>>] /\ said = wire
    /\ token = {} /\ registered = {} /\ pending = {} /\ busy = {} /\ ended = {}
    /\ outcome = [c \in Calls |-> <<>>]
    /\ by = [c \in Calls |-> {}]
-----------------------------------------------------------------------------
(* Who a message is from: CallerKey::http.                                 *)

CallerKey(k) ==
    [user |-> k.user, tenant |-> k.tenant,
     channel |-> IF k.session # None THEN <<"session", k.session>>
                 ELSE <<"sessionless", k.credential>>]

\* Mutant: a sessionless caller with no principal passes for one caller.
AnyoneTold(key) == TRUE

TellsCallersApart(key) ==
    key.channel[1] # "sessionless" \/ key.user # None \/ key.tenant # None

Key(c) == CallerKey(c.client)
-----------------------------------------------------------------------------
(* Arrival and authentication.                                             *)

Arrive(c) ==
    /\ Start(c)
    /\ stage' = [stage EXCEPT ![c] = "auth"]
    /\ UNCHANGED <<tool, reply, outbox, sent, wire, token, registered, pending, busy,
                   ended, outcome, said, by>>

\* The request is answered in one piece: a refusal, or render_response.
Single(c, status, body, event) ==
    /\ wire' = [wire EXCEPT ![c] = <<body>>]
    /\ stage' = [stage EXCEPT ![c] = IF event THEN "done" ELSE "over"]
    /\ Respond(c, status, event)

Refused(c, status) ==
    /\ stage[c] = "auth"
    /\ Single(c, status, Item("status", status), FALSE)
    /\ UNCHANGED <<tool, reply, outbox, sent, token, registered, pending, busy, ended,
                   outcome, said, by>>

AuthRefused(c) == Refused(c, 401)

\* The session, looked up once the hook has answered, is gone.
SessionNotFound(c) == c.client.session \in ended /\ Refused(c, 404)

\* The hook admits the caller: its session is entered, the observer told, the
\* request registered under its key, and the tool starts.
Admit(c) ==
    /\ stage[c] = "auth" /\ c.client.session \notin ended
    /\ stage' = [stage EXCEPT ![c] = "first"]
    /\ tool' = [tool EXCEPT ![c] = "running"]
    /\ registered' = IF TellsCallersApart(Key(c)) THEN registered \cup {c} ELSE registered
    /\ busy' = IF c.client.session = None THEN busy ELSE busy \cup {c}
    /\ UNCHANGED <<guardVars, reply, outbox, sent, wire, token, pending, ended, outcome, said, by>>
-----------------------------------------------------------------------------
(* The tool. It runs when its future is polled: by answer_call's select,   *)
(* or by a CallStream that has nothing left to send.                       *)

Polled(c) == stage[c] = "first" \/ (stage[c] = "running" /\ sent[c] = <<>>)

Says(c, kind) ==
    LET msg == Item(kind, Len(said[c]))
    IN  /\ outbox' = [outbox EXCEPT ![c] = Append(@, msg)]
        /\ said' = [said EXCEPT ![c] = Append(@, msg)]

Count(c, kind) == Len(SelectSeq(said[c], LAMBDA msg : msg.kind = kind))

\* Progress or a log message; without a stream to carry it, it is dropped.
Note(c) ==
    /\ tool[c] = "running" /\ Polled(c) /\ c.stream
    /\ Count(c, "note") < c.notes
    /\ Says(c, "note")
    /\ UNCHANGED <<guardVars, stage, tool, reply, sent, wire, token, registered, pending,
                   busy, ended, outcome, by>>

\* ClientChannel::request, past its checks: capabilities are declared on a session.
Ask(c) ==
    /\ tool[c] = "running" /\ Polled(c) /\ c.stream /\ c.client.session # None
    /\ Count(c, "ask") < c.asks
    /\ tool' = [tool EXCEPT ![c] = "asking"]
    /\ pending' = pending \cup {c}
    /\ Says(c, "ask")
    /\ UNCHANGED <<guardVars, stage, reply, sent, wire, token, registered, busy, ended, outcome, by>>

\* The answer is read, unless the token fires first.
Resume(c) ==
    /\ tool[c] = "told" /\ Polled(c) /\ c \notin token
    /\ tool' = [tool EXCEPT ![c] = "running"]
    /\ UNCHANGED <<guardVars, stage, reply, outbox, sent, wire, token, registered, pending,
                   busy, ended, outcome, said, by>>

\* Waiting::drop of a request not settled: forgotten, and the client told.
Withdraw(c) == pending' = pending \ {c} /\ Says(c, "withdraw")

GiveUp(c) ==
    /\ Polled(c)
    /\ tool' = [tool EXCEPT ![c] = "running"]
    /\ Withdraw(c)
    /\ UNCHANGED <<guardVars, stage, reply, sent, wire, token, registered, busy, ended, outcome, by>>

\* Abandoned::TimedOut; and Abandoned::Cancelled, when the token fires between
\* the dispatch's look at it and the request's.
AskTimesOut(c) == tool[c] = "asking" /\ c \notin token /\ GiveUp(c)
AskCancelled(c) == tool[c] \in {"asking", "told"} /\ c \in token /\ GiveUp(c)

\* Mutant: Pending::complete does not mark the operation completed.
CompletedTwice(c, told) ==
    /\ tool' = [tool EXCEPT ![c] = "over"]
    /\ registered' = registered \ {c}
    /\ outcome' = [outcome EXCEPT ![c] = @ \o <<told, "cancelled">>]

\* The dispatch future is over: unregistered, and the observer told. `told` is
\* OperationOutcome::of what it came to, or the Cancelled of Pending::drop.
DispatchOver(c, told) ==
    /\ tool' = [tool EXCEPT ![c] = "over"]
    /\ registered' = registered \ {c}
    /\ outcome' = [outcome EXCEPT ![c] = Append(@, told)]

OutcomeOf(response) == IF response = None THEN "notification_accepted" ELSE "completed"

\* answer_call's first branch: `out` is what the call has sent by now. Nothing
\* sent is one answer, 202 for a call that was cancelled; otherwise a stream.
AnswerFirst(c, response, out) ==
    IF out = <<>>
    THEN /\ IF response = None THEN Single(c, 202, Item("status", 202), FALSE)
            ELSE Single(c, 200, Item(response, 0), c.event)
         /\ busy' = busy \ {c}
         /\ UNCHANGED <<reply, sent>>
    ELSE /\ stage' = [stage EXCEPT ![c] = "draining"]
         /\ reply' = [reply EXCEPT ![c] = response]
         /\ sent' = [sent EXCEPT ![c] = out]
         /\ Respond(c, 200, TRUE)
         /\ UNCHANGED <<wire, busy>>

AnswerStreaming(c, response) ==
    /\ stage' = [stage EXCEPT ![c] = "draining"]
    /\ reply' = [reply EXCEPT ![c] = response]
    /\ UNCHANGED <<guardVars, sent, wire, busy>>

\* The tool returns; its poll may have begun before the token fired.
Return(c) ==
    /\ tool[c] = "running" /\ Polled(c)
    /\ DispatchOver(c, OutcomeOf("result"))
    /\ IF stage[c] = "first"
       THEN AnswerFirst(c, "result", outbox[c]) /\ outbox' = [outbox EXCEPT ![c] = <<>>]
       ELSE AnswerStreaming(c, "result") /\ UNCHANGED outbox
    /\ UNCHANGED <<token, pending, ended, said, by>>

\* Mutant: the token is only looked at until the answer has begun.
CancelledBeforeStream(c) ==
    /\ tool[c] \in Live /\ stage[c] = "first" /\ c \in token
    /\ DispatchOver(c, OutcomeOf(None))
    /\ AnswerFirst(c, None, outbox[c])
    /\ outbox' = [outbox EXCEPT ![c] = <<>>]
    /\ pending' = pending \ {c}
    /\ UNCHANGED <<token, ended, said, by>>

\* The dispatch sees its token fired and drops the tool: no response.
Cancelled(c) ==
    /\ tool[c] \in Live /\ Polled(c) /\ c \in token
    /\ DispatchOver(c, OutcomeOf(None))
    /\ LET notice == Item("withdraw", Len(said[c]))
           out == IF tool[c] = "running" THEN outbox[c] ELSE Append(outbox[c], notice)
       IN  /\ IF stage[c] = "first"
              THEN AnswerFirst(c, None, out) /\ outbox' = [outbox EXCEPT ![c] = <<>>]
              ELSE AnswerStreaming(c, None) /\ outbox' = [outbox EXCEPT ![c] = out]
           /\ said' = IF tool[c] = "running" THEN said
                      ELSE [said EXCEPT ![c] = Append(@, notice)]
    /\ pending' = pending \ {c}
    /\ UNCHANGED <<token, ended, by>>

\* A panic before the answer began unwinds to the request guard; after, it is
\* caught and answered on the stream. Either way the dispatch is dropped, its
\* drop guard firing the token.
ToolPanics(c) ==
    /\ tool[c] = "running" /\ Polled(c)
    /\ DispatchOver(c, "cancelled")
    /\ token' = token \cup {c}
    /\ IF stage[c] = "first"
       THEN /\ Panic(c)
            /\ stage' = [stage EXCEPT ![c] = "over"]
            /\ wire' = [wire EXCEPT ![c] = <<Item("status", 500)>>]
            /\ busy' = busy \ {c}
            /\ outbox' = [outbox EXCEPT ![c] = <<>>]
            /\ UNCHANGED <<reply, sent>>
       ELSE AnswerStreaming(c, "failed") /\ UNCHANGED outbox
    /\ UNCHANGED <<pending, ended, said, by>>
-----------------------------------------------------------------------------
(* The stream.                                                             *)

\* answer_call's second branch: a message came before the response.
TakeFirst(c) ==
    /\ stage[c] = "first" /\ tool[c] \in Live /\ outbox[c] # <<>>
    /\ stage' = [stage EXCEPT ![c] = "running"]
    /\ sent' = [sent EXCEPT ![c] = <<Head(outbox[c])>>]
    /\ outbox' = [outbox EXCEPT ![c] = Tail(@)]
    /\ Respond(c, 200, TRUE)
    /\ UNCHANGED <<tool, reply, wire, token, registered, pending, busy, ended, outcome, said, by>>

\* CallStream::next: what was taken off the outbox, then what is on it.
StreamMessage(c) ==
    /\ stage[c] \in {"running", "draining"}
    /\ \/ /\ sent[c] # <<>>
          /\ wire' = [wire EXCEPT ![c] = Append(@, Head(sent[c]))]
          /\ sent' = [sent EXCEPT ![c] = Tail(@)]
          /\ UNCHANGED outbox
       \/ /\ sent[c] = <<>> /\ outbox[c] # <<>>
          /\ wire' = [wire EXCEPT ![c] = Append(@, Head(outbox[c]))]
          /\ outbox' = [outbox EXCEPT ![c] = Tail(@)]
          /\ UNCHANGED sent
    /\ UNCHANGED <<guardVars, stage, tool, reply, token, registered, pending, busy, ended,
                   outcome, said, by>>

\* Mutant: the response overtakes what is still queued.
ReplyBeforeQueue(c) ==
    /\ stage[c] = "draining" /\ sent[c] = <<>>
    /\ stage' = [stage EXCEPT ![c] = "done"]
    /\ busy' = busy \ {c}
    /\ reply' = [reply EXCEPT ![c] = None]
    /\ IF reply[c] = None
       THEN BodyEnds(c) /\ UNCHANGED wire
       ELSE wire' = [wire EXCEPT ![c] = Append(@, Item(reply[c], 0))] /\ UNCHANGED guardVars
    /\ UNCHANGED <<tool, outbox, sent, token, registered, pending, ended, outcome, said, by>>

\* Mutant: the SessionUse stays with the stream.
ReplyKeepsBusy(c) ==
    /\ stage[c] = "draining" /\ sent[c] = <<>> /\ outbox[c] = <<>>
    /\ stage' = [stage EXCEPT ![c] = "done"]
    /\ UNCHANGED busy
    /\ reply' = [reply EXCEPT ![c] = None]
    /\ IF reply[c] = None
       THEN BodyEnds(c) /\ UNCHANGED wire
       ELSE wire' = [wire EXCEPT ![c] = Append(@, Item(reply[c], 0))] /\ UNCHANGED guardVars
    /\ UNCHANGED <<tool, outbox, sent, token, registered, pending, ended, outcome, said, by>>

\* The response goes out, or the stream of a cancelled call just ends.
StreamReply(c) ==
    /\ stage[c] = "draining" /\ sent[c] = <<>> /\ outbox[c] = <<>>
    /\ stage' = [stage EXCEPT ![c] = "done"]
    /\ busy' = busy \ {c}
    /\ reply' = [reply EXCEPT ![c] = None]
    /\ IF reply[c] = None
       THEN BodyEnds(c) /\ UNCHANGED wire
       ELSE wire' = [wire EXCEPT ![c] = Append(@, Item(reply[c], 0))] /\ UNCHANGED guardVars
    /\ UNCHANGED <<tool, outbox, sent, token, registered, pending, ended, outcome, said, by>>

StreamEnds(c) ==
    /\ stage[c] = "done"
    /\ BodyEnds(c)
    /\ UNCHANGED callVars

\* hyper is through with the body.
BodyReleased(c) ==
    /\ stage[c] = "done" /\ ~open[c]
    /\ DropBody(c)
    /\ stage' = [stage EXCEPT ![c] = "over"]
    /\ UNCHANGED <<tool, reply, outbox, sent, wire, token, registered, pending, busy, ended,
                   outcome, said, by>>

\* The connection closes: handler or body is dropped, the dispatch with it, and
\* a dispatch that had not answered fires its token as it goes.
Disconnect(c) ==
    /\ stage[c] \in {"auth", "first", "running", "draining", "done"}
    /\ stage' = [stage EXCEPT ![c] = "over"]
    /\ DropHandler(c) \/ DropBody(c)
    /\ IF tool[c] \in Live
       THEN DispatchOver(c, "cancelled") /\ token' = token \cup {c}
       ELSE UNCHANGED <<tool, registered, outcome, token>>
    /\ pending' = pending \ {c}
    /\ busy' = busy \ {c}
    /\ outbox' = [outbox EXCEPT ![c] = <<>>]
    /\ sent' = [sent EXCEPT ![c] = <<>>]
    /\ reply' = [reply EXCEPT ![c] = None]
    /\ UNCHANGED <<wire, ended, said, by>>
-----------------------------------------------------------------------------
(* The other requests of the clients.                                      *)

\* InFlightRequests::cancel: every request under the key and the id.
Reached(k, id) ==
    {c \in registered : TellsCallersApart(CallerKey(k)) /\ Key(c) = CallerKey(k) /\ c.id = id}

\* notifications/cancelled from client k.
CancelNotice(k, id) ==
    /\ k.session \notin ended
    /\ Reached(k, id) \ token # {}
    /\ token' = token \cup Reached(k, id)
    /\ by' = [c \in Calls |-> IF c \in Reached(k, id) THEN by[c] \cup {<<k, 0>>} ELSE by[c]]
    /\ UNCHANGED <<guardVars, stage, tool, reply, outbox, sent, wire, registered, pending,
                   busy, ended, outcome, said>>

\* PendingRequests::deliver: client k posts a response to the request call c sent.
Deliver(k, c) ==
    /\ k.session \notin ended
    /\ c \in pending /\ Key(c) = CallerKey(k)
    /\ pending' = pending \ {c}
    /\ tool' = [tool EXCEPT ![c] = "told"]
    /\ by' = [by EXCEPT ![c] = @ \cup {<<k, Len(said[c])>>}]
    /\ UNCHANGED <<guardVars, stage, reply, outbox, sent, wire, token, registered, busy,
                   ended, outcome, said>>

\* DELETE of the session: the tokens of its calls are children of its own.
EndSession(s) ==
    /\ s \in Sessions \ ended
    /\ ended' = ended \cup {s}
    /\ token' = token \cup {c \in Calls : tool[c] \in Live /\ c.client.session = s}
    /\ UNCHANGED <<guardVars, stage, tool, reply, outbox, sent, wire, registered, pending,
                   busy, outcome, said, by>>
-----------------------------------------------------------------------------
\* A one-shot route of the host's own, under the guard and the deadline.
RestStep(r) ==
    /\ \/ Start(r) \/ Respond(r, 200, FALSE) \/ Panic(r) \/ Deadline(r) \/ DropHandler(r)
    /\ UNCHANGED callVars

Step(c) ==
    \/ Admit(c) \/ Resume(c) \/ Cancelled(c) \/ TakeFirst(c) \/ StreamMessage(c)
    \/ StreamReply(c) \/ StreamEnds(c) \/ BodyReleased(c)

ToolStep(c) ==
    \/ Note(c) \/ Ask(c) \/ AskTimesOut(c) \/ AskCancelled(c) \/ Return(c) \/ ToolPanics(c)

Next ==
    \/ \E c \in Calls : \/ Arrive(c) \/ AuthRefused(c) \/ SessionNotFound(c)
                        \/ Step(c) \/ ToolStep(c) \/ Disconnect(c)
    \/ \E k \in Clients, c \in Calls : CancelNotice(k, c.id) \/ Deliver(k, c)
    \/ \E s \in Sessions : EndSession(s)
    \/ \E r \in Rest : RestStep(r)

Spec == Init /\ [][Next]_vars

\* The runtime polls what can go on and the timer fires; nothing makes a tool
\* return, a client answer or a connection close.
FairSpec ==
    Spec /\ \A c \in Calls : WF_vars(Step(c)) /\ WF_vars(AskTimesOut(c))
-----------------------------------------------------------------------------
(* Properties.                                                             *)

\* The client reads the call's messages in the order the tool sent them and the
\* response after all of them: its stream is a prefix of what was said, or all
\* of it and then the response; or it got a bare status (answer_call, drain,
\* CallStream::next).
ResponseIsLast ==
    \A c \in Calls :
        \/ IsPrefix(wire[c], said[c])
        \/ \E response \in Reply : wire[c] = Append(said[c], Item(response, 0))
        \/ \E status \in Statuses : wire[c] = <<Item("status", status)>>

\* A cancelled call that was streaming sends everything it said and no response;
\* one that had said nothing is a 202 (dispatch, answer_call).
CancelledIsSilent ==
    \A c \in Calls :
        outcome[c] = <<"notification_accepted">> /\ lines[c] # <<>>
            /\ lines[c][1].line = "completed" =>
                wire[c] = IF said[c] = <<>> THEN <<Item("status", 202)>> ELSE said[c]

\* The client of a finished stream never holds a question of the server's that
\* nobody waits for: it was answered or it was withdrawn after it was asked.
NoStaleQuestion ==
    \A c \in Calls :
        stage[c] = "done" =>
            \A i \in DOMAIN wire[c] :
                wire[c][i].kind = "ask" =>
                    \/ \E k \in Clients : <<k, i>> \in by[c]
                    \/ i + 1 \in DOMAIN wire[c] /\ wire[c][i + 1].kind = "withdraw"

\* What the client of a call is told: everything in order, no answer once it has
\* cancelled, and no question left open; and every variable keeps its type.
ToldInOrder == TypeOK /\ ResponseIsLast /\ CancelledIsSilent /\ NoStaleQuestion

\* What a call holds goes when it does, however it ends: a request of the server's
\* own is waited for exactly while its call waits, the call is registered until
\* its dispatch is over, and its session busy until its answer is (Waiting::drop,
\* InFlightRequests, SessionUse).
HeldWhileServed ==
    \A c \in Calls :
        /\ c \in pending <=> tool[c] = "asking"
        /\ c \in registered <=> (tool[c] \in Live /\ TellsCallersApart(Key(c)))
        /\ c \in busy <=> ( /\ stage[c] \in {"first", "running", "draining"}
                            /\ c.client.session # None)

\* No client but the one that made a call cancels it or answers its questions,
\* whatever the others send: not another client of the same user, nor another
\* anonymous one using the same request id (CallerKey, tells_callers_apart).
OnlyItsClient == \A c \in Calls : \A reach \in by[c] : reach[1] = c.client

\* Every admitted call is reported to the observer as complete exactly once, when
\* its dispatch is over, and a dispatch that was dropped unanswered has its
\* token fired (observe, dispatch).
ObservedOnce ==
    \A c \in Calls :
        /\ Len(outcome[c]) = IF tool[c] = "over" THEN 1 ELSE 0
        /\ outcome[c] = <<"cancelled">> => c \in token

\* A cancelled call ends, whatever its tool does, unless its client stops reading.
CancelEndsCall ==
    \A c \in Calls : c \in token /\ tool[c] \in Live ~> tool[c] = "over"

\* A question to the client does not outlive the client's silence.
QuestionEnds == \A c \in Calls : tool[c] = "asking" ~> tool[c] # "asking"

\* A call that answered gets its answer out and lets go of the connection.
AnswerEnds == \A c \in Calls : tool[c] = "over" ~> at[c] = "over"

\* Cancelled calls, questions and answers all come to their end, with no help from
\* the tool or from the client's answers.
CallsEnd == CancelEndsCall /\ QuestionEnds /\ AnswerEnds
=============================================================================
