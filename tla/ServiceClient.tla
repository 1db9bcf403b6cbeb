---------------------------- MODULE ServiceClient ----------------------------
(***************************************************************************)
(* `service_client/`: calls to another service of the same family.  A call *)
(* takes a token from the shared TokenSource unless the service is on      *)
(* loopback, goes out under an id of its own, and is re-sent at most once, *)
(* and only a GET whose connection closed before any answer.               *)
(***************************************************************************)
EXTENDS TokenSource, Sequences, FiniteSets

CONSTANTS
    Gets,        \* the calls that are GETs; the others are POSTs and DELETEs
    Loopback,    \* whether the base URL is on loopback
    None         \* no URL, audience, wait or error

VARIABLES
    call,   \* each call: [pc, sendable, resent, id, error]; sendable when its URL is the service's
    sent,   \* the requests each call put on the network: [id, tok, old]
    took,   \* how often the service took up a call
    ids     \* request ids minted so far

serviceVars == <<call, sent, took, ids>>
vars == <<tokenVars, serviceVars>>
-----------------------------------------------------------------------------
(* `ServiceClient::new` and `from_env`. A URL is [scheme, host, clean]:    *)
(* clean when it has no credentials, query or fragment.                    *)

LoopbackHosts == {"localhost", "127.0.0.1", "::1"}

NewClient(url, audience) ==
    IF url = None \/ url.scheme \notin {"http", "https"} \/ url.host = None \/ ~url.clean
    THEN "invalid_base_url"
    ELSE IF url.host \in LoopbackHosts THEN "no_tokens"
    ELSE IF url.scheme # "https" THEN "invalid_base_url"
    ELSE IF audience \in {None, ""} THEN "audience_required" ELSE "tokens"

\* `from_env`, of a URL variable that is None when unset or empty: no client, and no
\* error.
FromEnv(url, audience) ==
    IF url = None THEN None
    ELSE IF NewClient(url, audience) = "audience_required" THEN "audience_not_set"
    ELSE NewClient(url, audience)

\* A client talks to its service under a token, which TLS keeps, or over loopback,
\* or is not made; and the host hears why when it named a service.
NeverInClear(url, audience) ==
    LET made == FromEnv(url, audience)
    IN  /\ made = "tokens" => url.scheme = "https" /\ audience \notin {None, ""}
        /\ made = "no_tokens" => url.host \in LoopbackHosts
        /\ made = None => url = None
-----------------------------------------------------------------------------
(* `classify`. A body is what it names: a wait, the guard's error type.    *)

DefaultShedWait == 30
NoBody == [wait |-> None, type |-> None]

UnfinishedKind(status, type) ==
    CASE status = 504 -> IF type = "request_timeout" THEN "service_deadline" ELSE "gateway_deadline"
      [] status = 502 -> "bad_gateway"
      [] status = 500 /\ type = "handler_panic" -> "handler_panic"
      [] OTHER -> None

Wait(body, header) ==
    IF body.wait # None THEN body.wait ELSE IF header # None THEN header ELSE DefaultShedWait

\* The kind of the answer, with the wait of a shed.
Classify(status, header, body) ==
    IF status \in 200..299 THEN [kind |-> "answer", wait |-> None]
    ELSE IF status = 503 \/ body.wait # None THEN [kind |-> "shed", wait |-> Wait(body, header)]
    ELSE IF UnfinishedKind(status, body.type) # None
    THEN [kind |-> UnfinishedKind(status, body.type), wait |-> None]
    ELSE [kind |-> "answer", wait |-> None]

\* The end of `attempt`: what was cut is told by its status where that is enough.
Receive(status, header, body, cut) ==
    LET seen == Classify(status, header, IF cut THEN NoBody ELSE body)
    IN  IF cut /\ seen.kind = "answer" THEN [kind |-> "body_error", wait |-> None] ELSE seen

\* What the guard and the shed of a service of the family answer.
GuardAnswer(end, secs) ==
    CASE end = "shed"             -> [status |-> 503, header |-> secs,
                                      body |-> [wait |-> secs, type |-> None]]
      [] end = "service_deadline" -> [status |-> 504, header |-> None,
                                      body |-> [wait |-> None, type |-> "request_timeout"]]
      [] end = "handler_panic"    -> [status |-> 500, header |-> None,
                                      body |-> [wait |-> None, type |-> "handler_panic"]]

\* The client names a refusal of the service's own guard by what it was, and a shed
\* with its wait even when the body was cut; none of them passes for an answer.
GuardIsUnderstood(end, secs, cut) ==
    LET a == GuardAnswer(end, secs)
        r == Receive(a.status, a.header, a.body, cut)
    IN  /\ r.kind # "answer"
        /\ ~cut => r.kind = end
        /\ end = "shed" => r = [kind |-> "shed", wait |-> secs]
-----------------------------------------------------------------------------
Init ==
    /\ TokenInit
    /\ \E sendable \in [Callers -> BOOLEAN] :
           call = [c \in Callers |-> [pc |-> "new", sendable |-> sendable[c], resent |-> FALSE,
                                       id |-> 0, error |-> None]]
    /\ sent = [c \in Callers |-> <<>>]
    /\ took = [c \in Callers |-> 0]
    /\ ids = 0

Over(c, error, id) ==
    call' = [call EXCEPT ![c].pc = "over", ![c].error = error, ![c].id = id]

\* `send` of a call refused by its path, or `attempt` of one for another origin:
\* no token is asked for and nothing is sent. The error has an id all the same.
Refuse(c) ==
    /\ call[c].pc = "new" /\ ~call[c].sendable
    /\ Over(c, "unsendable", ids + 1) /\ ids' = ids + 1
    /\ UNCHANGED <<sent, took, tokenVars>>

\* The request goes out with the token, under a fresh id.
Execute(c, tok) ==
    /\ ids' = ids + 1
    /\ sent' = [sent EXCEPT ![c] = Append(@, [id |-> ids', tok |-> tok,
                    old |-> IF tok = NoToken THEN 0 ELSE age[tok]])]
    /\ call' = [call EXCEPT ![c].pc = "flying", ![c].id = ids']
    /\ UNCHANGED took

\* There is no await between a token's return and the request's leaving.
SendOnce(c) ==
    IF ask'[c].pc = "got" THEN Execute(c, ask'[c].tok)
    ELSE IF ask'[c].pc = "failed" THEN Over(c, "identity", 0) /\ UNCHANGED <<sent, took, ids>>
    ELSE call' = [call EXCEPT ![c].pc = "token"] /\ UNCHANGED <<sent, took, ids>>

\* `attempt`, first or second, up to the token.
Attempt(c) ==
    /\ call[c].pc \in {"new", "again"} /\ call[c].sendable
    /\ IF Loopback THEN Execute(c, NoToken) /\ UNCHANGED tokenVars
       ELSE Lookup(c) /\ SendOnce(c)

\* The token the attempt waits for arrives or fails.
TokenArrives(c) ==
    /\ call[c].pc = "token"
    /\ \/ Mint(c) /\ UNCHANGED serviceVars
       \/ (Store(c) \/ FetchFails(c)) /\ SendOnce(c)

\* Mutant: any method is sent again after a close.
ClosedResendsAll(c) ==
    /\ call[c].pc = "flying"
    /\ IF ~call[c].resent
       THEN call' = [call EXCEPT ![c].pc = "again", ![c].resent = TRUE]
       ELSE Over(c, "closed", call[c].id)

\* The connection closed before any answer: a GET is sent once more.
Closed(c) ==
    /\ call[c].pc = "flying"
    /\ IF c \in Gets /\ ~call[c].resent
       THEN call' = [call EXCEPT ![c].pc = "again", ![c].resent = TRUE]
       ELSE Over(c, "closed", call[c].id)

\* Any other end: an answer, or a failure that is not a close (a time-out, no
\* connection, or what Receive makes of the response).
Answered(c) ==
    /\ call[c].pc = "flying"
    /\ \E error \in {None, "failed"} : Over(c, error, call[c].id)

\* The service may have taken the request up whatever its client saw.
Arrives(c) ==
    /\ \/ /\ Closed(c)
          /\ IF call'[c].pc = "again" /\ ~Loopback THEN AskAgain(c) ELSE UNCHANGED tokenVars
       \/ Answered(c) /\ UNCHANGED tokenVars
    /\ \E n \in {0, 1} : took' = [took EXCEPT ![c] = @ + n]
    /\ UNCHANGED <<sent, ids>>

ServiceTick == TokenTick /\ UNCHANGED serviceVars

CallStep == \E c \in Callers : Refuse(c) \/ Attempt(c) \/ TokenArrives(c) \/ Arrives(c)

Next == CallStep \/ ServiceTick

Spec == Init /\ [][Next]_vars

-----------------------------------------------------------------------------
TypeOK ==
    /\ TokenTypeOK
    /\ \A c \in Callers : /\ call[c].pc \in {"new", "token", "flying", "again", "over"}
                          /\ call[c].resent \in BOOLEAN /\ call[c].id \in 0..ids
                          /\ Len(sent[c]) <= 2 /\ took[c] <= Len(sent[c])

\* Only a read is ever sent twice, so the service takes up nothing else twice.
OnlyReadsRepeat ==
    \A c \in Callers : (Len(sent[c]) > 1 \/ took[c] > 1) => c \in Gets /\ call[c].resent

\* Every request has an id no other request has, and a call that ends names the
\* id of the last request it sent.
IdsTellAttemptsApart ==
    /\ \A c, d \in Callers : \A i \in DOMAIN sent[c], j \in DOMAIN sent[d] :
           sent[c][i].id = sent[d][j].id => c = d /\ i = j
    /\ \A c \in Callers : call[c].pc = "over" /\ call[c].error \notin {"unsendable", "identity"}
           => call[c].id = sent[c][Len(sent[c])].id

\* No request leaves with a token that has expired, although tokens are shared,
\* cached and fetched late.
TokenIsAlive ==
    \A c \in Callers : \A i \in DOMAIN sent[c] : sent[c][i].tok # NoToken => sent[c][i].old < Life

\* Some call is not at its end.
Calling == \E c \in Callers : call[c].pc # "over"
=============================================================================
