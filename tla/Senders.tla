------------------------------ MODULE Senders ------------------------------
(***************************************************************************)
(* The clients under `notifications/`: Slack messages and uploads          *)
(* (`slack.rs`), mails over Resend (`resend.rs`, `email.rs`) and PostHog   *)
(* captures (`posthog.rs`).  Each message is sent by a task of its own.    *)
(* The service may take a request whose answer is then lost, so what a     *)
(* sender repeats decides what the service counts twice.                   *)
(***************************************************************************)
EXTENDS Integers, Sequences, FiniteSetsExt

CONSTANTS
    Slack, Mails, Captures,   \* the messages of each kind
    Uploads,                  \* the files uploaded to Slack
    MaxRetries,               \* MAX_RETRIES of resend.rs
    MaxAttempts               \* MAX_ATTEMPTS of posthog.rs

Messages == Slack \cup Mails \cup Captures \cup Uploads

\* Milliseconds: DEFAULT_RETRY_DELAY, MAX_RETRY_DELAY and RETRY_DELAY_FLOOR.
DefaultRetryDelay == 1000
MaxRetryDelay     == 5000
RetryDelayFloor   == 200
FirstBackoff      == 500

NoHint == -1
Hints  == {NoHint, 0, 5000, 6000}

VARIABLES
    pc,        \* "new", "sending", "waiting", or how the send ended
    attempt,   \* requests made so far
    waited,    \* milliseconds slept between them
    backoff,   \* the next wait of a capture
    step,      \* the step of an upload: 1 reserve, 2 post the bytes, 3 complete
    uuids,     \* the uuid each capture's requests carry
    taken,     \* what the service took of a message, as a bag of uuids per message
    logs       \* the level each failed message was logged at

vars == <<pc, attempt, waited, backoff, step, uuids, taken, logs>>
-----------------------------------------------------------------------------
\* A refusal an operator has to act on.
IsMisconfiguredTarget(code) ==
    code \in {"channel_not_found", "is_archived", "not_in_channel", "invalid_auth", "not_authed",
              "account_inactive", "token_revoked", "missing_scope", "restricted_action"}
-----------------------------------------------------------------------------
Init ==
    /\ pc = [i \in Messages |-> "new"]
    /\ attempt = [i \in Messages |-> 0] /\ waited = [i \in Messages |-> 0]
    /\ backoff = [i \in Messages |-> FirstBackoff]
    /\ step = [i \in Messages |-> 1]
    /\ uuids = [i \in Messages |-> 0]
    /\ taken = [i \in Messages |-> <<>>]
    /\ logs = [i \in Messages |-> "none"]

\* A request leaves: the first one, or one after a wait. The body, uuid and
\* timestamp of a capture are made once, by event_body.
Start(i) ==
    /\ pc[i] \in {"new", "waiting"}
    /\ pc' = [pc EXCEPT ![i] = "sending"]
    /\ attempt' = [attempt EXCEPT ![i] = @ + 1]
    /\ uuids' = [uuids EXCEPT ![i] = IF @ = 0 THEN 1 ELSE @]
    /\ UNCHANGED <<waited, backoff, step, taken, logs>>

\* What can come of a request: the service took it or not, and what the sender sees.
Outcomes ==
    { [took |-> TRUE,  seen |-> "ok"], [took |-> TRUE,  seen |-> "transport"],
      [took |-> FALSE, seen |-> "transport"], [took |-> FALSE, seen |-> "rate_limited"],
      [took |-> TRUE,  seen |-> "server_error"], [took |-> FALSE, seen |-> "server_error"],
      [took |-> FALSE, seen |-> "refused"] }

Taken(i, o) == taken' = IF o.took THEN [taken EXCEPT ![i] = Append(@, uuids[i])] ELSE taken

Ends(i, how, log) ==
    /\ pc' = [pc EXCEPT ![i] = how]
    /\ logs' = [logs EXCEPT ![i] = log]
    /\ UNCHANGED waited

Waits(i, delay) ==
    /\ pc' = [pc EXCEPT ![i] = "waiting"]
    /\ waited' = [waited EXCEPT ![i] = @ + delay]
    /\ UNCHANGED logs

\* `plan_retry`: NoHint to give up, or how long to wait. `n` retries were made.
PlanRetry(n, hint) ==
    LET delay == IF hint = NoHint THEN DefaultRetryDelay ELSE hint
    IN  IF n >= MaxRetries \/ delay > MaxRetryDelay THEN NoHint ELSE Max({delay, RetryDelayFloor})

\* Mutant: a failed request is retried like a rate-limited one.
MailAnsweredRetries(i, o, hint) ==
    /\ i \in Mails /\ pc[i] = "sending" /\ Taken(i, o)
    /\ LET delay == PlanRetry(attempt[i] - 1, hint)
       IN  IF o.seen = "ok" THEN Ends(i, "accepted", "none")
           ELSE IF o.seen \in {"rate_limited", "transport"} /\ delay # NoHint
           THEN Waits(i, delay) ELSE Ends(i, "failed", "warn")
    /\ UNCHANGED <<attempt, backoff, step, uuids>>

\* `send_with_retry`: only a 429, which the service did not take, is repeated.
MailAnswered(i, o, hint) ==
    /\ i \in Mails /\ pc[i] = "sending" /\ Taken(i, o)
    /\ LET delay == PlanRetry(attempt[i] - 1, hint)
       IN  IF o.seen = "ok" THEN Ends(i, "accepted", "none")
           ELSE IF o.seen = "rate_limited" /\ delay # NoHint
           THEN Waits(i, delay) ELSE Ends(i, "failed", "warn")
    /\ UNCHANGED <<attempt, backoff, step, uuids>>

\* `PostHogClient::send`: transport errors and 5xx are resent, as the same event,
\* after a wait twice as long each time.
CaptureAnswered(i, o) ==
    /\ i \in Captures /\ pc[i] = "sending" /\ Taken(i, o)
    /\ IF o.seen = "ok" THEN Ends(i, "accepted", "none") /\ UNCHANGED backoff
       ELSE IF o.seen \in {"refused", "rate_limited"}
       THEN Ends(i, "refused", "warn") /\ UNCHANGED backoff
       ELSE IF attempt[i] >= MaxAttempts THEN Ends(i, "gave_up", "warn") /\ UNCHANGED backoff
       ELSE Waits(i, backoff[i]) /\ backoff' = [backoff EXCEPT ![i] = 2 * @]
    /\ UNCHANGED <<attempt, step, uuids>>

\* `post_message`: one request, whose failure is logged; `ok` false names a code.
SlackAnswered(i, o, code) ==
    /\ i \in Slack /\ pc[i] = "sending" /\ Taken(i, o)
    /\ IF o.seen = "ok" THEN Ends(i, "accepted", "none")
       ELSE Ends(i, "failed", IF o.seen = "refused" /\ IsMisconfiguredTarget(code)
                              THEN "error" ELSE "warn")
    /\ UNCHANGED <<attempt, backoff, step, uuids>>

\* `upload_file`: reserve, post the bytes, complete; the first failure ends it.
\* The outcome is the caller's and nothing is logged. `taken` holds the steps
\* Slack took.
UploadAnswered(i, o) ==
    /\ i \in Uploads /\ pc[i] = "sending"
    /\ taken' = [taken EXCEPT ![i] = IF o.took THEN Append(@, step[i]) ELSE @]
    /\ IF o.seen # "ok" THEN Ends(i, "failed", "none") /\ UNCHANGED step
       ELSE IF step[i] = 3 THEN Ends(i, "accepted", "none") /\ UNCHANGED step
       ELSE step' = [step EXCEPT ![i] = @ + 1] /\ UNCHANGED <<pc, logs, waited>>
    /\ UNCHANGED <<attempt, backoff, uuids>>

Answered(i) ==
    \E o \in Outcomes :
        \/ \E hint \in Hints : MailAnswered(i, o, hint)
        \/ CaptureAnswered(i, o)
        \/ \E code \in {"is_archived", "ratelimited"} : SlackAnswered(i, o, code)
        \/ UploadAnswered(i, o)

Next == \E i \in Messages : Start(i) \/ Answered(i)

Spec == Init /\ [][Next]_vars

-----------------------------------------------------------------------------
Over(i) == pc[i] \in {"accepted", "failed", "refused", "gave_up"}

TypeOK ==
    /\ pc \in [Messages -> {"new", "sending", "waiting", "accepted", "failed", "refused", "gave_up"}]
    /\ step \in [Messages -> 1..3]
    /\ logs \in [Messages -> {"none", "warn", "error"}]
    /\ \A i \in Messages : attempt[i] >= 0 /\ waited[i] >= 0

\* However often a request is repeated, no service counts a message twice: a mail
\* or a Slack message is taken once, a capture under one uuid.
CountedOnce ==
    \A i \in Messages :
        /\ i \in Mails \cup Slack => Len(taken[i]) <= 1
        /\ i \in Captures => \A m, n \in DOMAIN taken[i] : taken[i][m] = taken[i][n]

\* A sender gives up: a mail after its retries and at most 5 s before each, a
\* capture after its attempts.
SendsBounded ==
    /\ \A i \in Mails : attempt[i] <= MaxRetries + 1 /\ waited[i] <= MaxRetries * MaxRetryDelay
    /\ \A i \in Captures : attempt[i] <= MaxAttempts

\* A file Slack was told to share is one whose bytes Slack took first.
SharedIsUploaded ==
    \A i \in Uploads : \A n \in DOMAIN taken[i] :
        taken[i][n] = 3 => \E k \in 1..(n - 1) : taken[i][k] = 2
=============================================================================
