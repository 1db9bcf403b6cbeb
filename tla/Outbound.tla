------------------------------ MODULE Outbound ------------------------------
(***************************************************************************)
(* What the process sends out: calls to services of the family             *)
(* (ServiceClient, with the TokenSource they share), fetches of URLs that  *)
(* others name (GuardedFetch), alerts (NotifyLayer), and the senders under *)
(* them (Senders).  Each has its own constants and variables; where two    *)
(* use one name, the composition renames it.                               *)
(***************************************************************************)
EXTENDS Integers, Sequences, FiniteSets

CONSTANTS
    Absent,                                                  \* no URL, header, error or refusal
    Callers, Gets, Loopback,                                 \* service calls
    RefreshAfter, Life, MaxDelay, MaxMints,                  \* their token
    Urls, Answers, Policies, DeniedIps,                      \* fetches
    MaxRedirects, Idle, Total, MaxBody,
    Threads, Events, Keys, Rules, NoRule, Analysed,          \* alerts
    Window, Interval, MaxStall, MaxEmits,
    Slack, Mails, Captures, Uploads, MaxRetries, MaxAttempts \* senders

VARIABLES
    minted, age, cached, ask, call, sent, took, ids,
    policy, dns, fpc, url, hops, dialed, asked, handed, elapsed, quiet,
    rules, th, emits, last, first, buffers, kept, repeats, captured, posted,
    spc, attempt, waited, backoff, step, uuids, taken, logs

S == INSTANCE ServiceClient WITH None <- Absent
F == INSTANCE GuardedFetch WITH None <- Absent, pc <- fpc
N == INSTANCE NotifyLayer WITH Captures <- Analysed
D == INSTANCE Senders WITH pc <- spc
-----------------------------------------------------------------------------
(* What the parts are made of.                                             *)

\* The metadata server answers before a cached token is due for a refresh, and a
\* token outlives its time in the cache and on the way there.
TokensOutlive ==
    /\ MaxMints \in Nat /\ RefreshAfter \in Nat /\ MaxDelay \in Nat /\ Life \in Nat
    /\ MaxDelay < RefreshAfter
    /\ RefreshAfter + MaxDelay <= Life

\* Why the policy or the resolver refuses.
Refusals ==
    {"scheme_not_allowed", "credentials_in_url", "port_not_allowed", "missing_host",
     "host_not_allowed", "path_not_allowed", "local_name", "denied_address",
     "unresolvable", "too_many_redirects"}

LimitsAreNumbers ==
    /\ MaxRedirects \in Nat /\ Idle \in Nat /\ Total \in Nat /\ MaxBody \in Nat
    /\ Absent \notin Refusals

\* A line of a batch and a buffer of them.
RuleChannels == {r.channel : r \in Rules}
LineRecord   == [id : 1..MaxEmits, age : 0..Interval, channel : RuleChannels]
BufferRecord == [channel : RuleChannels, lines : Seq(LineRecord)]

\* A rule's switches are Booleans, and what says there is no rule is neither a rule
\* nor a buffer.
RulesAreRules ==
    /\ Window \in Nat /\ Interval \in Nat /\ MaxStall \in Nat /\ MaxEmits \in Nat
    /\ \A r \in Rules : r.dedup \in BOOLEAN /\ r.batch \in BOOLEAN
    /\ NoRule \notin Rules /\ NoRule \notin BufferRecord

\* A message has one kind, and a capture is sent at least once.
MessagesApart ==
    /\ MaxRetries \in Nat /\ MaxAttempts \in Nat \ {0}
    /\ Slack \cap Mails = {} /\ Slack \cap Captures = {} /\ Slack \cap Uploads = {}
    /\ Mails \cap Captures = {} /\ Mails \cap Uploads = {} /\ Captures \cap Uploads = {}

ASSUME TokenAssumption   == TokensOutlive
ASSUME LimitsAssumption  == LimitsAreNumbers
ASSUME RulesAssumption   == RulesAreRules
ASSUME SendersAssumption == MessagesApart
-----------------------------------------------------------------------------
(* The properties of what goes out, by part; each with the part's types.   *)

\* See TokenSource: a slow refresh never puts an older token back.
CacheNeverGoesBack == S!CacheNeverGoesBack

\* See ServiceClient: only a read is sent, or taken up, twice; ids tell the attempts
\* apart; and no token leaves expired, though it is shared, cached and fetched late.
CallsAreSound == S!TypeOK /\ S!OnlyReadsRepeat /\ S!IdsTellAttemptsApart /\ S!TokenIsAlive

\* See GuardedFetch: however names are rebound and redirects chained, no connection
\* to a denied address, no request the policy does not admit and no more of a
\* body than the cap.
FetchStaysInside == F!TypeOK /\ F!DialsOnlyPublic /\ F!EveryHopIsAdmitted /\ F!BodyWithinCap

\* See NotifyLayer: an event is handed to the Slack client once at the most, and
\* dropped as a repeat only of one that was or is about to be.
AlertsHandedOnce == N!TypeOK /\ N!RepeatHasOriginal /\ N!PostedOnce

\* See Senders: no service counts a message twice, no sender goes on for ever, and
\* what is shared was uploaded.
SentOnce == D!TypeOK /\ D!CountedOnce /\ D!SendsBounded /\ D!SharedIsUploaded
=============================================================================
