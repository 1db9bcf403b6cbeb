----------------------------- MODULE MCBoundary -----------------------------
(***************************************************************************)
(* The two edges of the process.  Inwards, the decisions about a request   *)
(* and the walk over a list; outwards, service calls, guarded fetches,     *)
(* alerts and the senders under them.  The parts share no state, so a      *)
(* behaviour runs one of them, chosen by `part`, and the others stay as    *)
(* they began; of the senders, whose tasks share nothing either, it runs   *)
(* one message.                                                            *)
(***************************************************************************)
EXTENDS MCDecisions, ToolListing, Outbound

VARIABLE part

serviceV == <<minted, age, cached, ask, call, sent, took, ids>>
fetchV   == <<policy, dns, fpc, url, hops, dialed, asked, handed, elapsed, quiet>>
alertV   == <<rules, th, emits, last, first, buffers, kept, repeats, captured, posted>>
sendV    == <<spc, attempt, waited, backoff, step, uuids, taken, logs>>
vars     == <<part, case, listVars, serviceV, fetchV, alertV, sendV>>

Url(scheme, port, kind, host, path) ==
    [scheme |-> scheme, creds |-> FALSE, port |-> port, kind |-> kind, host |-> host,
     path |-> path]

Entry(host, prefix) == [host |-> host, prefix |-> prefix, readable |-> TRUE]

MCUrls ==
    { Url("https", Absent, "domain", "files", <<"export", "a">>),
      Url("https", Absent, "domain", "files", <<"private">>),
      Url("http", Absent, "domain", "hook", <<"x">>),
      Url("https", Absent, "literal", "denied", <<"x">>) }

MCPolicies ==
    { [kind |-> "webhook", entries |-> {}],
      [kind |-> "archive", entries |->
          { Entry("files", [segments |-> <<"export">>, directory |-> TRUE]),
            Entry("denied", Absent) }],
      [kind |-> "allowlist", entries |-> { Entry("hook", Absent) }] }

Rule(channel, sample, dedup, batch) ==
    [channel |-> channel, enabled |-> TRUE, sample |-> sample, dedup |-> dedup, batch |-> batch]

MCRules == { Rule("#a", "all", TRUE, TRUE), Rule("#a", "some", TRUE, FALSE) }

Init ==
    /\ part \in {"decide", "list", "service", "fetch", "alerts"} \cup D!Messages
    /\ DecideInit /\ ListInit
    /\ S!Init /\ F!Init /\ N!Init /\ D!Init
    /\ part # "list" => listed = {}
    /\ part # "service" => \A c \in Callers : call[c].sendable
    /\ part # "fetch" => policy.kind = "webhook" /\ \A n \in DOMAIN dns : dns[n] = {"public"}
    /\ part # "alerts" => \A e \in DOMAIN rules : rules[e] = NoRule

InDecide  == part = "decide"  /\ UNCHANGED <<part, listVars, serviceV, fetchV, alertV, sendV>>
InList    == part = "list"    /\ UNCHANGED <<part, case, serviceV, fetchV, alertV, sendV>>
InService == part = "service" /\ UNCHANGED <<part, case, listVars, fetchV, alertV, sendV>>
InFetch   == part = "fetch"   /\ UNCHANGED <<part, case, listVars, serviceV, alertV, sendV>>
InAlerts  == part = "alerts"  /\ UNCHANGED <<part, case, listVars, serviceV, fetchV, sendV>>
InSenders == part \in D!Messages /\ UNCHANGED <<part, case, listVars, serviceV, fetchV, alertV>>

Send == InSenders /\ (D!Start(part) \/ D!Answered(part))

\* The inputs of the pure parts of the outward modules.
FieldSets == SUBSET {"user_email", "id", "tenant_id", "message"}

Shown == [scope : UNION {[1..n -> FieldSets] : n \in 0..2}, own : FieldSets]

Octets == [a : {0, 1, 9, 10, 11, 99, 100, 101, 126, 127, 128, 168, 169, 170, 171, 172, 173, 191,
                192, 193, 197, 198, 199, 223, 224, 239, 240, 255},
           b : {0, 1, 15, 16, 17, 18, 19, 20, 31, 32, 63, 64, 127, 128, 167, 168, 169, 253, 254, 255},
           c : {0, 1, 255}]

Paths ==
    [prefix : {[segments |-> s, directory |-> d] : s \in {<<"a">>, <<"a", "b">>}, d \in BOOLEAN},
     segments : UNION {[1..n -> {"a", "b", "..", ".", "", "bad"}] : n \in 0..4}]

Allowlists ==
    SUBSET { [host |-> host, prefix |-> prefix, readable |-> readable] :
                 host \in {"", "h"}, readable \in BOOLEAN,
                 prefix \in {Absent, [segments |-> <<"a">>, directory |-> FALSE],
                                   [segments |-> <<"a", "b">>, directory |-> TRUE]} }

Services ==
    [url : {Absent} \cup [scheme : {"http", "https", "ftp"}, host : {Absent, "localhost", "service"},
                        clean : BOOLEAN],
     audience : {Absent, "", "service"}]

GuardRefusals == [end : {"shed", "service_deadline", "handler_panic"}, secs : {0, 12}, cut : BOOLEAN]

DecideOutward ==
    \/ Draw("shown", Shown)
    \/ Draw("octets", Octets)
    \/ Draw("path", Paths)
    \/ Draw("allowlist", Allowlists)
    \/ Draw("service", Services)
    \/ Draw("refusal", GuardRefusals)

Next ==
    \/ InDecide /\ (Decide \/ DecideOutward)
    \/ InList /\ ListNext
    \/ InService /\ S!Next
    \/ InFetch /\ F!Next
    \/ InAlerts /\ N!Next
    \/ Send

\* What the process does by itself it does: calls, threads and senders are scheduled,
\* and the deadlines of a fetch come, which are its own.
Progress ==
    \/ InService /\ \E c \in Callers : S!Refuse(c) \/ S!Attempt(c)
    \/ InFetch /\ (F!Tick \/ F!TimesOut)
    \/ InAlerts /\ N!ThreadStep
    \/ InSenders /\ D!Start(part)

\* What others owe it: a request that was sent ends, for its token, of a service or
\* of a sender. The clients of SlackClient and EmailClient have no time-out, and
\* those of ServiceClient and ResendClient are the host's.
RequestEnds ==
    \/ InService /\ \E c \in Callers : S!TokenArrives(c) \/ S!Arrives(c)
    \/ InSenders /\ D!Answered(part)

\* Besides, time passes for the alerts and their flusher's ticker fires.
Fairness ==
    /\ WF_vars(Progress)
    /\ WF_vars(InAlerts /\ N!Flush) /\ WF_vars(InAlerts /\ N!Tick)

Spec == Init /\ [][Next]_vars /\ Fairness
-----------------------------------------------------------------------------
\* A field an event or its spans carry is shown with the event's value, else with
\* the innermost span's.
InnermostWins ==
    case.about = "shown" =>
        LET span(fields, depth) == N!Stash([k \in {} |-> depth], [k \in fields |-> depth])
        IN  N!MergesInnermost([i \in DOMAIN case.in.scope |-> span(case.in.scope[i], i)],
                              span(case.in.own, 0))

\* A batched line and an immediate post show the same fields of an event.
SameFieldsEitherWay ==
    case.about = "shown" => N!ShowsTheSame([k \in case.in.own |-> 0])

\* See GuardedFetch: the deny list's masks are the reserved ranges, to the address.
DenyListIsItsRanges ==
    case.about = "octets" => F!DeniedAsReserved(<<case.in.a, case.in.b, case.in.c, 7>>)

\* See GuardedFetch: no path leaves the prefix that admits it.
PrefixHolds == case.about = "path" => F!StaysUnder(case.in.prefix, case.in.segments)

\* See GuardedFetch: a taken allowlist is in force entry by entry.
AllowlistAsWritten ==
    case.about = "allowlist" =>
        F!TakenAsWritten(case.in, {<<"a">>, <<"b">>, <<"a", "b">>, <<"a", "b", "c">>})

\* See ServiceClient: no identity token goes out in clear, whatever is configured.
TokensNotInClear ==
    case.about = "service" => S!NeverInClear(case.in.url, case.in.audience)

\* See ServiceClient: the refusals of a service's guard are read for what they are.
GuardSpeaksToClient ==
    case.about = "refusal" => S!GuardIsUnderstood(case.in.end, case.in.secs, case.in.cut)

\* What the process says, shows and dials is as its tables and settings read: no
\* secret and no token in clear, no path outside its prefix and no address its
\* ranges reserve, an alert's fields from the innermost span on every route, and
\* a service's refusal taken for what it is (secrets.rs, mcp/observe,
\* service_client, http_client/guard, notify/layer.rs).
OutwardAsWritten ==
    /\ LittleIsShown
    /\ TokensNotInClear /\ GuardSpeaksToClient
    /\ DenyListIsItsRanges /\ PrefixHolds /\ AllowlistAsWritten
    /\ InnermostWins /\ SameFieldsEitherWay
-----------------------------------------------------------------------------
\* Something is under way: a call or a message not at its end, a fetch in a wait, a
\* line in a batch buffer.
UnderWay ==
    \/ part = "service" /\ S!Calling
    \/ part = "fetch" /\ F!Waiting
    \/ part = "alerts" /\ N!LinesWait
    \/ part \in D!Messages /\ ~D!Over(part)

\* Nothing the process sends out is left half way: every fetch ends, also against a
\* server that trickles, every batch is flushed, and unless a request hangs every
\* call and message ends, whatever is repeated.
EverythingEnds == WF_vars(RequestEnds) => (UnderWay ~> ~UnderWay)
=============================================================================
