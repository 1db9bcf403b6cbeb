---------------------------- MODULE GuardedFetch ----------------------------
(***************************************************************************)
(* `http_client/guard/`: fetching a URL somebody else named.  A policy     *)
(* judges every URL, the original and each redirect; the resolver judges   *)
(* every address at the moment of the connection, because what a name      *)
(* resolves to may change after it was validated; limits bound the rest.   *)
(*                                                                         *)
(* A URL is [scheme, creds, port, kind, host, path] with kind "domain",    *)
(* "local" (a name under localhost, local or internal) or "literal"; the   *)
(* host of a literal is its address.                                       *)
(***************************************************************************)
EXTENDS Integers, Sequences, SequencesExt, FiniteSets

CONSTANTS
    Urls,           \* the URLs a fetch may start from or be redirected to
    Answers,        \* what a name may resolve to: sets of addresses
    Policies,       \* [kind, entries] with kind "webhook", "allowlist", "archive"
    DeniedIps,      \* the addresses the deny list refuses
    MaxRedirects, Idle, Total, MaxBody,
    None            \* no URL, port, host, prefix or refusal

VARIABLES
    policy,    \* the client's policy
    dns,       \* what each name resolves to now
    pc,        \* "idle", "connect", "send", "body", "done" or the refusal
    url,       \* the URL being fetched
    hops,      \* redirects followed
    dialed,    \* addresses connected to (history)
    asked,     \* URLs requested (history)
    handed,    \* body bytes handed to the caller
    elapsed,   \* time since send
    quiet      \* time since the wait in progress began

vars == <<policy, dns, pc, url, hops, dialed, asked, handed, elapsed, quiet>>
-----------------------------------------------------------------------------
(* The deny list of `deny.rs`: networks as octets with a prefix length.    *)

DeniedV4 ==
    { << <<0, 0, 0, 0>>, 8 >>, << <<10, 0, 0, 0>>, 8 >>, << <<172, 16, 0, 0>>, 12 >>,
      << <<192, 168, 0, 0>>, 16 >>, << <<100, 64, 0, 0>>, 10 >>, << <<127, 0, 0, 0>>, 8 >>,
      << <<169, 254, 0, 0>>, 16 >>, << <<192, 0, 0, 0>>, 24 >>, << <<198, 18, 0, 0>>, 15 >>,
      << <<224, 0, 0, 0>>, 4 >>, << <<240, 0, 0, 0>>, 4 >> }

\* The bits of octet i that a prefix of p bits covers.
Covered(p, i) == IF p <= 8 * (i - 1) THEN 0 ELSE IF p >= 8 * i THEN 8 ELSE p - 8 * (i - 1)

\* bits & mask == network & mask.
InNetwork(ip, net, p) ==
    \A i \in 1..4 : LET low == 2^(8 - Covered(p, i)) IN ip[i] \div low = net[i] \div low

IsDeniedV4(ip) == \E n \in DeniedV4 : InNetwork(ip, n[1], n[2])

\* A v4-mapped v6 address is judged by its v4 part; `denied6` is the v6 table's word.
IsDeniedIp(ip) ==
    CASE ip.form \in {"v4", "mapped"} -> IsDeniedV4(ip.v4)
      [] ip.form = "v6" -> ip.denied6

\* The same networks as the address ranges their RFCs give, by first three octets.
At(a, b, c) == (a * 256 + b) * 256 + c

ReservedRanges ==
    { <<At(0, 0, 0), At(0, 255, 255)>>, <<At(10, 0, 0), At(10, 255, 255)>>,
      <<At(100, 64, 0), At(100, 127, 255)>>, <<At(127, 0, 0), At(127, 255, 255)>>,
      <<At(169, 254, 0), At(169, 254, 255)>>, <<At(172, 16, 0), At(172, 31, 255)>>,
      <<At(192, 0, 0), At(192, 0, 0)>>, <<At(192, 168, 0), At(192, 168, 255)>>,
      <<At(198, 18, 0), At(198, 19, 255)>>, <<At(224, 0, 0), At(255, 255, 255)>> }

\* An address is denied exactly when it lies in a reserved range, mapped into v6 or not.
DeniedAsReserved(v4) ==
    LET n == At(v4[1], v4[2], v4[3])
        reserved == \E r \in ReservedRanges : r[1] <= n /\ n <= r[2]
    IN  \A form \in {"v4", "mapped"} : IsDeniedIp([form |-> form, v4 |-> v4]) = reserved
-----------------------------------------------------------------------------
(* Allowlists. A path is its decoded segments, after the leading slash;    *)
(* "bad" is one with a separator, an escape or a control character in it.  *)

Ambiguous(segments) ==
    \E i \in DOMAIN segments : \/ segments[i] \in {".", "..", "bad"}
                               \/ segments[i] = "" /\ i # Len(segments)

\* A prefix written with a trailing slash needs something below it.
PrefixAdmits(prefix, segments) ==
    LET names == SelectSeq(segments, LAMBDA s : s # "")
    IN  /\ ~Ambiguous(segments)
        /\ Len(names) >= Len(prefix.segments) + (IF prefix.directory THEN 1 ELSE 0)
        /\ \A i \in DOMAIN prefix.segments : prefix.segments[i] = names[i]

\* `parse_entry`: what an entry's host and prefix are worth; `readable` is FALSE for
\* a prefix with an empty, dotted or escaped segment.
ParseEntry(e) ==
    IF e.host = "" THEN IF e.prefix = None THEN "skipped" ELSE "missing_host"
    ELSE IF e.host = "bad" THEN "host"
    ELSE IF e.prefix # None /\ ~e.readable THEN "prefix" ELSE "ok"

\* Where a server that resolves dot segments ends up.
Resolved(segments) ==
    FoldLeft(LAMBDA at, s : IF s \in {"", "."} THEN at
                            ELSE IF s = ".." THEN IF at = <<>> THEN at ELSE Front(at)
                            ELSE Append(at, s), <<>>, segments)

\* A path a prefix admits is under the prefix however its dots are resolved.
StaysUnder(prefix, segments) ==
    PrefixAdmits(prefix, segments) =>
        /\ IsPrefix(prefix.segments, Resolved(segments))
        /\ prefix.directory => Len(Resolved(segments)) > Len(prefix.segments)

\* `new` leaves out what it cannot read; `try_new` refuses it, and a host that
\* is listed both bare and under a prefix.
AllowlistOf(entries) == {e \in entries : ParseEntry(e) = "ok"}

TryNew(entries) ==
    IF \E e \in entries : ParseEntry(e) \notin {"ok", "skipped"} THEN "invalid"
    ELSE IF \E e, b \in AllowlistOf(entries) :
                e.host = b.host /\ b.prefix = None /\ e.prefix # None THEN "shadowed"
    ELSE "ok"

HostAdmitted(entries, u) ==
    LET listed == {e \in AllowlistOf(entries) : e.host = u.host}
    IN  IF listed = {} THEN "host_not_allowed"
        ELSE IF \E e \in listed : e.prefix = None \/ PrefixAdmits(e.prefix, u.path)
        THEN None ELSE "path_not_allowed"

\* A list that is taken means what it says: every entry is in force, and a host
\* listed under prefixes is reached under one of them only.
TakenAsWritten(entries, paths) ==
    TryNew(entries) = "ok" =>
        /\ \A e \in entries : e.host # "" => e \in AllowlistOf(entries)
        /\ \A e \in entries, path \in paths :
               LET u == [host |-> e.host, path |-> path]
                   mine == {o \in entries : o.host = e.host}
               IN  e.host # "" /\ e.prefix # None /\ HostAdmitted(entries, u) = None =>
                       \E o \in mine : o.prefix # None /\ PrefixAdmits(o.prefix, path)

\* `FetchPolicy::check`: None, or why the URL is refused.
AppliesDenyList(p) == p.kind # "allowlist"

Check(p, u) ==
    IF u.scheme \notin (IF p.kind = "archive" THEN {"https"} ELSE {"http", "https"})
    THEN "scheme_not_allowed"
    ELSE IF u.creds THEN "credentials_in_url"
    ELSE IF p.kind = "archive" /\ u.port # None THEN "port_not_allowed"
    ELSE IF u.host = None THEN "missing_host"
    ELSE IF p.kind # "webhook" /\ HostAdmitted(p.entries, u) # None
    THEN HostAdmitted(p.entries, u)
    ELSE IF AppliesDenyList(p) /\ u.kind = "local" THEN "local_name"
    ELSE IF AppliesDenyList(p) /\ u.kind = "literal" /\ u.host \in DeniedIps
    THEN "denied_address" ELSE None

Redirects(p) == IF p.kind = "webhook" THEN 0 ELSE MaxRedirects

\* Mutant: a mixed answer is taken for its public part.
VettedAny(p, ips) ==
    IF ips = {} THEN "unresolvable"
    ELSE IF AppliesDenyList(p) /\ ips \subseteq DeniedIps THEN "denied_address" ELSE None

\* `PinningResolver::vetted`: one denied address refuses the whole answer.
Vetted(p, ips) ==
    IF ips = {} THEN "unresolvable"
    ELSE IF AppliesDenyList(p) /\ ips \cap DeniedIps # {} THEN "denied_address" ELSE None
-----------------------------------------------------------------------------
Names == {u.host : u \in {v \in Urls : v.kind # "literal" /\ v.host # None}}

Init ==
    /\ policy \in Policies
    /\ dns \in [Names -> Answers]
    /\ pc = "idle" /\ url = None /\ hops = 0
    /\ dialed = {} /\ asked = {} /\ handed = 0 /\ elapsed = 0 /\ quiet = 0

\* `validate` answers from the names as they are now, and remembers nothing.
Validate(u) ==
    IF Check(policy, u) # None THEN Check(policy, u)
    ELSE IF u.kind = "literal" THEN None ELSE Vetted(policy, dns[u.host])

\* A name resolves to something else from now on.
Rebind ==
    /\ pc \in {"idle", "connect"}
    /\ \E n \in Names, a \in Answers : dns[n] # a /\ dns' = [dns EXCEPT ![n] = a]
    /\ UNCHANGED <<policy, pc, url, hops, dialed, asked, handed, elapsed, quiet>>

\* The host gives up on a URL that does not validate.
Rejected(u) ==
    /\ pc = "idle" /\ Validate(u) # None /\ pc' = Validate(u)
    /\ UNCHANGED <<policy, dns, url, hops, dialed, asked, handed, elapsed, quiet>>

\* A URL, validated before or not, is checked and sent; the deadlines start.
Request(u) ==
    /\ pc = "idle"
    /\ IF Check(policy, u) # None THEN pc' = Check(policy, u) /\ UNCHANGED <<url, asked>>
       ELSE pc' = "connect" /\ url' = u /\ asked' = {u}
    /\ UNCHANGED <<policy, dns, hops, dialed, handed, elapsed, quiet>>

\* The connector asks the resolver, and dials one of the addresses it vetted.
Connect ==
    /\ pc = "connect"
    /\ LET ips == IF url.kind = "literal" THEN {url.host} ELSE dns[url.host]
           no  == IF url.kind = "literal" THEN None ELSE Vetted(policy, ips)
       IN  IF no # None THEN pc' = no /\ UNCHANGED dialed
           ELSE \E ip \in ips : pc' = "send" /\ dialed' = dialed \cup {ip}
    /\ UNCHANGED <<policy, dns, url, hops, asked, handed, elapsed, quiet>>

\* The answer redirects: the policy judges the hop. Without redirects the answer
\* is the caller's (Responds).
Redirected(u) ==
    /\ pc = "send" /\ Redirects(policy) > 0
    /\ LET no == IF hops + 1 > Redirects(policy) THEN "too_many_redirects" ELSE Check(policy, u)
       IN  IF no # None THEN pc' = no /\ UNCHANGED <<url, hops, asked>>
           ELSE pc' = "connect" /\ url' = u /\ hops' = hops + 1 /\ asked' = asked \cup {u}
    /\ UNCHANGED <<policy, dns, dialed, handed, elapsed, quiet>>

\* The response's head is there: `send` returns, the next wait is a chunk's.
Responds ==
    /\ pc = "send" /\ pc' = "body" /\ quiet' = 0
    /\ UNCHANGED <<policy, dns, url, hops, dialed, asked, handed, elapsed>>

\* A chunk of n bytes: the one that passes the cap is not handed over.
Chunk(n) ==
    /\ pc = "body"
    /\ IF handed + n > MaxBody THEN pc' = "body_too_large" /\ UNCHANGED <<handed, quiet>>
       ELSE handed' = handed + n /\ quiet' = 0 /\ UNCHANGED pc
    /\ UNCHANGED <<policy, dns, url, hops, dialed, asked, elapsed>>

BodyEnds ==
    /\ pc = "body" /\ pc' = "done"
    /\ UNCHANGED <<policy, dns, url, hops, dialed, asked, handed, elapsed, quiet>>

\* The transport fails.
Fails ==
    /\ pc \in {"connect", "send", "body"} /\ pc' = "request_failed"
    /\ UNCHANGED <<policy, dns, url, hops, dialed, asked, handed, elapsed, quiet>>

Waiting == pc \in {"connect", "send", "body"}

\* Mutant: every chunk starts the total afresh.
ExpiredIdleOnly == quiet >= Idle

\* `within`: a wait ends at the idle deadline or at the total one.
Expired == quiet >= Idle \/ elapsed >= Total

\* Time passes in a wait; a deadline that is reached ends it.
Tick ==
    /\ Waiting /\ ~Expired
    /\ elapsed' = (IF elapsed < Total THEN elapsed + 1 ELSE elapsed) /\ quiet' = quiet + 1
    /\ UNCHANGED <<policy, dns, pc, url, hops, dialed, asked, handed>>

TimesOut ==
    /\ Waiting /\ Expired
    /\ pc' = IF elapsed >= Total THEN "total_timeout" ELSE "idle_timeout"
    /\ UNCHANGED <<policy, dns, url, hops, dialed, asked, handed, elapsed, quiet>>

Next ==
    \/ Rebind \/ Connect \/ Responds \/ BodyEnds \/ Fails \/ Tick \/ TimesOut
    \/ \E u \in Urls : Rejected(u) \/ Request(u) \/ Redirected(u)
    \/ \E n \in 0..2 : Chunk(n)

Spec == Init /\ [][Next]_vars

-----------------------------------------------------------------------------
TypeOK ==
    /\ policy \in Policies /\ dns \in [Names -> Answers]
    /\ url \in Urls \cup {None} /\ asked \subseteq Urls
    /\ hops \in 0..MaxRedirects /\ elapsed \in 0..Total /\ quiet \in 0..Idle

\* Under a policy with a deny list no connection goes to a denied address, however
\* names are rebound between validation, request and redirects.
DialsOnlyPublic == AppliesDenyList(policy) => dialed \cap DeniedIps = {}

\* Every URL requested in a fetch, the last redirect's included, is one the policy
\* admits, and no more redirects are followed than it allows.
EveryHopIsAdmitted ==
    /\ \A u \in asked : Check(policy, u) = None
    /\ hops <= Redirects(policy)

\* The caller never holds more of a body than the cap.
BodyWithinCap == handed <= MaxBody
=============================================================================
