------------------------------ MODULE HttpGate ------------------------------
(***************************************************************************)
(* What `transport/http.rs` decides about an HTTP message before anything  *)
(* runs: the Origin and Host gates, media types, the protocol version, the *)
(* header mirrors of `transport/mirror.rs`, and the era detection of       *)
(* `modern.rs` that dispatch makes later from the same request.  A gate    *)
(* that refuses answers at once; the first one to refuse decides.          *)
(*                                                                         *)
(* A header is the sequence of its field lines, each a value or Garbled    *)
(* (not visible ASCII).  Revisions are dates written as numbers; 0 is a    *)
(* text that is not shaped like a date.                                    *)
(***************************************************************************)
EXTENDS Integers, Sequences, SequencesExt, FiniteSetsExt

CONSTANTS
    None,       \* an absent header, member or value
    Garbled,    \* a value that cannot be read
    Repeated    \* a header that must be single and is not

\* The codes of the errors, and the reasons a credential or a question is refused.
Codes == {"parse_error", "invalid_request", "method_not_found", "invalid_params", "internal_error",
          "unauthorized", "rate_limited", "missing_capability", "header_mismatch",
          "unsupported_version", "rejected", "jwks_unavailable", "internal",
          "no_connection", "stateless_revision", "capability_not_declared", "no_event_stream"}

\* What says that there is no value is none itself.
ASSUME MarkersAssumption ==
    /\ \A x \in {None, Garbled, Repeated} : x \notin Nat /\ x \notin Codes
    /\ None # Garbled /\ None # Repeated /\ Garbled # Repeated

Empty  == ""    \* the empty text
Spaces == " "   \* a text that is empty once trimmed

Pass == [status |-> 0, code |-> None]
Refuse(status, code) == [status |-> status, code |-> code]

\* The first of the checks, in the order they are made, that refuses.
FirstRefusal(checks) ==
    LET bad == {i \in DOMAIN checks : checks[i] # Pass}
    IN  IF bad = {} THEN Pass ELSE checks[Min(bad)]

\* A header that must be a single value.
Single(lines) ==
    IF lines = <<>> THEN None
    ELSE IF Len(lines) > 1 THEN Repeated ELSE lines[1]

Unusable == {Repeated, Garbled}
-----------------------------------------------------------------------------
(* Origin and Host. An authority is a record [shape, host, dot, port]:     *)
(* shape "bare" is host[:port] and nothing else, dot its trailing dot.     *)

LoopbackHosts == {"localhost", "127.0.0.1", "::1"}
IsLoopbackHost(host, dot) == host \in LoopbackHosts /\ ~dot

IsLoopbackOrigin(origin) ==
    /\ origin.scheme \in {"http", "https"}
    /\ origin.authority.shape = "bare"
    /\ IsLoopbackHost(origin.authority.host, origin.authority.dot)

\* `allowed` is [any, list], any for a list with "*" in it. A garbled Origin is
\* read as the empty one, which only "*" admits.
OriginAllowed(origin, allowed) ==
    \/ origin = None
    \/ allowed.any
    \/ /\ origin # Garbled
       /\ IF allowed.list = {} THEN IsLoopbackOrigin(origin) ELSE origin \in allowed.list

SplitAuthority(a) == IF a = None \/ a.shape # "bare" THEN None ELSE a

IsHostAllowed(a, allowed) ==
    /\ SplitAuthority(a) # None
    /\ \/ IsLoopbackHost(a.host, FALSE)
       \/ \E e \in allowed : /\ SplitAuthority(e) # None
                             /\ e.host = a.host /\ e.dot = a.dot
                             /\ e.port \in {None, a.port}

\* The authority a request targets, or the refusal of one naming no single one.
RequestAuthority(m) ==
    LET host == Single(m.host)
    IN  IF host \in Unusable THEN Refuse(403, None)
        ELSE IF host # None /\ m.target # None /\ host # m.target
        THEN Refuse(400, None)
        ELSE Pass

CheckHost(m, allowed) ==
    IF RequestAuthority(m) # Pass THEN RequestAuthority(m)
    ELSE LET a == IF m.host = <<>> THEN m.target ELSE m.host[1]
         IN  IF IsHostAllowed(a, allowed) THEN Pass ELSE Refuse(403, None)

\* `allowed_hosts` is None on a server that names no list.
CheckOriginAndHost(srv, m) ==
    FirstRefusal(<<
        IF OriginAllowed(m.origin, srv.origins) THEN Pass ELSE Refuse(403, None),
        IF srv.hosts = None THEN Pass ELSE CheckHost(m, srv.hosts) >>)

\* What a bind comes to: refused when nothing authenticates and some address is
\* reachable, guarded when every address is loopback and no list was named.
ServeOutcome(srv) ==
    LET loopback == \A a \in srv.addresses : a = "loopback"
    IN  IF ~srv.hook /\ ~loopback THEN "insecure_bind"
        ELSE IF loopback /\ srv.hosts = None THEN "loopback_hosts_only" ELSE "served"

\* The middleware `serve` layers over a loopback bind.
RequireLoopbackHost(srv, m) ==
    IF ServeOutcome(srv) = "loopback_hosts_only" THEN CheckHost(m, {}) ELSE Pass
-----------------------------------------------------------------------------
(* Media types. A media range is a pair <<type, subtype>> with a weight q. *)

Json        == <<"application", "json">>
EventStream == <<"text", "event-stream">>
AnyMedia    == <<"*", "*">>

Covers(range, media) ==
    range \in {AnyMedia, media} \/ (range[2] = "*" /\ range[1] = media[1])

Specificity(range) == IF range = AnyMedia THEN 0 ELSE IF range[2] = "*" THEN 1 ELSE 2

\* No header is */*; what is unreadable or empty in one lists nothing.
AcceptRanges(accept) ==
    IF accept = None THEN << [media |-> AnyMedia, q |-> 10] >>
    ELSE SelectSeq(accept, LAMBDA r : r.media # Garbled)

\* The fold over the ranges that cover the media type, in header order.
Better(best, r) ==
    LET s == Specificity(r.media)
    IN  IF best.s > s THEN best
        ELSE IF best.s = s THEN [s |-> s, q |-> Max({best.q, r.q})]
        ELSE [s |-> s, q |-> r.q]

NoRange == [s |-> -1, q |-> 0]

AcceptWeight(ranges, media) ==
    FoldLeft(Better, NoRange, SelectSeq(ranges, LAMBDA r : Covers(r.media, media))).q

Negotiate(accept) ==
    LET ranges == AcceptRanges(accept)
        json   == AcceptWeight(ranges, Json)
        stream == AcceptWeight(ranges, EventStream)
    IN  IF json = 0 /\ stream = 0 THEN None
        ELSE [single_as_event |-> stream > json, may_stream |-> stream > 0]
-----------------------------------------------------------------------------
(* Protocol revisions and eras. `meta` is the body's _meta: its protocol   *)
(* version (or None) and whether it declares the client's capabilities.    *)

Current == 20251125
Modern  == 20260728
EarlierLegacy == {20250618, 20250326}

IsModernRevision(v) == v \notin {None} \cup Unusable /\ v >= Modern

AcceptsProtocolVersion(srv, v) ==
    v \in srv.versions \/ (Current \in srv.versions /\ v \in EarlierLegacy)

FromParams(meta) ==
    IF meta.version = None THEN "legacy"
    ELSE IF ~meta.caps THEN "malformed" ELSE "modern"

\* The era dispatch serves a request in; the body decides, the header must agree.
Detect(header, meta) ==
    LET body == FromParams(meta)
    IN  IF header = None THEN body
        ELSE IF body = "modern" /\ meta.version # header THEN "mismatch"
        ELSE IF body = "legacy" /\ IsModernRevision(header) THEN "malformed"
        ELSE body

AcceptedProtocolVersion(srv, m) ==
    LET v == Single(m.version)
    IN  IF v \in Unusable THEN Refuse(400, "header_mismatch")
        ELSE IF v # None /\ ~AcceptsProtocolVersion(srv, v)
        THEN Refuse(400, "unsupported_version") ELSE Pass

\* Mutant: a body may be modern without the header.
VersionOptional(m) == Pass

\* A modern body needs the header; a notification is let through without it.
VersionRequired(m) ==
    IF m.version = <<>> /\ m.id /\ FromParams(m.meta) # "legacy"
    THEN Refuse(400, "header_mismatch") ELSE Pass

\* The era the transport goes by: the header's.
TransportModern(m) == m.version # <<>> /\ IsModernRevision(Single(m.version))
-----------------------------------------------------------------------------
(* Mirrors. A body value is [form, of]: "visible" ASCII, other "bytes", or *)
(* a "sentinel", visible text that reads as the Base64 of `of`. A header   *)
(* value is [form, of]: "plain", "wrapped" in the sentinel, or "broken".   *)

Decode(header) == IF header.form = "broken" THEN None ELSE header.of

\* The counterpart of Decode, for every value but a sentinel, which it leaves alone.
Encode(value) ==
    CASE value.form = "visible"  -> [form |-> "plain", of |-> value]
      [] value.form = "bytes"    -> [form |-> "wrapped", of |-> value]
      [] value.form = "sentinel" -> [form |-> "wrapped", of |-> [form |-> "visible", of |-> value.of]]

NameField(method) == method \in {"tools/call", "resources/read", "prompts/get"}

\* Every Mcp-Param-* header is one line of permitted characters.
ParamLines(m) ==
    IF \E h \in DOMAIN m.params : Single(m.params[h]) \in Unusable
    THEN Refuse(400, "header_mismatch") ELSE Pass

MethodMirror(m, required) ==
    LET h == Single(m.method_header)
    IN  IF h \in Unusable \/ h \notin {None, m.method} \/ (h = None /\ required)
        THEN Refuse(400, "header_mismatch") ELSE Pass

NameMirror(m, required) ==
    LET h == Single(m.name_header)
    IN  IF h \in Unusable THEN Refuse(400, "header_mismatch")
        ELSE IF ~NameField(m.method) THEN Pass
        ELSE IF h = None
        THEN IF required THEN Refuse(400, "header_mismatch") ELSE Pass
        ELSE IF m.name = None \/ Decode(h) # m.name
        THEN Refuse(400, "header_mismatch") ELSE Pass

CheckStandardHeaders(m) ==
    LET required == TransportModern(m) /\ m.id
    IN  FirstRefusal(<< ParamLines(m), MethodMirror(m, required), NameMirror(m, required) >>)

\* A client's response mirrors nothing.
CheckResponseHeaders(m) ==
    IF m.method_header = <<>> /\ m.name_header = <<>> /\ DOMAIN m.params = {}
    THEN Pass ELSE Refuse(400, "header_mismatch")

\* One annotated argument: `arg` is None when the body has no value a header could
\* mirror, else [value, safe], safe but for a number outside the safe integers.
ParamRefused(header, arg, modern) ==
    \/ header = None /\ arg # None /\ modern
    \/ header # None /\ arg = None
    \/ /\ header # None /\ arg # None
       /\ ~arg.safe \/ Decode(header) = None \/ Decode(header) # arg.value

CheckParamHeaders(schema, args, headers, modern) ==
    IF \E p \in DOMAIN schema : ParamRefused(headers[schema[p]], args[p], modern)
    THEN "header_mismatch" ELSE None
-----------------------------------------------------------------------------
(* Credentials and the headers the auth hook is handed.                    *)

BearerCredential(authorization) ==
    IF authorization \in {None, Garbled} \/ authorization.scheme # "bearer"
    THEN None ELSE authorization.credential

\* `kind` is what the header's name says of it.
IsWithheld(h) == h.kind = "credential" \/ (h.kind = "fragment" /\ ~h.param)

\* A value that is not visible ASCII is dropped, a repeated header keeps its last.
ForwardedHeaders(headers) ==
    LET kept == {i \in DOMAIN headers : ~IsWithheld(headers[i]) /\ headers[i].value # Garbled}
        at(n) == Max({i \in kept : headers[i].name = n})
    IN  [n \in {headers[i].name : i \in kept} |-> headers[at(n)].value]

AuthRefusal(e) ==
    CASE e = "unauthorized"       -> Refuse(401, "unauthorized")
      [] e \in {"forbidden", "insufficient_scope"} -> Refuse(403, "unauthorized")
      [] e = "rate_limited"       -> Refuse(429, "rate_limited")
      [] e = "internal"           -> Refuse(500, "internal_error")

Challenged(e) == e \in {"unauthorized", "insufficient_scope"}
-----------------------------------------------------------------------------
(* The gates of a whole message, in the order the handlers make them.      *)

SessionIdHeader(m) ==
    IF Single(m.session) \in Unusable THEN Refuse(400, "invalid_request") ELSE Pass

\* `handle_mcp_post` up to the parsed message.
Media(m) ==
    FirstRefusal(<<
        IF m.json THEN Pass ELSE Refuse(415, "invalid_request"),
        IF Negotiate(m.accept) # None THEN Pass ELSE Refuse(406, "invalid_request"),
        CASE m.body = "too_large" -> Refuse(413, "invalid_request")
          [] m.body = "not_utf8"  -> Refuse(400, "parse_error")
          [] m.body = "no_message" -> Refuse(400, "parse_or_invalid")
          [] OTHER -> Pass >>)

KeepsSession(srv, m) == srv.sessions /\ ~TransportModern(m)

\* `serve_request` up to authentication.
RequestGate(srv, m) ==
    FirstRefusal(<<
        AcceptedProtocolVersion(srv, m), VersionRequired(m), CheckStandardHeaders(m),
        IF KeepsSession(srv, m) /\ m.method # "initialize"
        THEN SessionIdHeader(m) ELSE Pass >>)

\* `accept_client_response` up to authentication.
ResponseGate(srv, m) ==
    FirstRefusal(<<
        AcceptedProtocolVersion(srv, m), CheckResponseHeaders(m),
        IF KeepsSession(srv, m) THEN SessionIdHeader(m) ELSE Pass >>)

PostGate(srv, m) ==
    FirstRefusal(<<
        RequireLoopbackHost(srv, m), CheckOriginAndHost(srv, m), Media(m),
        IF m.body = "response" THEN ResponseGate(srv, m) ELSE RequestGate(srv, m) >>)

DeleteGate(srv, m) ==
    FirstRefusal(<<
        RequireLoopbackHost(srv, m),
        IF srv.sessions THEN Pass ELSE Refuse(405, None),
        CheckOriginAndHost(srv, m),
        IF m.session = <<>> THEN Refuse(400, "invalid_request") ELSE SessionIdHeader(m) >>)
=============================================================================
