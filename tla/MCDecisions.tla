---------------------------- MODULE MCDecisions ----------------------------
(***************************************************************************)
(* The decisions that keep no state, each over a bounded set of inputs: a  *)
(* step from the initial state draws an input, and the properties are what *)
(* Decisions says of it, or compare what is decided with a reference.      *)
(***************************************************************************)
EXTENDS Decisions, Redaction, FiniteSets

Undrawn == [about |-> "nothing"]
Draw(about, inputs) ==
    /\ case = Undrawn
    /\ \E in \in inputs : case' = [about |-> about, in |-> in]
-----------------------------------------------------------------------------
(* Accept headers.                                                         *)

MediaRanges ==
    [media : {Json, <<"application", "*">>, EventStream, AnyMedia, Garbled}, q : {0, 5, 10}]

Accepts == {None} \cup UNION {[1..n -> MediaRanges] : n \in 0..3}

\* The weight RFC 9110 gives a media type: the most specific ranges that cover it
\* decide, the largest weight among those.
RfcWeight(accept, media) ==
    LET ranges  == IF accept = None THEN {[media |-> AnyMedia, q |-> 10]}
                   ELSE {accept[i] : i \in DOMAIN accept}
        covers  == {r \in ranges : r.media # Garbled /\ Covers(r.media, media)}
        best    == {r \in covers : \A o \in covers : Specificity(o.media) <= Specificity(r.media)}
    IN  IF covers = {} THEN 0 ELSE Max({r.q : r \in best})

\* accept_weight, a fold over the header in its order, gives every media type its
\* RFC weight whatever the order; nothing is answered in a type of weight zero.
AcceptFollowsRFC(accept) ==
    LET json == RfcWeight(accept, Json) stream == RfcWeight(accept, EventStream)
        n == Negotiate(accept)
    IN  IF json = 0 /\ stream = 0 THEN n = None
        ELSE n = [single_as_event |-> stream > json, may_stream |-> stream > 0]
-----------------------------------------------------------------------------
(* Messages: the authorities and origins of some, the versions and mirrors *)
(* of others.                                                              *)

Authority1(host, dot) == [shape |-> "bare", host |-> host, dot |-> dot, port |-> None]
Local    == Authority1("localhost", FALSE)
Dotted   == Authority1("localhost", TRUE)
Foreign  == Authority1("evil", FALSE)
Userinfo == [Local EXCEPT !.shape = "userinfo"]

A == [form |-> "visible", of |-> "a"]
B == [form |-> "bytes", of |-> "b"]

Plain ==
    [host |-> <<Local>>, target |-> None, origin |-> None, json |-> TRUE, accept |-> None,
     body |-> "request", version |-> <<>>, id |-> TRUE, session |-> <<>>,
     meta |-> [version |-> None, caps |-> FALSE, tasks |-> FALSE],
     method |-> "ping", method_header |-> <<>>, name |-> None, name_header |-> <<>>,
     params |-> [h \in {} |-> <<>>], arg |-> None]

LocalServer ==
    [addresses |-> {"loopback"}, hook |-> FALSE, hosts |-> None,
     origins |-> [any |-> FALSE, list |-> {}], sessions |-> TRUE,
     versions |-> {Current, Modern}]

HostLines == {Local, Dotted, Foreign, Userinfo, Garbled}

Addressed ==
    { [Plain EXCEPT !.host = host, !.target = target, !.origin = origin, !.body = body] :
        host \in {<<>>} \cup {<<h>> : h \in HostLines} \cup {<<g, h>> : g, h \in HostLines},
        target \in {None, Local, Foreign},
        origin \in {None, Garbled} \cup
            [scheme : {"http", "null"}, authority : {Local, Dotted, Foreign, Userinfo}],
        body \in {"request", "response"} }

Mirrored ==
    { [Plain EXCEPT !.version = version, !.id = id, !.meta = meta, !.method = method,
                    !.method_header = mh, !.name = name, !.name_header = nh, !.arg = arg,
                    !.params = params] :
        version \in {<<>>, <<20250618>>, <<Current>>, <<Modern>>, <<Garbled>>, <<Modern, Modern>>},
        id \in BOOLEAN,
        meta \in [version : {None, Current, Modern}, caps : BOOLEAN, tasks : {FALSE}],
        method \in {"tools/call", "ping"},
        mh \in {<<>>, <<"tools/call">>, <<"ping">>},
        name \in {None, A, B},
        nh \in {<<>>, <<Encode(A)>>, <<Encode(B)>>, <<[form |-> "broken", of |-> A]>>},
        arg \in {None, [value |-> B, safe |-> TRUE]},
        params \in {[h \in {} |-> <<>>], [h \in {"p"} |-> <<Encode(B)>>],
                    [h \in {"p"} |-> <<Encode(A)>>]} }

Offers ==
    [versions : SUBSET {20250618, Current, Modern} \ {{}},
     requested : {None, 0, 20241105, 20250326, 20250618, Current, Modern, 20991231}]

-----------------------------------------------------------------------------
(* Dispatch.                                                               *)

Tool1 ==
    [caps |-> {}, scopes |-> {}, input_usable |-> TRUE, output |-> None,
     output_usable |-> TRUE, answer |-> [is_error |-> FALSE, structured |-> "absent"]]

Requests1 ==
    [jsonrpc : {"2.0"}, id : BOOLEAN,
     method : {"initialize", "ping", "logging/setLevel", "tools/call", "tools/list",
               "tasks/get", "tasks/update", "server/discover", "custom"},
     meta : [version : {None, Current, Modern}, caps : BOOLEAN, tasks : BOOLEAN],
     header : {None, Modern}, params : {"ok"}, task : {"ok", "not_found"},
     call : {[name |-> "t", arguments_conform |-> TRUE]}, headers : {None}]

Servers ==
    [versions : {{Current, Modern}}, handler : {{}, {"ping", "custom", "tasks/get"}},
     manager : BOOLEAN, dispatcher : {None, "task", "input_required", "tool_result"},
     tools : {[n \in {"t"} |-> Tool1]}, resolves : {{"t"}}, logging : {TRUE}]

Wires ==
    [json : BOOLEAN, object : BOOLEAN, method : {None, "m"}, jsonrpc : {None, "2.0"}, ok : BOOLEAN,
     id : {"absent", "null", "string", "integer", "fraction", "object"},
     result : BOOLEAN, error : BOOLEAN]

OutputSchemas ==
    {None, [type |-> "object", properties |-> "objects", required |-> "absent"],
           [type |-> "array", properties |-> "absent", required |-> "absent"],
           [type |-> "object", properties |-> "booleans", required |-> "names"]}

Registrations ==
    UNION {[1..n -> [name : {"t", "u"}, output : OutputSchemas, category : {None, "c"}]] :
               n \in 0..3}

RegisterAll(regs) ==
    FoldLeft(LAMBDA r, new :
                LET tool == [Tool1 EXCEPT !.output = new.output]
                IN  [tools |-> Insert(r.tools, new.name, tool),
                     names |-> IF new.category = None THEN r.names
                               ELSE Categorise(r.names, r.tools, new.name, tool)],
             [tools |-> [n \in {} |-> Tool1], names |-> <<>>], regs)

\* After any registrations, a listing has no tool a client would reject it over, a
\* name is served by the last sound tool of that name, and a category names tools
\* that are there.
RegistryListsSound(regs) ==
    LET done  == RegisterAll(regs)
        sound == {i \in DOMAIN regs : regs[i].output \in {None} \cup
                     {s \in OutputSchemas \ {None} : ~OutputSchemaDefect(s)}}
    IN  /\ DOMAIN done.tools = {regs[i].name : i \in sound}
        /\ \A n \in DOMAIN done.tools :
               done.tools[n].output = regs[Max({i \in sound : regs[i].name = n})].output
        /\ Range(done.names) \subseteq ListDefinitionsFor(done.tools, FALSE)

Channels ==
    [logging : BOOLEAN, era : {"legacy", "modern", "unbound"}, connected : BOOLEAN,
     declared : BOOLEAN, reaches_client : BOOLEAN,
     set : {None, "debug", "warning", "emergency", "loud"},
     meta : {None, "info", "warning", "loud"}]

Calls ==
    [store |-> 30, limits |-> [total |-> 2, per_caller |-> 1], manager |-> TRUE,
     capabilities |-> {"tools", "logging"}, versions |-> {Modern}, handler |-> {"custom"}]

Builds == UNION {{s \in [1..n -> DOMAIN Calls] : IsInjective(s)} : n \in 0..4}

BuiltBy(names) == Build([i \in DOMAIN names |-> [with |-> names[i], value |-> Calls[names[i]]]])

\* A server is what its builders say, in whatever order they were called: "before or
\* after" holds for the limits of a store too.
BuildOrderIsFree(builders) ==
    LET server == BuiltBy(builders)
        set    == Range(builders)
    IN  /\ \A field \in DOMAIN NewServer \ {"store"} :
               server[field] = IF field \in set THEN Calls[field] ELSE NewServer[field]
        /\ server.store = IF "store" \in set
                          THEN [ttl |-> Calls.store, limits |-> server.limits] ELSE None
        /\ \A f, g \in DOMAIN Calls :
               BuildersCommute(server, [with |-> f, value |-> Calls[f]],
                                       [with |-> g, value |-> Calls[g]])

Schemas == [kind : {SchemaOrder[i] : i \in DOMAIN SchemaOrder},
            extra : SUBSET {"title", "default", "minItems"}]
-----------------------------------------------------------------------------
(* Callers.                                                                *)

\* Every tool a registry may hold, by what it asks of its caller.
AskingTools ==
    { [Tool1 EXCEPT !.caps = caps, !.scopes = scopes] : caps \in SUBSET Flags, scopes \in {{}, {"s"}} }

Presentations ==
    [hook : [anonymous : BOOLEAN, shared : {None, " ", "key"}, issuer : {"me"}, audience : {"here"}],
     presented : {None, "key", " ", "jwt"},
     token : [signed : BOOLEAN, fresh : {TRUE}, iss : {"me", "you"}, aud : {{"here"}, {"there"}},
              early : {FALSE}, sub : {" ", "u"}, tenant : {None, " ", "t"}, scope : {{}, {"s"}}],
     keys : {"key", "none", "unavailable"}, registry : {[tool \in AskingTools |-> tool]}]

\* Of every tool, also when the caller is an administrator.
HiddenNeverRuns(in) ==
    LET c == Identify(in).ctx IN
    c # None => \A tool \in AskingTools, is_admin \in BOOLEAN :
        HiddenIsRefused(in.registry, [name |-> tool, arguments_conform |-> TRUE],
                        [c EXCEPT !.is_admin = is_admin])

GoogleTokens ==
    [token : [signed : BOOLEAN, fresh : BOOLEAN, iss : {"me", "accounts.google.com"},
              aud : {{"here"}, {"there"}}, email : {None, "a@x", "b@x"}, email_verified : BOOLEAN,
              early : {FALSE}, sub : {"u"}, tenant : {None}, scope : {{}}],
     keys : {"key", "none", "unavailable"}, audience : {"here"}, issuer : {"me"},
     allowed : {{}, {"a@x"}},
     authorization : {None, Garbled} \cup [scheme : {"bearer", "basic"}, credential : {"jwt"}]]

SharedKeys ==
    [env : {None, "", " ", "key"}, loopback : BOOLEAN,
     authorization : {None, Garbled} \cup
         [scheme : {"bearer", "basic"}, credential : {"", " ", "key", "guess"}]]

Resources ==
    [scheme : {"http", "https"}, host : {"a", "b"}, port : {None, 443, 8080}, path : {"", "mcp"},
     clean : {TRUE}]

SomeResources ==
    [scheme : {"http", "https"}, host : {"a", "localhost"}, port : {None}, path : {"mcp", "other"},
     clean : BOOLEAN]

Settings ==
    [env : [resource : {None} \cup {r \in SomeResources : r.path = "mcp"},
            issuer : {None, " ", "me"}, jwks : {None, "keys"}, server : {None, "", "as"}],
     user : {"u", Spaces}, others : {SomeResources}]

ASSUME SettingsAssumption == \A in \in Settings : Setting(in)

Published == {r \in Resources : ResourceAdmitted(r, "allow_http")}

Dialings == [documents : Published \X Published, dialed : 0..2, proxied : BOOLEAN,
             inner : {[host |-> "inner", port |-> None]}]

ASSUME DialingsAssumption == \A in \in Dialings : Dialing(in)

-----------------------------------------------------------------------------
(* What leaves the process.                                                *)

SecretTexts == UNION {[1..n -> {"a", "b"}] : n \in 1..3}

Environments ==
    [1..2 -> [segments : {<<"TOKEN">>, <<"API", "KEY", "2">>, <<"TOKEN", "TTL">>},
              value : SecretTexts]]

\* Whatever the environment registers, in whatever order, a line with a secret in it
\* comes out with the mask in its place and nothing left of it, though secrets
\* contain one another; a line with none comes out as it was.
SecretsLeaveNothing ==
    case.about = "environment" =>
        LET secrets == RegisterEnv(case.in)
            around(v) == <<".">> \o v \o <<".">>
        IN  /\ \A i \in DOMAIN case.in :
                   case.in[i].segments # <<"TOKEN", "TTL">> /\ Len(case.in[i].value) > 1 =>
                       Redact(secrets, around(case.in[i].value)) = <<".", Mask, ".">>
            /\ \A text \in SecretTexts :
                   /\ \A s \in Range(secrets) : ~Occurs(Redact(secrets, text), s)
                   /\ (\A s \in Range(secrets) : ~Occurs(text, s)) => Redact(secrets, text) = text

Payloads ==
    [text : UNION {[1..n -> {1, 4}] : n \in {0, 3, 4, 8}},
     policy : [arguments : BOOLEAN, results : BOOLEAN,
               max_bytes : {0, 4, 13, 14, 15, 16, 17, 18, 20}]]

\* An observer sees of a payload what the policy asks for and no more than its limit,
\* marker included, cut between characters and only when it does not fit; and
\* nothing of one its redactor withdrew.
CaptureFits ==
    case.about = "payload" =>
        LET p == case.in.policy
            arguments(text) == ArgumentsSeen(p, "tools/call", text)
            result(text)    == ResultSeen(p, "tools/call", "tool_result", text).payload
            fits(asked, seen) ==
                /\ asked <=> seen.omitted # "not_asked"
                /\ seen.size <= p.max_bytes /\ IsPrefix(seen.text, case.in.text)
                /\ asked => (Size(case.in.text) <= p.max_bytes <=>
                                 seen = Captured(case.in.text, 0))
        IN  /\ fits(p.arguments, arguments(case.in.text))
            /\ fits(p.results, result(case.in.text))
            /\ arguments(Withdrawn).text = <<>> /\ result(Withdrawn).text = <<>>
-----------------------------------------------------------------------------
DecideInit == case = Undrawn

Decide ==
    \/ Draw("accept", Accepts)
    \/ Draw("addressed", Addressed)
    \/ Draw("mirrored", Mirrored)
    \/ Draw("dispatched", [srv : Servers, r : Requests1])
    \/ Draw("schema", Schemas)
    \/ Draw("presented", Presentations)
    \/ Draw("shared_key", SharedKeys)
    \/ Draw("dialed", Dialings)
    \/ Draw("offer", Offers)
    \/ Draw("wire", Wires)
    \/ Draw("registered", Registrations)
    \/ Draw("channel", Channels)
    \/ Draw("built", Builds)
    \/ Draw("google", GoogleTokens)
    \/ Draw("settings", Settings)
    \/ Draw("environment", Environments)
    \/ Draw("payload", Payloads)
-----------------------------------------------------------------------------
(* The properties of a decision, by what they are about.                   *)

\* Transport and dispatch read a request one way: the answer's media type, the
\* host it is for, its era (but for a _meta that names a legacy revision), the call
\* it makes and whether it wants an answer are the same to whoever looks, and what
\* was agreed on at the handshake says what the gates then admit and dispatch serves
\* (transport/http.rs, mirror.rs, modern.rs, protocol.rs).
RequestsReadOneWay ==
    /\ case.about = "accept" => AcceptFollowsRFC(case.in)
    /\ case.about = "addressed" => LoopbackIsClosed(LocalServer, case.in)
    /\ case.about = "mirrored" =>
           /\ EraIsOneEra(LocalServer, case.in)
           /\ MirrorsTellTheCall(LocalServer, case.in, [x \in {"x"} |-> "p"], [x \in {"x"} |-> case.in.arg])
    /\ case.about = "offer" =>
           LET srv == [LocalServer EXCEPT !.versions = case.in.versions]
           IN  HandshakeHolds(srv, case.in.requested,
                   [Plain EXCEPT !.version = <<Negotiated(srv, case.in.requested)>>])
    /\ case.about = "wire" => SilenceNeedsNoId(case.in)

\* A server serves what it says it serves: what is advertised, listed or registered
\* is answered, what is removed, hidden or undeclared is refused or kept back, and
\* neither depends on the order it was put together in (server.rs, tool.rs,
\* elicitation.rs, client_channel.rs).
ServedAsAdvertised ==
    /\ case.about = "built" =>
           /\ AdvertisedIsServed(BuiltBy(case.in), [n \in {"t"} |-> Tool1])
           /\ BuildOrderIsFree(case.in)
    /\ case.about = "dispatched" =>
           /\ RemovedNeverServed(case.in.srv, case.in.r, SetLevelContext)
           /\ TasksOnlyDeclared(case.in.srv, case.in.r, SetLevelContext)
    /\ case.about = "registered" => RegistryListsSound(case.in)
    /\ case.about = "presented" => HiddenNeverRuns(case.in)
    /\ case.about = "channel" => OnlyAskedIsSent(case.in)
    /\ case.about = "schema" => SchemaRoundTrip(case.in.kind, case.in.extra)

\* What is written about requests shows no secret and no more of a payload than was
\* asked for (secrets.rs, mcp/observe).
LittleIsShown == SecretsLeaveNothing /\ CaptureFits
=============================================================================
