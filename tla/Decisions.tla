----------------------------- MODULE Decisions -----------------------------
(***************************************************************************)
(* What the decisions about a request (HttpGate, Dispatch, CallerAuth,     *)
(* ServerBuild) promise, each of one input, whatever the input is.         *)
(* MCDecisions draws bounded inputs for TLC; InwardProofs is about all.    *)
(***************************************************************************)
EXTENDS ServerBuild

VARIABLE case   \* the input at hand: what it is about, and itself
-----------------------------------------------------------------------------
(* Messages.                                                               *)

\* A page of another site that reaches a server bound to loopback, with no list of
\* its own, passes no gate: not by a foreign Host or :authority next to a local
\* one, and not under its own Origin.
LoopbackIsClosed(srv, m) ==
    /\ \A a \in srv.addresses : a = "loopback"
    /\ srv.hosts = None /\ srv.origins = [any |-> FALSE, list |-> {}]
    /\ PostGate(srv, m) = Pass \/ DeleteGate(srv, m) = Pass
    => /\ \A i \in DOMAIN m.host : m.host[i] # Garbled /\ m.host[i].host \in LoopbackHosts
       /\ m.target # None => m.target.host \in LoopbackHosts
       /\ m.host # <<>> \/ m.target # None
       /\ m.origin # None => /\ m.origin # Garbled
                             /\ m.origin.authority.host \in LoopbackHosts
                             /\ m.origin.authority.shape = "bare" /\ ~m.origin.authority.dot

\* A request that mirrors nothing and leaves its era to the header.
Unmirrored(m) ==
    /\ m.meta.version = None /\ m.session = <<>>
    /\ m.method_header = <<>> /\ m.name_header = <<>> /\ DOMAIN m.params = {}

\* The gate takes the revision `initialize` agreed to on the next request, but the
\* fallback on a server configured without it; a client that agreed to a legacy
\* revision is then served as such, and one that was echoed the modern revision is
\* not served until its requests carry the _meta.
HandshakeHolds(srv, requested, m) ==
    LET agreed == Negotiated(srv, requested)
    IN  m.version = <<agreed>> /\ Unmirrored(m) =>
            /\ AcceptedProtocolVersion(srv, m) = Pass <=> agreed \in srv.versions
            /\ agreed \in srv.versions /\ ~IsModernRevision(agreed) =>
                   RequestGate(srv, m) = Pass /\ Detect(agreed, m.meta) = "legacy"
            /\ IsModernRevision(agreed) => Detect(agreed, m.meta) = "malformed"

\* The transport goes by the header and dispatch by the body. A request that passes is
\* taken by both to be of one era, but for one case: a _meta that names a legacy
\* revision, which dispatch serves as modern and the transport as legacy.
EraIsOneEra(srv, m) ==
    LET era == Detect(Single(m.version), m.meta)
    IN  RequestGate(srv, m) = Pass /\ m.id =>
            /\ era = "modern" => (TransportModern(m) <=> IsModernRevision(m.meta.version))
            /\ era = "legacy" => ~TransportModern(m)

\* The Mcp-Param-* headers as `check_param_headers` is handed them.
ParamHeaders(m, names) ==
    [h \in names |-> IF h \in DOMAIN m.params THEN m.params[h][1] ELSE None]

\* What a gateway reads off the headers of a modern call is what the server runs:
\* its method, its tool and its annotated arguments.
MirrorsTellTheCall(srv, m, schema, args) ==
    LET headers == ParamHeaders(m, {schema[p] : p \in DOMAIN schema})
    IN  /\ RequestGate(srv, m) = Pass /\ m.id
        /\ Detect(Single(m.version), m.meta) = "modern" /\ IsModernRevision(m.meta.version)
        /\ CheckParamHeaders(schema, args, headers, TRUE) = None
        => /\ m.method_header = <<m.method>>
           /\ NameField(m.method) => m.name # None /\ Decode(m.name_header[1]) = m.name
           /\ \A p \in DOMAIN schema :
                  IF args[p] = None THEN headers[schema[p]] = None
                  ELSE Decode(m.params[schema[p]][1]) = args[p].value

\* Only a message with no id goes unanswered: an id a response could not carry back
\* is refused, null included, and no reply of a client is taken for a request.
SilenceNeedsNoId(m) ==
    /\ Parse(m) = "notification" => m.id = "absent"
    /\ Parse(m) = "request" => m.id \in {"string", "integer"}
    /\ m.method = None => ParseRequest(m) \in {"parse_error", "invalid_request"}
    /\ Parse(m) = "response" => m.method = None /\ m.result # m.error
-----------------------------------------------------------------------------
(* Dispatch.                                                               *)

\* A task, or the state of one, is answered only to a modern request that declared
\* the extension, by a server that has a manager, whatever a dispatcher returns.
TasksOnlyDeclared(srv, r, ctx) ==
    LET a == Answer(srv, r, ctx) IN
    a # None /\ a.error = None /\ a.result \in {"task", "task_state", "task_ack"} =>
        /\ srv.manager
        /\ FromParams(r.meta) = "modern" /\ r.meta.tasks

\* A modern request never gets what the revision removed, also not from a host that
\* serves the method, and a legacy one never gets a result with a modern frame.
RemovedNeverServed(srv, r, ctx) ==
    LET a == Answer(srv, r, ctx) IN
    a # None /\ a.error = None =>
        IF FromParams(r.meta) = "modern"
        THEN a.result \notin {"initialized", "empty", "set_level"} /\ r.method \notin RemovedMethods
        ELSE a.result # "input_required"

\* A tool that is not listed for a caller does not run for it either.
HiddenIsRefused(registry, request, ctx) ==
    Execute(registry, request, ctx).ran =>
        request.name \in ListDefinitionsFor(registry, ctx.is_admin)

\* Severity as RFC 5424 numbers it, the most severe zero.
Rfc5424 == [debug |-> 7, info |-> 6, notice |-> 5, warning |-> 4,
            error |-> 3, critical |-> 2, alert |-> 1, emergency |-> 0]

ASSUME LevelsAssumption == None \notin DOMAIN Rfc5424

\* A client is sent only what it asked for in the era it speaks: log messages as
\* severe as the level it named, by session or by request, and questions it
\* declared an answer to.
OnlyAskedIsSent(in) ==
    LET c     == [logging |-> in.logging, era |-> in.era, connected |-> in.connected,
                  declared |-> in.declared, reaches_client |-> in.reaches_client,
                  session_level |-> FromWire(in.set), meta_level |-> FromWire(in.meta)]
        asked == IF in.era = "legacy" THEN in.set ELSE IF in.era = "modern" THEN in.meta ELSE None
    IN  /\ \A l \in DOMAIN Rfc5424 :
               WantsLog(c, FromWire(l)) <=>
                   /\ in.logging /\ in.reaches_client
                   /\ asked \in DOMAIN Rfc5424 /\ Rfc5424[l] <= Rfc5424[asked]
        /\ QuestionRefused(c) = None => in.era = "legacy" /\ in.declared /\ in.reaches_client

\* An elicitation schema is read back as the kind it was written as, whatever
\* optional members it carries: the shapes have no tag, only an order.
SchemaRoundTrip(kind, extra) ==
    ReadSchema(SchemaType(kind), RequiredMembers(kind) \cup extra) = kind

SetLevelContext == [Anonymous EXCEPT !.session = TRUE]

\* What `server/discover` advertises is what the server then serves, to a client that
\* declares the extension and to a session that sets its level.
AdvertisedIsServed(server, tools) ==
    LET advertised == AdvertisedCapabilities(server)
        served(method, meta) ==
            Answer(Running(server, tools),
                   [jsonrpc |-> "2.0", id |-> TRUE, method |-> method, meta |-> meta,
                    header |-> None, params |-> "ok", task |-> "ok"],
                   SetLevelContext).error = None
    IN  /\ "extension:tasks" \in advertised <=>
               served("tasks/get", [version |-> Modern, caps |-> TRUE, tasks |-> TRUE])
        /\ "logging" \in advertised <=>
               served("logging/setLevel", [version |-> None, caps |-> FALSE, tasks |-> FALSE])

\* Two builders of different fields may be called in either order.
BuildersCommute(server, b, c) ==
    b.with # c.with => With(With(server, b), c) = With(With(server, c), b)
-----------------------------------------------------------------------------
(* Callers.                                                                *)

Identify(in) == CallerHook(in.hook, in.presented, in.token, in.keys)

\* The caller presented a token that this server's issuer signed for this server.
Verified(in) ==
    /\ in.presented \notin {None, Empty} /\ in.keys = "key"
    /\ SignedFor(in.token, {in.hook.issuer}, in.hook.audience)

\* The shared key, where there is one.
SharedKey(in) == in.hook.shared \notin Blank /\ in.presented = in.hook.shared

Flags == {"ADMIN_ONLY", "REQUIRES_AUTH", "REQUIRES_TENANT"}

Asks(tool) == tool.caps \cap Flags # {} \/ tool.scopes # {}

\* From credential to tool: a request is let in by a key or token of this server or
\* for want of one, and a tool that asks for a caller, a tenant or a scope runs
\* only for a token this server's issuer signed for this server.
OnlyVerifiedIsIdentified(in) ==
    LET c == Identify(in).ctx
        runs(name) == Execute(in.registry, [name |-> name, arguments_conform |-> TRUE], c).ran
    IN  c # None =>
            /\ \/ Verified(in) \/ SharedKey(in)
               \/ in.presented \in {None, Empty} /\ in.hook.anonymous
            /\ \A name \in DOMAIN in.registry :
                   runs(name) /\ Asks(in.registry[name]) => Verified(in)

\* A server that cannot reach its keys says so: it neither lets the token in nor
\* tells the client to get another.
OutageIsNotRefusal(in) ==
    LET seen == Identify(in) IN
    in.keys = "unavailable" /\ in.presented \notin {None, Empty, in.hook.shared} =>
        /\ seen.ctx = None /\ ~Challenged(seen.refused)
        /\ AuthRefusal(seen.refused).status = 500

\* The Google gate and the caller gate are apart, even with one audience and the same
\* keys, and an allowlist lets through none but verified addresses on it.
GatesAreApart(in) ==
    RequireGoogleIdToken(in.authorization, in.token, in.keys, in.audience, in.allowed) =>
        /\ in.token.signed /\ in.token.fresh /\ in.audience \in in.token.aud
        /\ in.authorization.scheme = "bearer"
        /\ in.issuer \notin GoogleIssuers =>
               VerifyCaller(in.token, in.keys, in.issuer, in.audience).ctx = None
        /\ in.allowed = {} \/ (in.token.email \in in.allowed /\ in.token.email_verified)

\* The check at start-up, the middleware and the hook read the shared key alike: a
\* server that starts on a reachable address lets exactly the key in, through
\* either, and a blank key is none.
KeyGatesAgree(in) ==
    LET cred == BearerCredential(in.authorization)
        hook == ApiKeyHook(in.env, cred).refused = None
    IN  /\ hook => in.env \notin Blank /\ cred = in.env
        /\ StartupAuth(in.env, FALSE) # "insecure_bind" =>
               /\ RequireAuth(in.env, in.authorization) <=> hook
               /\ hook <=> cred = in.env

\* A caller gate is configured whole or the host is told: no variable that is set is
\* passed over, and a token of the configured issuer for the published resource,
\* which is not in clear, is the one the gate then takes.
CallerConfigHolds(in) ==
    LET env    == in.env
        config == CallerConfig(env)
        token(aud) == [signed |-> TRUE, fresh |-> TRUE, iss |-> env.issuer, aud |-> {aud},
                       early |-> FALSE, sub |-> in.user, tenant |-> None, scope |-> {}]
        taken(aud) ==
            VerifyCaller(token(aud), "key", config.issuer, config.audience).refused = None
    IN  /\ config.outcome = "none" => Missing(env) = DOMAIN env
        /\ config.outcome = "configured" =>
               /\ config.issuer \notin Blank
               /\ config.document.scheme = "https" \/ config.document.host \in LoopbackHosts
               /\ in.user \notin Blank => taken(config.document)
               /\ \A other \in in.others : other # config.document => ~taken(other)

\* A refused client is sent to the document of the host it dialed, and finds that
\* very document there, when no two documents have one authority; behind a proxy
\* as well, though the POST and the GET read the headers differently. `inner` is the
\* host the proxy itself dials.
ChallengeLeadsHome(in) ==
    LET docs      == in.documents
        line(a)   == IF a = None THEN <<>> ELSE <<a>>
        forwarded(a) == IF in.proxied THEN line(a) ELSE <<>>
        host(a)   == IF in.proxied THEN <<in.inner>> ELSE line(a)
        dialed == IF in.dialed = 0 THEN None ELSE Authority(docs[in.dialed])
        mine   == docs[IF in.dialed = 0 THEN 1 ELSE in.dialed]
        doc    == ForHost(docs, RequestDialedHost(forwarded(dialed), host(dialed)))
        link   == Challenge(doc, None, None).url
        got    == DialedHost(forwarded(link.authority), host(link.authority))
    IN  (\A i, j \in DOMAIN docs : Authority(docs[i]) = Authority(docs[j]) => i = j) =>
            /\ doc = mine
            /\ ServeMetadata(docs, [link EXCEPT !.authority = got]) = doc

\* The environment of a host has the variables that are read.
Setting(in) == {"resource", "issuer", "jwks", "server"} \subseteq DOMAIN in.env

\* Documents under some hosts, one of them or none dialed, directly or through a
\* proxy that has an authority of its own. An authority is a value that is there.
Dialing(in) ==
    /\ DOMAIN in.documents \subseteq Nat /\ 1 \in DOMAIN in.documents
    /\ in.dialed = 0 \/ in.dialed \in DOMAIN in.documents
    /\ \A i \in DOMAIN in.documents : Authority(in.documents[i]) \notin {None, Garbled, in.inner}
    /\ in.inner \notin {None, Garbled}

\* Callers are told apart by what was verified of them, through every gate and under
\* every configuration, and one that is refused is told why and where to go
\* (server/auth.rs, mcp/auth.rs, mcp/caller.rs, iam/verify.rs, resource_metadata).
CallersToldApart ==
    /\ case.about = "presented" => OnlyVerifiedIsIdentified(case.in) /\ OutageIsNotRefusal(case.in)
    /\ case.about = "google" => GatesAreApart(case.in)
    /\ case.about = "shared_key" => KeyGatesAgree(case.in)
    /\ case.about = "settings" => CallerConfigHolds(case.in)
    /\ case.about = "dialed" => ChallengeLeadsHome(case.in)
=============================================================================
