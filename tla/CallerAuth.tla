----------------------------- MODULE CallerAuth -----------------------------
(***************************************************************************)
(* Who a request comes from: the shared key (`server/auth.rs`, the         *)
(* `ApiKeyAuthHook` of `mcp/auth.rs`), the caller token (`mcp/caller.rs`), *)
(* the Google identity token (`iam/verify.rs`), and the protected-resource *)
(* document a refused client is sent to (`mcp/resource_metadata`).         *)
(*                                                                         *)
(* A token is the record of what its header and claims say; the identity   *)
(* a hook resolves is a context Dispatch's registry gate reads.            *)
(***************************************************************************)
EXTENDS Dispatch

Blank == {None, Empty, Spaces}
-----------------------------------------------------------------------------
(* The shared key. `env` is the variable's value, `trimmed` being all that *)
(* is left of it here: a key or blank.                                     *)

ConfiguredKey(env) == IF env \in Blank THEN None ELSE env

\* `require_auth`: whether the request passes. No key at all lets everyone through.
RequireAuth(env, authorization) ==
    ConfiguredKey(env) \in {None, BearerCredential(authorization)}

ResolveStartupAuth(loopback, gated) ==
    IF gated THEN "enforced" ELSE IF loopback THEN "loopback_dev" ELSE "insecure_bind"

StartupAuth(env, loopback) == ResolveStartupAuth(loopback, ConfiguredKey(env) # None)

Anonymous == [user_id |-> None, tenant_id |-> None, scopes |-> {}, is_admin |-> FALSE,
              session |-> FALSE]

Admitted(ctx)   == [ctx |-> ctx, refused |-> None]
Denied(refused) == [ctx |-> None, refused |-> refused]

\* `ApiKeyAuthHook::admit`: unlike the middleware, no key admits no one.
Admit(env, presented) ==
    ConfiguredKey(env) # None /\ presented = ConfiguredKey(env)

ApiKeyHook(env, token) ==
    IF Admit(env, IF token = None THEN Empty ELSE token)
    THEN Admitted(Anonymous) ELSE Denied("unauthorized")
-----------------------------------------------------------------------------
(* Tokens. `keys` is what the key set answers for the token: a "key", no   *)
(* such key, or an unreachable endpoint.                                   *)

\* What `decode` requires of a token: signature, exp, issuer and audience.
SignedFor(token, issuers, audience) ==
    /\ token.signed /\ token.fresh
    /\ token.iss \in issuers
    /\ audience \in token.aud

\* `CallerTokenVerifier::verify`. A tenant claim that is there must name one.
VerifyCaller(token, keys, issuer, audience) ==
    IF keys = "unavailable" THEN Denied("jwks_unavailable")
    ELSE IF \/ keys # "key" \/ ~SignedFor(token, {issuer}, audience)
            \/ token.early \/ token.sub \in Blank
            \/ token.tenant \notin {None, "null"} /\ token.tenant \in Blank \cup {"number"}
    THEN Denied("rejected")
    ELSE Admitted([Anonymous EXCEPT
             !.user_id   = token.sub,
             !.tenant_id = IF token.tenant = "null" THEN None ELSE token.tenant,
             !.scopes    = token.scope])

\* Mutant: a token that cannot be checked is refused like a bad one.
CallerHookRefuses(hook, presented, token, keys) ==
    IF presented \in {None, Empty}
    THEN IF hook.anonymous THEN Admitted(Anonymous) ELSE Denied("unauthorized")
    ELSE IF hook.shared # None /\ Admit(hook.shared, presented) THEN Admitted(Anonymous)
    ELSE LET v == VerifyCaller(token, keys, hook.issuer, hook.audience)
         IN  IF v.refused = None THEN v ELSE Denied("unauthorized")

\* `CallerAuthHook`: no token, the shared key, then the caller token. A server
\* that cannot check a token says so (500) instead of refusing it (401).
CallerHook(hook, presented, token, keys) ==
    IF presented \in {None, Empty}
    THEN IF hook.anonymous THEN Admitted(Anonymous) ELSE Denied("unauthorized")
    ELSE IF hook.shared # None /\ Admit(hook.shared, presented) THEN Admitted(Anonymous)
    ELSE LET v == VerifyCaller(token, keys, hook.issuer, hook.audience)
         IN  CASE v.refused = "jwks_unavailable" -> Denied("internal")
               [] v.refused = "rejected" -> Denied("unauthorized")
               [] OTHER -> v

GoogleIssuers == {"https://accounts.google.com", "accounts.google.com"}

\* `GoogleIdTokenVerifier::verify`; the allowlist counts verified addresses only.
VerifyGoogle(token, keys, audience, allowed) ==
    /\ keys = "key" /\ SignedFor(token, GoogleIssuers, audience)
    /\ allowed # {} => token.email \in allowed /\ token.email_verified

RequireGoogleIdToken(authorization, token, keys, audience, allowed) ==
    /\ BearerCredential(authorization) # None
    /\ VerifyGoogle(token, keys, audience, allowed)

-----------------------------------------------------------------------------
(* Protected-resource metadata. A resource is [scheme, host, port, path,   *)
(* clean]; clean when it has no query, fragment, space or credentials.     *)

DefaultPort(scheme) == IF scheme = "https" THEN 443 ELSE 80

ResourceAdmitted(resource, policy) ==
    /\ resource.clean /\ resource.scheme \in {"http", "https"}
    /\ \/ resource.scheme = "https" \/ policy = "allow_http"
       \/ policy = "https_or_loopback_http" /\ resource.host \in LoopbackHosts

\* The resource's variable is read as the URL it holds, None when it is blank.
Missing(env) ==
    {v \in DOMAIN env : IF v = "resource" THEN env[v] = None ELSE env[v] \in Blank}

Configuration(outcome, env) ==
    [outcome |-> outcome, issuer |-> env.issuer, audience |-> env.resource,
     document |-> env.resource]

\* `CallerTokenConfig::from_env`: all four variables or none, and a resource that may
\* be published; it is the tokens' audience and the document's name.
CallerConfig(env) ==
    IF Missing(env) = DOMAIN env THEN Configuration("none", env)
    ELSE IF Missing(env) # {} THEN Configuration("incomplete", env)
    ELSE IF ~ResourceAdmitted(env.resource, "https_or_loopback_http")
    THEN Configuration("invalid_resource", env) ELSE Configuration("configured", env)

\* What a client writes in Host when it dials a URL, and what a document is
\* known by: the authority without its scheme's default port.
Authority(r) ==
    [host |-> r.host,
     port |-> IF r.port = DefaultPort(r.scheme) THEN None ELSE r.port]

IsDialedAs(resource, dialed) == Authority(resource) = dialed

\* The first document, the canonical one first, that is dialed as `dialed`.
ForHost(documents, dialed) ==
    LET known == {i \in DOMAIN documents : IsDialedAs(documents[i], dialed)}
    IN  IF dialed = None \/ known = {} THEN documents[1] ELSE documents[Min(known)]

\* `dialed_host` off the HTTP headers: a header's first line, X-Forwarded-Host
\* before Host, a garbled one passed over. A line is the first entry of its list.
DialedHost(forwarded, host) ==
    IF forwarded # <<>> /\ forwarded[1] # Garbled THEN forwarded[1]
    ELSE IF host # <<>> /\ host[1] # Garbled THEN host[1] ELSE None

PlainLine(name, value) == [name |-> name, kind |-> "plain", param |-> FALSE, value |-> value]
PlainLines(name, ls)   == [i \in DOMAIN ls |-> PlainLine(name, ls[i])]

\* `JsonRpcRequest::dialed_host` off the forwarded headers, which keep the last
\* readable line of each.
RequestDialedHost(forwarded, host) ==
    LET kept == ForwardedHeaders(PlainLines("x-forwarded-host", forwarded) \o PlainLines("host", host))
    IN  IF "x-forwarded-host" \in DOMAIN kept THEN kept["x-forwarded-host"]
        ELSE IF "host" \in DOMAIN kept THEN kept["host"] ELSE None

\* The paths the documents are served at: each one's own and the bare fallback.
MetadataPaths(documents) == {Empty} \cup {documents[i].path : i \in DOMAIN documents}

\* `BearerChallenge`: the document of a refusal, and what it says of it.
Challenge(document, error, scope) ==
    [url |-> [authority |-> Authority(document), path |-> document.path],
     error |-> error, scope |-> scope]

\* `serve_resource_metadata`: the document a GET is answered with, None for a 404.
ServeMetadata(documents, url) ==
    IF url.path \in MetadataPaths(documents) THEN ForHost(documents, url.authority) ELSE None
=============================================================================
