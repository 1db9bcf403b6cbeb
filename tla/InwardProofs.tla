---------------------------- MODULE InwardProofs ----------------------------
(***************************************************************************)
(* Theorems about what comes in: a client's walk over a list, for every    *)
(* set of tool names, page size and way the list changes between two       *)
(* pages, and the decisions about a request, for every request.            *)
(***************************************************************************)
EXTENDS ToolListing, Decisions, FiniteSetTheorems, TLAPS

-----------------------------------------------------------------------------
(* The walk.                                                               *)

ListTypeOK ==
    /\ listed \subseteq Tools
    /\ steady \subseteq listed
    /\ cursor \in Nat
    /\ served \in [Tools -> Nat]
    /\ walking \in BOOLEAN

\* The cursor divides the names: none after it was served, and before it each
\* name listed throughout was.
Divided ==
    /\ \A k \in Tools : served[k] <= 1
    /\ walking => \A k \in Tools : k > cursor => served[k] = 0
    /\ walking => \A k \in steady : k <= cursor => served[k] = 1
    /\ ~walking => \A k \in steady : served[k] = 1

\* The inductive invariant.
ListInv == ListTypeOK /\ Divided

\* A page has no gap: a name left to serve that comes before one of the page is
\* on the page.
LEMMA PageIsPrefix ==
    ASSUME NEW rest, rest \subseteq Tools,
           NEW k \in rest, NEW last \in Truncated(rest), k <= last
    PROVE  k \in Truncated(rest)
<1> DEFINE Below(n) == {j \in rest : j < n}
<1>1. rest \subseteq Nat /\ IsFiniteSet(rest) /\ PageSize \in Nat
  BY FS_Subset, ListingAssumption
<1>2. last \in rest /\ Cardinality(Below(last)) < PageSize
  BY DEF Truncated
<1>3. IsFiniteSet(Below(last))
  <2>1. Below(last) \subseteq rest
    OBVIOUS
  <2> QED
    BY <2>1, <1>1, FS_Subset
<1>4. Below(k) \subseteq Below(last)
  <2> SUFFICES ASSUME NEW j \in rest, j < k PROVE j < last
    OBVIOUS
  <2>1. j \in Nat /\ k \in Nat /\ last \in Nat
    BY <1>1, <1>2
  <2> QED
    BY <2>1
<1>5. /\ Cardinality(Below(k)) <= Cardinality(Below(last))
      /\ IsFiniteSet(Below(k))
  BY <1>3, <1>4, FS_Subset
<1>6. Cardinality(Below(k)) \in Nat /\ Cardinality(Below(last)) \in Nat
  BY <1>3, <1>5, FS_CardinalityType
<1>7. Cardinality(Below(k)) < PageSize
  <2> HIDE DEF Below
  <2> QED
    BY <1>1, <1>2, <1>5, <1>6
<1> QED
  BY <1>7 DEF Truncated

\* A page of names after the cursor counts each of them once, and none other.
LEMMA ServeCounts ==
    ASSUME ListInv, walking, NEW page, page \subseteq Rest, Serve(page)
    PROVE  /\ served' \in [Tools -> Nat]
           /\ \A k \in Tools : served'[k] <= 1
           /\ \A k \in page : served'[k] = 1
           /\ \A k \in Tools \ page : served'[k] = served[k]
<1>1. Tools \subseteq Nat
  BY ListingAssumption
<1>2. page \subseteq Tools /\ \A k \in page : k > cursor
  BY DEF Rest, ListInv, ListTypeOK
<1>3. \A k \in page : served[k] = 0
  BY <1>2 DEF ListInv, Divided
<1>4. served' = [k \in Tools |-> IF k \in page THEN served[k] + 1 ELSE served[k]]
  BY DEF Serve
<1>5. served \in [Tools -> Nat] /\ \A k \in Tools : served[k] <= 1
  BY DEF ListInv, ListTypeOK, Divided
<1> QED
  BY <1>2, <1>3, <1>4, <1>5

\* One `tools/list`, a page that stops short and the last one.
LEMMA PageKeeps ==
    ASSUME ListInv, ListPage
    PROVE  ListInv'
<1>1. /\ walking /\ listed' = listed /\ steady' = steady
      /\ Rest \subseteq Tools /\ Tools \subseteq Nat
      /\ cursor \in Nat /\ steady \subseteq listed /\ listed \subseteq Tools
  BY ListingAssumption DEF ListPage, ListInv, ListTypeOK, Rest
<1>2. CASE PageSize > 0 /\ Cardinality(Rest) > PageSize
  <2> DEFINE page == Truncated(Rest)
  <2>1. page \subseteq Rest
    BY DEF Truncated
  <2>2. Serve(page) /\ walking' = walking
    BY <1>2 DEF ListPage
  <2>3. PICK last \in page : (\A k \in page : k <= last) /\ cursor' = last
    BY <1>2 DEF ListPage
  <2>4. last \in Nat /\ last > cursor
    BY <1>1, <2>1 DEF Rest
  <2>5. /\ served' \in [Tools -> Nat]
        /\ \A k \in Tools : served'[k] <= 1
        /\ \A k \in page : served'[k] = 1
        /\ \A k \in Tools \ page : served'[k] = served[k]
    BY <1>1, <2>1, <2>2, ServeCounts
  <2>6. \A k \in Rest : k <= last => k \in page
    BY <1>1, <2>3, PageIsPrefix
  <2> HIDE DEF page
  <2>7. ASSUME NEW k \in Tools, k > cursor' PROVE served'[k] = 0
    <3>1. k > cursor /\ k \notin page
      BY <1>1, <2>3, <2>4, <2>7
    <3> QED
      BY <1>1, <2>5, <3>1 DEF ListInv, Divided
  <2>8. ASSUME NEW k \in steady', k <= cursor' PROVE served'[k] = 1
    <3>1. k \in listed /\ k \in Tools /\ k \in Nat /\ k \in steady
      BY <1>1
    <3>2. CASE k > cursor
      <4>1. k \in page
        BY <2>3, <2>6, <2>8, <3>1, <3>2 DEF Rest
      <4> QED
        BY <4>1, <2>5
    <3>3. CASE k <= cursor
      <4>1. k \notin page
        BY <1>1, <2>1, <3>1, <3>3 DEF Rest
      <4>2. served[k] = 1
        BY <1>1, <3>1, <3>3 DEF ListInv, Divided
      <4> QED
        BY <2>5, <3>1, <4>1, <4>2
    <3> QED
      BY <1>1, <3>1, <3>2, <3>3
  <2>9. ListTypeOK'
    BY <1>1, <2>2, <2>3, <2>4, <2>5 DEF ListTypeOK, ListInv
  <2> QED
    BY <1>1, <2>2, <2>5, <2>7, <2>8, <2>9 DEF ListInv, Divided
<1>3. CASE ~(PageSize > 0 /\ Cardinality(Rest) > PageSize)
  <2>1. Serve(Rest) /\ walking' = FALSE /\ cursor' = cursor
    BY <1>3 DEF ListPage
  <2>2. /\ served' \in [Tools -> Nat]
        /\ \A k \in Tools : served'[k] <= 1
        /\ \A k \in Rest : served'[k] = 1
        /\ \A k \in Tools \ Rest : served'[k] = served[k]
    BY <1>1, <2>1, ServeCounts
  <2>3. ASSUME NEW k \in steady' PROVE served'[k] = 1
    <3>1. k \in listed /\ k \in Tools /\ k \in Nat /\ k \in steady
      BY <1>1
    <3>2. CASE k \in Rest
      BY <2>2, <3>2
    <3>3. CASE k \notin Rest
      <4>1. k <= cursor
        BY <1>1, <3>1, <3>3 DEF Rest
      <4>2. served[k] = 1
        BY <1>1, <3>1, <4>1 DEF ListInv, Divided
      <4> QED
        BY <2>2, <3>1, <3>3, <4>2
    <3> QED
      BY <3>2, <3>3
  <2>4. ListTypeOK'
    BY <1>1, <2>1, <2>2 DEF ListTypeOK
  <2> QED
    BY <2>1, <2>2, <2>3, <2>4 DEF ListInv, Divided
<1> QED
  BY <1>2, <1>3

\* The cursor of a walk still divides the names, whatever the list became: a
\* walk serves no name twice and misses none that was listed throughout.
THEOREM EveryWalkIsComplete == ListSpec => []PagesSeeAll
<1>1. ListInit => ListInv
  BY ListingAssumption DEF ListInit, ListInv, ListTypeOK, Divided
<1>2. ListInv /\ [ListNext]_listVars => ListInv'
  <2> SUFFICES ASSUME ListInv, [ListNext]_listVars PROVE ListInv'
    OBVIOUS
  <2>1. CASE ListPage
    BY <2>1, PageKeeps
  <2>2. CASE ListChange
    BY <2>2 DEF ListChange, ListInv, ListTypeOK, Divided
  <2>3. CASE UNCHANGED listVars
    BY <2>3 DEF listVars, ListInv, ListTypeOK, Divided
  <2> QED
    BY <2>1, <2>2, <2>3 DEF ListNext
<1>3. ListInv => PagesSeeAll
  BY DEF ListInv, Divided, PagesSeeAll
<1> QED
  BY <1>1, <1>2, <1>3, PTL DEF ListSpec
-----------------------------------------------------------------------------
(* Who a caller is.                                                        *)

\* What says that there is no code is neither a code nor a number.
LEMMA NoCode == None \notin Codes /\ None \notin Nat
BY MarkersAssumption

\* A tool that asks something of its caller does not run for the anonymous one.
LEMMA AnonymousRunsNothingAsked ==
    ASSUME NEW registry, NEW name \in DOMAIN registry, Asks(registry[name]),
           Execute(registry, [name |-> name, arguments_conform |-> TRUE], Anonymous).ran
    PROVE  FALSE
<1>1. ~Refusal(registry[name], Anonymous)
  BY DEF Execute
<1>2. /\ Anonymous.is_admin = FALSE /\ Anonymous.user_id = None
      /\ Anonymous.scopes = {} /\ ~Named(None)
  BY DEF Anonymous, Named
<1> QED
  BY <1>1, <1>2 DEF Refusal, Asks, Flags

\* Whom the hook lets in.
LEMMA HookLetsIn ==
    ASSUME NEW in, Identify(in).ctx # None
    PROVE  \/ Verified(in)
           \/ /\ Identify(in).ctx = Anonymous
              /\ SharedKey(in) \/ (in.presented \in {None, Empty} /\ in.hook.anonymous)
<1>1. CASE in.presented \in {None, Empty}
  BY <1>1 DEF Identify, CallerHook, Admitted, Denied
<1>2. CASE in.presented \notin {None, Empty} /\ in.hook.shared # None /\ Admit(in.hook.shared, in.presented)
  <2>1. SharedKey(in)
    BY <1>2 DEF SharedKey, Admit, ConfiguredKey, Blank
  <2> QED
    BY <1>2, <2>1 DEF Identify, CallerHook, Admitted
<1>3. CASE in.presented \notin {None, Empty} /\ ~(in.hook.shared # None /\ Admit(in.hook.shared, in.presented))
  <2>1. PICK v : v = VerifyCaller(in.token, in.keys, in.hook.issuer, in.hook.audience)
    OBVIOUS
  <2>2. Identify(in) = CASE v.refused = "jwks_unavailable" -> Denied("internal")
                         [] v.refused = "rejected" -> Denied("unauthorized")
                         [] OTHER -> v
    BY <1>3, <2>1 DEF Identify, CallerHook
  <2>3. v.refused # "jwks_unavailable" /\ v.refused # "rejected"
    BY <2>2 DEF Denied
  <2>4. in.keys = "key" /\ SignedFor(in.token, {in.hook.issuer}, in.hook.audience)
    BY <2>1, <2>3 DEF VerifyCaller, Denied
  <2> QED
    BY <1>3, <2>4 DEF Verified
<1> QED
  BY <1>1, <1>2, <1>3

LEMMA OnlyVerifiedHolds == ASSUME NEW in PROVE OnlyVerifiedIsIdentified(in)
<1> SUFFICES ASSUME Identify(in).ctx # None
             PROVE  /\ \/ Verified(in) \/ SharedKey(in)
                       \/ in.presented \in {None, Empty} /\ in.hook.anonymous
                    /\ \A name \in DOMAIN in.registry :
                          Execute(in.registry, [name |-> name, arguments_conform |-> TRUE],
                                  Identify(in).ctx).ran
                          /\ Asks(in.registry[name]) => Verified(in)
  BY DEF OnlyVerifiedIsIdentified
<1>1. CASE Verified(in)
  BY <1>1
<1>2. CASE ~Verified(in)
  <2>1. /\ Identify(in).ctx = Anonymous
        /\ SharedKey(in) \/ (in.presented \in {None, Empty} /\ in.hook.anonymous)
    BY <1>2, HookLetsIn
  <2>2. ASSUME NEW name \in DOMAIN in.registry, Asks(in.registry[name]),
               Execute(in.registry, [name |-> name, arguments_conform |-> TRUE], Identify(in).ctx).ran
        PROVE  FALSE
    BY <2>1, <2>2, AnonymousRunsNothingAsked
  <2> QED
    BY <2>1, <2>2
<1> QED
  BY <1>1, <1>2

LEMMA OutageHolds == ASSUME NEW in PROVE OutageIsNotRefusal(in)
<1> SUFFICES ASSUME in.keys = "unavailable", in.presented \notin {None, Empty, in.hook.shared}
             PROVE  /\ Identify(in).ctx = None /\ ~Challenged(Identify(in).refused)
                    /\ AuthRefusal(Identify(in).refused).status = 500
  BY DEF OutageIsNotRefusal
<1>1. ~Admit(in.hook.shared, in.presented)
  BY DEF Admit, ConfiguredKey
<1>2. VerifyCaller(in.token, in.keys, in.hook.issuer, in.hook.audience) = Denied("jwks_unavailable")
  BY DEF VerifyCaller
<1>3. Denied("jwks_unavailable").refused = "jwks_unavailable"
  BY DEF Denied
<1>4. Identify(in) = Denied("internal")
  BY <1>1, <1>2, <1>3 DEF Identify, CallerHook
<1>5. Denied("internal").ctx = None /\ Denied("internal").refused = "internal"
  BY DEF Denied
<1> QED
  BY <1>4, <1>5 DEF Challenged, AuthRefusal, Refuse

LEMMA GatesAreApartHolds == ASSUME NEW in PROVE GatesAreApart(in)
<1> SUFFICES ASSUME BearerCredential(in.authorization) # None,
                    VerifyGoogle(in.token, in.keys, in.audience, in.allowed)
             PROVE  /\ in.token.signed /\ in.token.fresh /\ in.audience \in in.token.aud
                    /\ in.authorization.scheme = "bearer"
                    /\ in.issuer \notin GoogleIssuers =>
                           VerifyCaller(in.token, in.keys, in.issuer, in.audience).ctx = None
                    /\ in.allowed = {} \/ (in.token.email \in in.allowed /\ in.token.email_verified)
  BY DEF GatesAreApart, RequireGoogleIdToken
<1>1. in.authorization.scheme = "bearer"
  BY DEF BearerCredential
<1>2. SignedFor(in.token, GoogleIssuers, in.audience)
  BY DEF VerifyGoogle
<1>3. ASSUME in.issuer \notin GoogleIssuers
      PROVE  VerifyCaller(in.token, in.keys, in.issuer, in.audience).ctx = None
  <2>1. ~SignedFor(in.token, {in.issuer}, in.audience)
    BY <1>2, <1>3 DEF SignedFor
  <2> QED
    BY <2>1 DEF VerifyCaller, Denied
<1> QED
  BY <1>1, <1>2, <1>3 DEF SignedFor, VerifyGoogle

LEMMA KeyGatesHold == ASSUME NEW in PROVE KeyGatesAgree(in)
<1>1. PICK cred : cred = BearerCredential(in.authorization)
  OBVIOUS
<1>2. ApiKeyHook(in.env, cred).refused = None <=> Admit(in.env, IF cred = None THEN Empty ELSE cred)
  <2>1. None # "unauthorized"
    BY NoCode DEF Codes
  <2> QED
    BY <2>1 DEF ApiKeyHook, Admitted, Denied
<1>3. Admit(in.env, IF cred = None THEN Empty ELSE cred) <=> in.env \notin Blank /\ cred = in.env
  BY DEF Admit, ConfiguredKey, Blank
<1>4. StartupAuth(in.env, FALSE) # "insecure_bind" => in.env \notin Blank
  BY DEF StartupAuth, ResolveStartupAuth, ConfiguredKey
<1>5. in.env \notin Blank => (RequireAuth(in.env, in.authorization) <=> cred = in.env)
  BY <1>1 DEF RequireAuth, ConfiguredKey, Blank
<1> QED
  BY <1>1, <1>2, <1>3, <1>4, <1>5 DEF KeyGatesAgree

LEMMA ConfigHolds ==
    ASSUME NEW in, Setting(in) PROVE CallerConfigHolds(in)
<1>1. PICK env : env = in.env
  OBVIOUS
<1>2. PICK config : config = CallerConfig(env)
  OBVIOUS
<1>3. config.issuer = env.issuer /\ config.audience = env.resource /\ config.document = env.resource
  BY <1>2 DEF CallerConfig, Configuration
<1>4. config.outcome = "none" => Missing(env) = DOMAIN env
  BY <1>2 DEF CallerConfig, Configuration
<1>5. config.outcome = "configured" =>
          Missing(env) = {} /\ ResourceAdmitted(env.resource, "https_or_loopback_http")
  BY <1>2 DEF CallerConfig, Configuration
<1>6. Missing(env) = {} => env.issuer \notin Blank
  <2>1. "issuer" \in DOMAIN env /\ "issuer" # "resource" /\ env["issuer"] = env.issuer
    BY <1>1 DEF Setting
  <2> QED
    BY <2>1 DEF Missing
<1> DEFINE token(aud) == [signed |-> TRUE, fresh |-> TRUE, iss |-> env.issuer, aud |-> {aud},
                       early |-> FALSE, sub |-> in.user, tenant |-> None, scope |-> {}]
<1>7. ASSUME NEW aud, NEW a
      PROVE  /\ VerifyCaller(token(aud), "key", env.issuer, a).refused = None => a = aud
             /\ in.user \notin Blank /\ a = aud =>
                    VerifyCaller(token(aud), "key", env.issuer, a).refused = None
  <2>1. PICK t : t = token(aud)
    OBVIOUS
  <2>2. /\ t.signed /\ t.fresh /\ t.iss = env.issuer /\ t.aud = {aud} /\ ~t.early
        /\ t.sub = in.user /\ t.tenant = None
    BY <2>1
  <2>4. SignedFor(t, {env.issuer}, a) <=> a = aud
    BY <2>2 DEF SignedFor
  <2>5. None # "rejected"
    BY NoCode DEF Codes
  <2>6. /\ VerifyCaller(t, "key", env.issuer, a).refused = None => a = aud
        /\ in.user \notin Blank /\ a = aud => VerifyCaller(t, "key", env.issuer, a).refused = None
    BY <2>2, <2>4, <2>5 DEF VerifyCaller, Admitted, Denied
  <2> QED
    BY <2>1, <2>6
<1>8. ResourceAdmitted(env.resource, "https_or_loopback_http") =>
          env.resource.scheme = "https" \/ env.resource.host \in LoopbackHosts
  BY DEF ResourceAdmitted
<1>9. CallerConfigHolds(in) <=>
          /\ config.outcome = "none" => Missing(env) = DOMAIN env
          /\ config.outcome = "configured" =>
                 /\ config.issuer \notin Blank
                 /\ config.document.scheme = "https" \/ config.document.host \in LoopbackHosts
                 /\ in.user \notin Blank =>
                        VerifyCaller(token(config.document), "key", config.issuer,
                                     config.audience).refused = None
                 /\ \A other \in in.others : other # config.document =>
                        ~(VerifyCaller(token(other), "key", config.issuer, config.audience).refused = None)
  BY <1>1, <1>2, Zenon DEF CallerConfigHolds
<1>10. /\ in.user \notin Blank =>
              VerifyCaller(token(config.document), "key", config.issuer, config.audience).refused = None
       /\ \A other \in in.others : other # config.document =>
              ~(VerifyCaller(token(other), "key", config.issuer, config.audience).refused = None)
  <2> HIDE DEF token
  <2> QED
    BY <1>3, <1>7, Zenon
<1> HIDE DEF token
<1> QED
  BY <1>3, <1>4, <1>5, <1>6, <1>8, <1>9, <1>10, Zenon
\* The header map of requests whose lines are all forwarded.
LEMMA Forwarded ==
    ASSUME NEW hs, DOMAIN hs \subseteq Nat,
           \A i \in DOMAIN hs : hs[i].kind = "plain" /\ hs[i].value # Garbled
    PROVE  /\ DOMAIN ForwardedHeaders(hs) = {hs[i].name : i \in DOMAIN hs}
           /\ \A i \in DOMAIN hs :
                  (\A j \in DOMAIN hs : hs[j].name = hs[i].name => j = i) =>
                      ForwardedHeaders(hs)[hs[i].name] = hs[i].value
<1>1. DOMAIN hs = {i \in DOMAIN hs : ~IsWithheld(hs[i]) /\ hs[i].value # Garbled}
  BY DEF IsWithheld
<1>2. ForwardedHeaders(hs) =
          [n \in {hs[i].name : i \in DOMAIN hs} |-> hs[Max({i \in DOMAIN hs : hs[i].name = n})].value]
  BY <1>1, Zenon DEF ForwardedHeaders
<1>3. ASSUME NEW i \in DOMAIN hs, \A j \in DOMAIN hs : hs[j].name = hs[i].name => j = i
      PROVE  ForwardedHeaders(hs)[hs[i].name] = hs[i].value
  <2>1. {j \in DOMAIN hs : hs[j].name = hs[i].name} = {i}
    BY <1>3
  <2>2. Max({i}) = i
    BY <1>3 DEF Max
  <2>3. PICK n : n = hs[i].name
    OBVIOUS
  <2>4. n \in {hs[j].name : j \in DOMAIN hs} /\ {j \in DOMAIN hs : hs[j].name = n} = {i}
    BY <1>3, <2>1, <2>3
  <2>5. ForwardedHeaders(hs)[n] = hs[Max({j \in DOMAIN hs : hs[j].name = n})].value
    BY <1>2, <2>4
  <2> QED
    BY <2>2, <2>3, <2>4, <2>5
<1> QED
  BY <1>2, <1>3

\* The host a POST was dialed at: the forwarded one, else Host.
LEMMA DialedByPost ==
    ASSUME NEW a, NEW b, a # Garbled, b # Garbled
    PROVE  /\ RequestDialedHost(<<a>>, <<b>>) = a
           /\ RequestDialedHost(<<a>>, <<>>) = a
           /\ RequestDialedHost(<<>>, <<b>>) = b
           /\ RequestDialedHost(<<>>, <<>>) = None
<1> DEFINE of(hs) == LET kept == ForwardedHeaders(hs)
                     IN  IF "x-forwarded-host" \in DOMAIN kept THEN kept["x-forwarded-host"]
                         ELSE IF "host" \in DOMAIN kept THEN kept["host"] ELSE None
<1>1. \A f, h : RequestDialedHost(f, h) =
                    of(PlainLines("x-forwarded-host", f) \o PlainLines("host", h))
  BY Zenon DEF RequestDialedHost
<1>2. PICK x : x = PlainLine("x-forwarded-host", a)
  OBVIOUS
<1>3. PICK y : y = PlainLine("host", b)
  OBVIOUS
<1>4. /\ PlainLines("x-forwarded-host", <<a>>) = <<x>> /\ PlainLines("host", <<b>>) = <<y>>
      /\ PlainLines("x-forwarded-host", <<>>) = <<>> /\ PlainLines("host", <<>>) = <<>>
  BY <1>2, <1>3 DEF PlainLines
<1>5. /\ x.name = "x-forwarded-host" /\ x.kind = "plain" /\ x.value = a
      /\ y.name = "host" /\ y.kind = "plain" /\ y.value = b
  BY <1>2, <1>3 DEF PlainLine
<1>6. ASSUME NEW s, DOMAIN s \in {{1}, {1, 2}}, s[1] = x, 2 \in DOMAIN s => s[2] = y
      PROVE  of(s) = a
  <2>1. \A i \in DOMAIN s : s[i] \in {x, y}
    BY <1>6
  <2>2. \A i \in DOMAIN s : s[i].kind = "plain" /\ s[i].value # Garbled
    BY <1>5, <2>1
  <2>3. 1 \in DOMAIN s /\ DOMAIN s \subseteq Nat
    BY <1>6
  <2>4. /\ DOMAIN ForwardedHeaders(s) = {s[i].name : i \in DOMAIN s}
        /\ (\A j \in DOMAIN s : s[j].name = s[1].name => j = 1) =>
               ForwardedHeaders(s)[s[1].name] = s[1].value
    BY <2>2, <2>3, Forwarded
  <2>5. \A j \in DOMAIN s : s[j].name = s[1].name => j = 1
    BY <1>5, <1>6
  <2> QED
    BY <1>5, <1>6, <2>3, <2>4, <2>5
<1>7. ASSUME NEW s, DOMAIN s = {1}, s[1] = y PROVE of(s) = b
  <2>0. /\ DOMAIN s \subseteq Nat /\ 1 \in DOMAIN s /\ \A j \in DOMAIN s : j = 1
        /\ \A i \in DOMAIN s : s[i].kind = "plain" /\ s[i].value # Garbled
    BY <1>5, <1>7
  <2>1. /\ DOMAIN ForwardedHeaders(s) = {s[i].name : i \in DOMAIN s}
        /\ ForwardedHeaders(s)[s[1].name] = s[1].value
    BY <2>0, Forwarded
  <2> QED
    BY <1>5, <1>7, <2>1
<1>8. ASSUME NEW s, DOMAIN s = {} PROVE of(s) = None
  <2>1. DOMAIN ForwardedHeaders(s) = {s[i].name : i \in DOMAIN s}
    BY <1>8, Forwarded
  <2> QED
    BY <1>8, <2>1
<1> HIDE DEF of
<1>9. of(<<x>> \o <<y>>) = a
  <2>1. PICK s : s = <<x>> \o <<y>>
    OBVIOUS
  <2>2. s[1] = x /\ s[2] = y /\ DOMAIN s = {1, 2}
    BY <2>1
  <2>3. of(s) = a
    BY <1>6, <2>2
  <2> QED
    BY <2>1, <2>3
<1>10. of(<<x>> \o <<>>) = a
  <2>1. PICK s : s = <<x>> \o <<>>
    OBVIOUS
  <2>2. s[1] = x /\ DOMAIN s = {1}
    BY <2>1
  <2> QED
    BY <1>6, <2>1, <2>2
<1>11. of(<<>> \o <<y>>) = b
  <2>1. PICK s : s = <<>> \o <<y>>
    OBVIOUS
  <2>2. s[1] = y /\ DOMAIN s = {1}
    BY <2>1
  <2> QED
    BY <1>7, <2>1, <2>2
<1>12. of(<<>> \o <<>>) = None
  <2>1. PICK s : s = <<>> \o <<>>
    OBVIOUS
  <2>2. DOMAIN s = {}
    BY <2>1
  <2> QED
    BY <1>8, <2>1, <2>2
<1> QED
  BY <1>1, <1>4, <1>9, <1>10, <1>11, <1>12, Zenon

\* A document is found by its authority, the first one by any other.
LEMMA FoundByAuthority ==
    ASSUME NEW docs, DOMAIN docs \subseteq Nat, NEW a
    PROVE  /\ \A i \in DOMAIN docs :
                  /\ \A j \in DOMAIN docs : Authority(docs[i]) = Authority(docs[j]) => i = j
                  /\ a = Authority(docs[i]) /\ a # None
                  => ForHost(docs, a) = docs[i]
           /\ a = None \/ (\A i \in DOMAIN docs : a # Authority(docs[i])) => ForHost(docs, a) = docs[1]
<1>1. PICK known : known = {i \in DOMAIN docs : Authority(docs[i]) = a}
  OBVIOUS
<1>2. ForHost(docs, a) = IF a = None \/ known = {} THEN docs[1] ELSE docs[Min(known)]
  BY <1>1 DEF ForHost, IsDialedAs
<1>3. ASSUME NEW i \in DOMAIN docs, a = Authority(docs[i]), a # None,
             \A j \in DOMAIN docs : Authority(docs[i]) = Authority(docs[j]) => i = j
      PROVE  ForHost(docs, a) = docs[i]
  <2>1. known = {i}
    BY <1>1, <1>3
  <2>2. Min({i}) = i
    BY <1>3 DEF Min
  <2> QED
    BY <1>2, <1>3, <2>1, <2>2
<1> QED
  BY <1>1, <1>2, <1>3

LEMMA ChallengeHolds == ASSUME NEW in, Dialing(in) PROVE ChallengeLeadsHome(in)
<1> DEFINE line(a)      == IF a = None THEN <<>> ELSE <<a>>
           forwarded(a) == IF in.proxied THEN line(a) ELSE <<>>
           host(a)      == IF in.proxied THEN <<in.inner>> ELSE line(a)
<1>1. PICK docs : docs = in.documents
  OBVIOUS
<1>2. PICK dialed : dialed = IF in.dialed = 0 THEN None ELSE Authority(docs[in.dialed])
  OBVIOUS
<1>3. PICK mine : mine = docs[IF in.dialed = 0 THEN 1 ELSE in.dialed]
  OBVIOUS
<1>4. PICK doc : doc = ForHost(docs, RequestDialedHost(forwarded(dialed), host(dialed)))
  OBVIOUS
<1>5. PICK link : link = Challenge(doc, None, None).url
  OBVIOUS
<1>6. PICK got : got = DialedHost(forwarded(link.authority), host(link.authority))
  OBVIOUS
<1>7. PICK k \in DOMAIN docs : mine = docs[k] /\ ((in.dialed = 0 /\ k = 1) \/ dialed = Authority(docs[k]))
  BY <1>1, <1>2, <1>3 DEF Dialing
<1>8. /\ DOMAIN docs \subseteq Nat /\ in.inner # None /\ in.inner # Garbled
      /\ \A i \in DOMAIN docs : /\ Authority(docs[i]) # None /\ Authority(docs[i]) # Garbled
                               /\ Authority(docs[i]) # in.inner
  BY <1>1 DEF Dialing
<1>9. ASSUME \A i, j \in DOMAIN docs : Authority(docs[i]) = Authority(docs[j]) => i = j
      PROVE  doc = mine /\ ServeMetadata(docs, [link EXCEPT !.authority = got]) = doc
  <2>1. doc = mine
    <3>1. CASE in.dialed = 0
      <4>1. dialed = None /\ k = 1
        BY <1>2, <1>7, <1>8, <3>1
      <4>2. RequestDialedHost(forwarded(dialed), host(dialed)) \in {None, in.inner}
        BY <1>8, <4>1, DialedByPost
      <4> HIDE DEF forwarded, host
      <4>3. doc = docs[1]
        BY <1>4, <1>8, <4>2, FoundByAuthority
      <4> QED
        BY <1>7, <4>1, <4>3
    <3>2. CASE in.dialed # 0
      <4>1. dialed = Authority(docs[k]) /\ dialed # None /\ dialed # Garbled
        BY <1>7, <1>8, <3>2
      <4>2. RequestDialedHost(forwarded(dialed), host(dialed)) = dialed
        BY <1>8, <4>1, DialedByPost
      <4> HIDE DEF forwarded, host
      <4>3. doc = docs[k]
        BY <1>4, <1>8, <1>9, <4>1, <4>2, FoundByAuthority
      <4> QED
        BY <1>7, <4>3
    <3> QED
      BY <3>1, <3>2
  <2>2. /\ link.authority = Authority(docs[k]) /\ link.path = docs[k].path
        /\ link = [authority |-> Authority(docs[k]), path |-> docs[k].path]
    BY <1>5, <1>7, <2>1 DEF Challenge
  <2>3. got = Authority(docs[k])
    BY <1>6, <1>8, <2>2 DEF DialedHost
  <2>4. PICK url : url = [link EXCEPT !.authority = got]
    OBVIOUS
  <2>5. url.authority = Authority(docs[k]) /\ url.path = docs[k].path
    BY <2>2, <2>3, <2>4
  <2>6. url.path \in MetadataPaths(docs)
    BY <2>5 DEF MetadataPaths
  <2>7. ForHost(docs, url.authority) = docs[k]
    BY <1>8, <1>9, <2>5, FoundByAuthority
  <2>8. ServeMetadata(docs, url) = docs[k]
    BY <2>6, <2>7 DEF ServeMetadata
  <2> QED
    BY <1>7, <2>1, <2>4, <2>8
<1>10. ChallengeLeadsHome(in) <=>
           ((\A i, j \in DOMAIN docs : Authority(docs[i]) = Authority(docs[j]) => i = j) =>
               doc = mine /\ ServeMetadata(docs, [link EXCEPT !.authority = got]) = doc)
  BY <1>1, <1>2, <1>3, <1>4, <1>5, <1>6, Zenon DEF ChallengeLeadsHome
<1> QED
  BY <1>9, <1>10

\* Whatever is presented, whatever a host configures and wherever a client dialed:
\* callers are told apart by what was verified of them (CallersToldApart, for every
\* input of server/auth.rs, mcp/auth.rs, mcp/caller.rs, iam/verify.rs and
\* resource_metadata).
THEOREM CallersAreToldApart ==
    ASSUME case.about = "settings" => Setting(case.in),
           case.about = "dialed" => Dialing(case.in)
    PROVE  CallersToldApart
BY OnlyVerifiedHolds, OutageHolds, GatesAreApartHolds, KeyGatesHold, ConfigHolds, ChallengeHolds
   DEF CallersToldApart
-----------------------------------------------------------------------------
(* How a request is read.                                                  *)

\* The checks of a gate (there are at most four) pass together exactly when none
\* refuses.
LEMMA AllPass ==
    ASSUME NEW checks, DOMAIN checks \subseteq {1, 2, 3, 4}
    PROVE  FirstRefusal(checks) = Pass <=> \A i \in DOMAIN checks : checks[i] = Pass
<1>1. PICK bad : bad = {i \in DOMAIN checks : checks[i] # Pass}
  OBVIOUS
<1>2. FirstRefusal(checks) = IF bad = {} THEN Pass ELSE checks[Min(bad)]
  BY <1>1 DEF FirstRefusal
<1>3. ASSUME bad # {} PROVE Min(bad) \in bad
  <2>1. bad \subseteq {1, 2, 3, 4}
    BY <1>1
  <2>2. \E x \in bad : \A y \in bad : x <= y
    <3>1. CASE 1 \in bad
      BY <2>1, <3>1
    <3>2. CASE 1 \notin bad /\ 2 \in bad
      BY <2>1, <3>2
    <3>3. CASE 1 \notin bad /\ 2 \notin bad /\ 3 \in bad
      BY <2>1, <3>3
    <3>4. CASE 1 \notin bad /\ 2 \notin bad /\ 3 \notin bad
      <4>1. bad = {4}
        BY <1>3, <2>1, <3>4
      <4> QED
        BY <4>1
    <3> QED
      BY <3>1, <3>2, <3>3, <3>4
  <2> QED
    BY <2>2 DEF Min
<1> QED
  BY <1>1, <1>2, <1>3

LEMMA TwoPass ==
    ASSUME NEW a, NEW b
    PROVE  FirstRefusal(<<a, b>>) = Pass <=> a = Pass /\ b = Pass
<1>1. PICK checks : checks = <<a, b>>
  OBVIOUS
<1>2. DOMAIN checks = {1, 2} /\ checks[1] = a /\ checks[2] = b
  BY <1>1
<1>3. FirstRefusal(checks) = Pass <=> \A i \in DOMAIN checks : checks[i] = Pass
  BY <1>2, AllPass
<1> QED
  BY <1>1, <1>2, <1>3

LEMMA ThreePass ==
    ASSUME NEW a, NEW b, NEW c
    PROVE  FirstRefusal(<<a, b, c>>) = Pass <=> a = Pass /\ b = Pass /\ c = Pass
<1>1. PICK checks : checks = <<a, b, c>>
  OBVIOUS
<1>2. DOMAIN checks = {1, 2, 3} /\ checks[1] = a /\ checks[2] = b /\ checks[3] = c
  BY <1>1
<1>3. FirstRefusal(checks) = Pass <=> \A i \in DOMAIN checks : checks[i] = Pass
  BY <1>2, AllPass
<1> QED
  BY <1>1, <1>2, <1>3

LEMMA FourPass ==
    ASSUME NEW a, NEW b, NEW c, NEW d
    PROVE  FirstRefusal(<<a, b, c, d>>) = Pass <=> a = Pass /\ b = Pass /\ c = Pass /\ d = Pass
<1>1. PICK checks : checks = <<a, b, c, d>>
  OBVIOUS
<1>2. DOMAIN checks = {1, 2, 3, 4} /\ checks[1] = a /\ checks[2] = b /\ checks[3] = c /\ checks[4] = d
  BY <1>1
<1>3. FirstRefusal(checks) = Pass <=> \A i \in DOMAIN checks : checks[i] = Pass
  BY <1>2, AllPass
<1> QED
  BY <1>1, <1>2, <1>3

\* A refusal is not a pass.
LEMMA RefusalsRefuse ==
    ASSUME NEW status \in Nat \ {0}, NEW code
    PROVE  Refuse(status, code) # Pass
BY DEF Refuse, Pass

\* A header that is read as one usable value has one line, or none.
LEMMA OneValue ==
    ASSUME NEW V, None \notin V, Repeated \notin V, NEW ls \in Seq(V), Single(ls) \notin Unusable
    PROVE  \/ ls = <<>> /\ Single(ls) = None
           \/ ls = <<ls[1]>> /\ Single(ls) = ls[1] /\ ls[1] # None /\ ls[1] # Garbled
<1>1. CASE ls = <<>>
  BY <1>1 DEF Single
<1>2. CASE ls # <<>>
  <2>0. PICK n \in Nat : n = Len(ls)
    OBVIOUS
  <2>1. Len(ls) = 1
    <3>1. n # 0
      BY <1>2, <2>0
    <3>2. ~(n > 1)
      BY <1>2, <2>0 DEF Single, Unusable
    <3>3. n = 1
      BY <3>1, <3>2
    <3> QED
      BY <2>0, <3>3
  <2>2. ls = <<ls[1]>> /\ ls[1] \in V
    BY <2>1
  <2>3. Single(ls) = ls[1]
    BY <1>2, <2>1 DEF Single
  <2> QED
    BY <2>2, <2>3 DEF Unusable
<1> QED
  BY <1>1, <1>2

\* A server bound to loopback lets only local names through CheckHost.
LEMMA LocalHost ==
    ASSUME NEW V, None \notin V, Repeated \notin V, NEW m, m.host \in Seq(V),
           CheckHost(m, {}) = Pass
    PROVE  /\ \A i \in DOMAIN m.host : m.host[i] # Garbled /\ m.host[i].host \in LoopbackHosts
           /\ m.target # None => m.target.host \in LoopbackHosts
           /\ m.host # <<>> \/ m.target # None
<1>1. RequestAuthority(m) = Pass
  BY DEF CheckHost
<1>2. PICK host : host = Single(m.host)
  OBVIOUS
<1>3. /\ host \notin Unusable
      /\ host # None /\ m.target # None => host = m.target
  BY <1>1, <1>2, RefusalsRefuse DEF RequestAuthority
<1>4. PICK a : a = IF m.host = <<>> THEN m.target ELSE m.host[1]
  OBVIOUS
<1>5. IsHostAllowed(a, {})
  BY <1>1, <1>4, RefusalsRefuse DEF CheckHost
<1>6. a # None /\ a.host \in LoopbackHosts
  BY <1>5 DEF IsHostAllowed, SplitAuthority, IsLoopbackHost
<1>7. CASE m.host = <<>>
  <2>1. DOMAIN m.host = {}
    BY <1>7
  <2> QED
    BY <1>4, <1>6, <1>7, <2>1
<1>8. CASE m.host # <<>>
  <2>1. m.host = <<m.host[1]>> /\ host = m.host[1] /\ m.host[1] # None /\ m.host[1] # Garbled
    BY <1>2, <1>3, <1>8, OneValue
  <2>2. DOMAIN m.host = {1}
    BY <2>1
  <2>3. a = m.host[1]
    BY <1>4, <1>8
  <2> QED
    BY <1>3, <1>6, <1>8, <2>1, <2>2, <2>3
<1> QED
  BY <1>7, <1>8

\* No message of another site passes a gate of a server bound to loopback, whatever
\* its lines of Host, its :authority and its Origin say (LoopbackIsClosed;
\* check_host, origin_allowed and require_loopback_host of transport/http.rs).
THEOREM LoopbackServersAreClosed ==
    ASSUME NEW V, None \notin V, Repeated \notin V, NEW srv, NEW m, m.host \in Seq(V)
    PROVE  LoopbackIsClosed(srv, m)
<1> SUFFICES ASSUME \A a \in srv.addresses : a = "loopback", srv.hosts = None,
                    srv.origins = [any |-> FALSE, list |-> {}],
                    PostGate(srv, m) = Pass \/ DeleteGate(srv, m) = Pass
             PROVE  /\ \A i \in DOMAIN m.host :
                           m.host[i] # Garbled /\ m.host[i].host \in LoopbackHosts
                    /\ m.target # None => m.target.host \in LoopbackHosts
                    /\ m.host # <<>> \/ m.target # None
                    /\ m.origin # None => /\ m.origin # Garbled
                                          /\ m.origin.authority.host \in LoopbackHosts
                                          /\ m.origin.authority.shape = "bare"
                                          /\ ~m.origin.authority.dot
  BY DEF LoopbackIsClosed
<1>1. RequireLoopbackHost(srv, m) = Pass /\ CheckOriginAndHost(srv, m) = Pass
  BY FourPass DEF PostGate, DeleteGate
<1>2. CheckHost(m, {}) = Pass
  BY <1>1 DEF RequireLoopbackHost, ServeOutcome
<1>3. OriginAllowed(m.origin, srv.origins)
  BY <1>1, TwoPass, RefusalsRefuse DEF CheckOriginAndHost
<1>4. m.origin # None => /\ m.origin # Garbled
                         /\ m.origin.authority.host \in LoopbackHosts
                         /\ m.origin.authority.shape = "bare"
                         /\ ~m.origin.authority.dot
  BY <1>3 DEF OriginAllowed, IsLoopbackOrigin, IsLoopbackHost
<1> QED
  BY <1>2, <1>4, LocalHost

\* The header lines of a message, each a value that is there.
LinesOf(m, V) ==
    /\ None \notin V /\ Repeated \notin V
    /\ m.version \in Seq(V) /\ m.method_header \in Seq(V) /\ m.name_header \in Seq(V)

\* What passing the header gates says of the version.
LEMMA VersionRead ==
    ASSUME NEW V, NEW srv, NEW m, LinesOf(m, V), RequestGate(srv, m) = Pass
    PROVE  /\ CheckStandardHeaders(m) = Pass
           /\ m.version = <<>> => ~(m.id /\ FromParams(m.meta) # "legacy")
           /\ \/ m.version = <<>> /\ Single(m.version) = None
              \/ m.version # <<>> /\ Single(m.version) # None
<1>1. /\ AcceptedProtocolVersion(srv, m) = Pass /\ VersionRequired(m) = Pass
      /\ CheckStandardHeaders(m) = Pass
  BY FourPass DEF RequestGate
<1>2. Single(m.version) \notin Unusable
  BY <1>1, RefusalsRefuse DEF AcceptedProtocolVersion
<1>3. m.version = <<>> => ~(m.id /\ FromParams(m.meta) # "legacy")
  BY <1>1, RefusalsRefuse DEF VersionRequired
<1>4. \/ m.version = <<>> /\ Single(m.version) = None
      \/ /\ m.version = <<m.version[1]>> /\ Single(m.version) = m.version[1]
         /\ m.version[1] # None /\ m.version[1] # Garbled
  BY <1>2, OneValue DEF LinesOf
<1>5. m.version = <<m.version[1]>> => m.version # <<>>
  OBVIOUS
<1> QED
  BY <1>1, <1>3, <1>4, <1>5

\* Transport and dispatch take a request that passes the gates for one era, unless
\* its _meta names a legacy revision, and then they do not (EraIsOneEra;
\* check_standard_headers, require_version_header and RequestEra::detect).
THEOREM ErasAreOne ==
    ASSUME NEW V, NEW srv, NEW m, LinesOf(m, V)
    PROVE  EraIsOneEra(srv, m)
<1> SUFFICES ASSUME RequestGate(srv, m) = Pass, m.id
             PROVE  /\ Detect(Single(m.version), m.meta) = "modern"
                       => (TransportModern(m) <=> IsModernRevision(m.meta.version))
                    /\ Detect(Single(m.version), m.meta) = "legacy" => ~TransportModern(m)
  BY DEF EraIsOneEra
<1>1. PICK header : header = Single(m.version)
  OBVIOUS
<1>2. /\ m.version = <<>> => FromParams(m.meta) = "legacy"
      /\ header = None <=> m.version = <<>>
  BY <1>1, VersionRead
<1>3. ASSUME Detect(header, m.meta) = "modern"
      PROVE  TransportModern(m) <=> IsModernRevision(m.meta.version)
  <2>1. FromParams(m.meta) = "modern"
    BY <1>3 DEF Detect
  <2>2. m.version # <<>> /\ header # None
    BY <1>2, <2>1
  <2>3. m.meta.version = header
    BY <1>3, <2>1, <2>2 DEF Detect
  <2>4. m.meta.version # None
    BY <2>1 DEF FromParams
  <2> QED
    BY <1>1, <2>2, <2>3, <2>4 DEF TransportModern
<1>4. ASSUME Detect(header, m.meta) = "legacy" PROVE ~TransportModern(m)
  <2>1. FromParams(m.meta) = "legacy"
    BY <1>4 DEF Detect
  <2>2. CASE header = None
    BY <1>2, <2>2 DEF TransportModern
  <2>3. CASE header # None
    <3>1. ~IsModernRevision(header)
      BY <1>4, <2>1, <2>3 DEF Detect
    <3> QED
      BY <1>1, <3>1 DEF TransportModern
  <2> QED
    BY <2>2, <2>3
<1> QED
  BY <1>1, <1>3, <1>4

\* What a gateway reads off the mirrors of a modern call that passes is the call the
\* server runs (MirrorsTellTheCall; transport/mirror.rs).
THEOREM MirrorsAreTrue ==
    ASSUME NEW V, NEW srv, NEW m, LinesOf(m, V), NEW schema, NEW args
    PROVE  MirrorsTellTheCall(srv, m, schema, args)
<1>1. PICK headers : headers = ParamHeaders(m, {schema[p] : p \in DOMAIN schema})
  OBVIOUS
<1> SUFFICES ASSUME RequestGate(srv, m) = Pass, m.id,
                    Detect(Single(m.version), m.meta) = "modern", IsModernRevision(m.meta.version),
                    CheckParamHeaders(schema, args, headers, TRUE) = None
             PROVE  /\ m.method_header = <<m.method>>
                    /\ NameField(m.method) => m.name # None /\ Decode(m.name_header[1]) = m.name
                    /\ \A p \in DOMAIN schema :
                           IF args[p] = None THEN headers[schema[p]] = None
                           ELSE Decode(m.params[schema[p]][1]) = args[p].value
  BY <1>1, Zenon DEF MirrorsTellTheCall
<1>2. TransportModern(m)
  BY ErasAreOne DEF EraIsOneEra
<1>3. MethodMirror(m, TRUE) = Pass /\ NameMirror(m, TRUE) = Pass
  <2>1. CheckStandardHeaders(m) = Pass
    BY VersionRead
  <2>2. CheckStandardHeaders(m) = FirstRefusal(<<ParamLines(m), MethodMirror(m, TRUE), NameMirror(m, TRUE)>>)
    BY <1>2 DEF CheckStandardHeaders
  <2>3. PICK a, b, c : a = ParamLines(m) /\ b = MethodMirror(m, TRUE) /\ c = NameMirror(m, TRUE)
    OBVIOUS
  <2>4. FirstRefusal(<<a, b, c>>) = Pass
    BY <2>1, <2>2, <2>3
  <2>5. b = Pass /\ c = Pass
    BY <2>4, ThreePass
  <2> QED
    BY <2>3, <2>5
<1>4. m.method_header = <<m.method>>
  <2>1. PICK h : h = Single(m.method_header)
    OBVIOUS
  <2>2. h \notin Unusable /\ h # None /\ h = m.method
    BY <1>3, <2>1, RefusalsRefuse DEF MethodMirror
  <2> QED
    BY <2>1, <2>2, OneValue DEF LinesOf
<1>5. ASSUME NameField(m.method) PROVE m.name # None /\ Decode(m.name_header[1]) = m.name
  <2>1. PICK h : h = Single(m.name_header)
    OBVIOUS
  <2>2. h \notin Unusable /\ h # None /\ m.name # None /\ Decode(h) = m.name
    BY <1>3, <1>5, <2>1, RefusalsRefuse DEF NameMirror
  <2>3. h = m.name_header[1]
    BY <2>1, <2>2, OneValue DEF LinesOf
  <2> QED
    BY <2>2, <2>3
<1>6. ASSUME NEW p \in DOMAIN schema
      PROVE  IF args[p] = None THEN headers[schema[p]] = None
             ELSE Decode(m.params[schema[p]][1]) = args[p].value
  <2>1. None # "header_mismatch"
    BY NoCode DEF Codes
  <2>2. ~ParamRefused(headers[schema[p]], args[p], TRUE)
    BY <2>1 DEF CheckParamHeaders
  <2>3. CASE args[p] = None
    BY <2>2, <2>3 DEF ParamRefused
  <2>4. CASE args[p] # None
    <3>1. headers[schema[p]] # None /\ Decode(headers[schema[p]]) = args[p].value
      BY <2>2, <2>4 DEF ParamRefused
    <3>2. PICK h : h = schema[p]
      OBVIOUS
    <3>3. headers[h] = IF h \in DOMAIN m.params THEN m.params[h][1] ELSE None
      BY <1>1, <3>2 DEF ParamHeaders
    <3>4. headers[h] = m.params[h][1]
      BY <3>1, <3>2, <3>3
    <3> QED
      BY <2>4, <3>1, <3>2, <3>4
  <2> QED
    BY <2>3, <2>4
<1> QED
  BY <1>4, <1>5, <1>6

\* What becomes of the client of a handshake on its next request, for any set of
\* revisions a server supports, the fallback among them or not (HandshakeHolds;
\* initialize's answer, check_protocol_version and RequestEra::detect).
THEOREM HandshakesHold ==
    ASSUME NEW srv, NEW m, NEW requested, requested \notin Unusable, None \notin srv.versions
    PROVE  HandshakeHolds(srv, requested, m)
<1>1. PICK agreed : agreed = Negotiated(srv, requested)
  OBVIOUS
<1> SUFFICES ASSUME m.version = <<agreed>>, Unmirrored(m)
             PROVE  /\ AcceptedProtocolVersion(srv, m) = Pass <=> agreed \in srv.versions
                    /\ agreed \in srv.versions /\ ~IsModernRevision(agreed) =>
                           RequestGate(srv, m) = Pass /\ Detect(agreed, m.meta) = "legacy"
                    /\ IsModernRevision(agreed) => Detect(agreed, m.meta) = "malformed"
  BY <1>1, Zenon DEF HandshakeHolds
<1>2. agreed \notin Unusable /\ (agreed \in srv.versions \/ agreed = Current)
  <2>1. Current \notin Unusable
    BY MarkersAssumption DEF Current, Unusable
  <2> QED
    BY <1>1, <2>1 DEF Negotiated
<1>0. agreed # None
  <2>1. Current # None
    BY MarkersAssumption DEF Current
  <2> QED
    BY <1>2, <2>1
<1>3. Single(m.version) = agreed
  BY DEF Single
<1>4. AcceptedProtocolVersion(srv, m) = Pass <=> agreed \in srv.versions
  <2>1. AcceptsProtocolVersion(srv, agreed) <=> agreed \in srv.versions
    BY <1>2 DEF AcceptsProtocolVersion, Current, EarlierLegacy
  <2>2. AcceptedProtocolVersion(srv, m) = Pass <=> AcceptsProtocolVersion(srv, agreed)
    BY <1>0, <1>2, <1>3, RefusalsRefuse DEF AcceptedProtocolVersion
  <2> QED
    BY <2>1, <2>2
<1>5. FromParams(m.meta) = "legacy"
  BY DEF Unmirrored, FromParams
<1>6. ASSUME agreed \in srv.versions, ~IsModernRevision(agreed)
      PROVE  RequestGate(srv, m) = Pass /\ Detect(agreed, m.meta) = "legacy"
  <2>1. Detect(agreed, m.meta) = "legacy"
    BY <1>5, <1>6 DEF Detect
  <2>2. VersionRequired(m) = Pass
    BY <1>5 DEF VersionRequired
  <2>3. ~TransportModern(m)
    BY <1>3, <1>6 DEF TransportModern
  <2>4. None \notin Unusable
    BY MarkersAssumption DEF Unusable
  <2>5. Single(<<>>) = None
    BY DEF Single
  <2>6. ParamLines(m) = Pass /\ MethodMirror(m, FALSE) = Pass /\ NameMirror(m, FALSE) = Pass
    BY <2>4, <2>5 DEF Unmirrored, ParamLines, MethodMirror, NameMirror
  <2>7. CheckStandardHeaders(m) = FirstRefusal(<<ParamLines(m), MethodMirror(m, FALSE), NameMirror(m, FALSE)>>)
    BY <2>3 DEF CheckStandardHeaders
  <2>8. CheckStandardHeaders(m) = Pass
    BY <2>6, <2>7, ThreePass
  <2>9. SessionIdHeader(m) = Pass
    BY <2>4, <2>5 DEF Unmirrored, SessionIdHeader
  <2> QED
    BY <1>4, <1>6, <2>1, <2>2, <2>8, <2>9, FourPass DEF RequestGate
<1>7. ASSUME IsModernRevision(agreed) PROVE Detect(agreed, m.meta) = "malformed"
  BY <1>0, <1>5, <1>7 DEF Detect
<1> QED
  BY <1>4, <1>6, <1>7

\* A message goes unanswered only for want of an id (SilenceNeedsNoId; the parsing of
\* protocol.rs).
THEOREM OnlyNotificationsAreSilent ==
    ASSUME NEW m
    PROVE  SilenceNeedsNoId(m)
BY DEF SilenceNeedsNoId, Parse, ParseRequest, ParseResponse, IsRequestId
-----------------------------------------------------------------------------
(* What a request is answered.                                             *)

\* What a call may come to, whoever runs it.
Outcomes == {"unknown_tool", "task", "input_required", "tool_result", "tool_error"}

\* An answer with an error is not one without.
LEMMA ErrorsAreErrors == ASSUME NEW code \in Codes PROVE Error(code).error # None
BY NoCode DEF Error

LEMMA EraCases ==
    ASSUME NEW header, NEW meta
    PROVE  /\ Detect(header, meta) \in {"malformed", "mismatch", "modern", "legacy"}
           /\ Detect(header, meta) = "modern" => FromParams(meta) = "modern"
           /\ Detect(header, meta) = "legacy" => FromParams(meta) = "legacy"
BY DEF Detect, FromParams

\* The answer to a tool call: a task needs leave and a manager, a request for input
\* the modern era.
LEMMA CallAnswers ==
    ASSUME NEW srv, srv.dispatcher \in {None} \cup Outcomes, NEW r, NEW ctx, NEW modern, NEW allow,
           HandleToolsCall(srv, r, ctx, modern, allow).error = None
    PROVE  LET a == HandleToolsCall(srv, r, ctx, modern, allow)
           IN  /\ a.result \in {"task", "input_required", "tool_result", "tool_error"}
               /\ a.result = "task" => allow /\ srv.manager
               /\ a.result = "input_required" => modern
<1>1. PICK outcome : outcome = IF srv.dispatcher # None THEN srv.dispatcher
                               ELSE Execute(srv.tools, r.call, ctx).outcome
  OBVIOUS
<1>2. outcome \in Outcomes
  BY <1>1 DEF Execute, Outcomes
<1>3. /\ Error("invalid_params").error # None /\ Error("header_mismatch").error # None
      /\ Error("internal_error").error # None
  BY ErrorsAreErrors DEF Codes
<1>4. HandleToolsCall(srv, r, ctx, modern, allow) = AnswerCall(srv, outcome, modern, allow)
  BY <1>1, <1>3 DEF HandleToolsCall
<1>5. PICK a : a = AnswerCall(srv, outcome, modern, allow)
  OBVIOUS
<1>6. a.error = None
  BY <1>4, <1>5
<1>7. /\ a.result \in {"task", "input_required", "tool_result", "tool_error"}
      /\ a.result = "task" => allow /\ srv.manager
      /\ a.result = "input_required" => modern
  BY <1>2, <1>3, <1>5, <1>6 DEF AnswerCall, Outcomes, Result
<1> QED
  BY <1>4, <1>5, <1>7

LEMMA LegacyAnswers ==
    ASSUME NEW srv, srv.dispatcher \in {None} \cup Outcomes, NEW r, NEW ctx,
           ProcessLegacy(srv, r, ctx).error = None
    PROVE  ProcessLegacy(srv, r, ctx).result \notin {"task", "task_state", "task_ack", "input_required"}
<1>1. /\ Error("invalid_params").error # None /\ Error("invalid_request").error # None
      /\ Error("method_not_found").error # None
  BY ErrorsAreErrors DEF Codes
<1>2. CASE r.method = "tools/call"
  <2>1. ProcessLegacy(srv, r, ctx) = HandleToolsCall(srv, r, ctx, FALSE, FALSE)
    BY <1>2 DEF ProcessLegacy
  <2>2. PICK a : a = HandleToolsCall(srv, r, ctx, FALSE, FALSE)
    OBVIOUS
  <2>3. /\ a.result \in {"task", "input_required", "tool_result", "tool_error"}
        /\ a.result # "task" /\ a.result # "input_required"
    BY <2>1, <2>2, CallAnswers
  <2> QED
    BY <2>1, <2>2, <2>3
<1>3. CASE r.method # "tools/call"
  BY <1>1, <1>3 DEF ProcessLegacy, HandleSetLevel, HandleToolsList, HandleUnknownMethod, Result
<1> QED
  BY <1>2, <1>3

LEMMA ModernAnswers ==
    ASSUME NEW srv, srv.dispatcher \in {None} \cup Outcomes, NEW r, NEW ctx,
           ModernMethod(srv, r, ctx).error = None
    PROVE  /\ ModernMethod(srv, r, ctx).result \notin {"initialized", "empty", "set_level"}
           /\ r.method \notin RemovedMethods
           /\ ModernMethod(srv, r, ctx).result \in {"task", "task_state", "task_ack"} =>
                  srv.manager /\ r.meta.tasks
<1>1. /\ Error("invalid_params").error # None /\ Error("internal_error").error # None
      /\ Error("method_not_found").error # None /\ Error("missing_capability").error # None
  BY ErrorsAreErrors DEF Codes
<1>2. r.method \notin RemovedMethods
  <2>1. ASSUME r.method \in RemovedMethods PROVE FALSE
    <3>1. /\ r.method # "server/discover" /\ r.method # "tools/list" /\ r.method # "tools/call"
          /\ r.method \notin TaskMethods
      BY <2>1 DEF RemovedMethods, TaskMethods
    <3>2. ModernMethod(srv, r, ctx) = Error("method_not_found")
      BY <2>1, <3>1 DEF ModernMethod
    <3> QED
      BY <1>1, <3>2
  <2> QED
    BY <2>1
<1>3. CASE r.method = "tools/call"
  <2>1. ModernMethod(srv, r, ctx) = HandleToolsCall(srv, r, ctx, TRUE, r.meta.tasks)
    BY <1>2, <1>3 DEF ModernMethod, RemovedMethods, TaskMethods
  <2>2. PICK a : a = HandleToolsCall(srv, r, ctx, TRUE, r.meta.tasks)
    OBVIOUS
  <2>3. /\ a.result \in {"task", "input_required", "tool_result", "tool_error"}
        /\ a.result = "task" => r.meta.tasks /\ srv.manager
    BY <2>1, <2>2, CallAnswers
  <2> QED
    BY <1>2, <2>1, <2>2, <2>3
<1>4. CASE r.method # "tools/call"
  <2>1. CASE r.method \in TaskMethods /\ srv.manager
    <3>1. r.method # "server/discover" /\ r.method # "tools/list"
      BY <2>1 DEF TaskMethods
    <3>2. ModernMethod(srv, r, ctx) =
              IF r.meta.tasks THEN HandleTaskMethod(r) ELSE Error("missing_capability")
      BY <1>2, <1>4, <2>1, <3>1 DEF ModernMethod
    <3>3. r.meta.tasks /\ ModernMethod(srv, r, ctx) = HandleTaskMethod(r)
      BY <1>1, <3>2
    <3>4. HandleTaskMethod(r).result \in {"task_state", "task_ack"}
      BY <1>1, <3>3 DEF HandleTaskMethod, Result
    <3> QED
      BY <1>2, <2>1, <3>3, <3>4
  <2>2. CASE ~(r.method \in TaskMethods /\ srv.manager)
    BY <1>1, <1>2, <1>4, <2>2 DEF ModernMethod, HandleToolsList, HandleUnknownMethod, Result
  <2> QED
    BY <2>1, <2>2
<1> QED
  BY <1>3, <1>4

\* A successful answer, and the era it was given in.
LEMMA AnswersByEra ==
    ASSUME NEW srv, NEW r, NEW ctx, Answer(srv, r, ctx) # None, Answer(srv, r, ctx).error = None
    PROVE  \/ /\ FromParams(r.meta) = "modern"
              /\ Answer(srv, r, ctx) = ModernMethod(srv, r, ctx)
           \/ /\ FromParams(r.meta) = "legacy"
              /\ Answer(srv, r, ctx) = ProcessLegacy(srv, r, ctx)
<1>1. /\ Error("invalid_params").error # None /\ Error("invalid_request").error # None
      /\ Error("header_mismatch").error # None /\ Error("unsupported_version").error # None
  BY ErrorsAreErrors DEF Codes
<1>2. Answer(srv, r, ctx) = Route(srv, r, ctx)
  BY <1>1 DEF Answer
<1>3. PICK era : era = Detect(r.header, r.meta)
  OBVIOUS
<1>4. era \in {"malformed", "mismatch", "modern", "legacy"}
  BY <1>3, EraCases
<1>5. Route(srv, r, ctx) = CASE era = "malformed" -> Error("invalid_params")
                             [] era = "mismatch"  -> Error("header_mismatch")
                             [] era = "modern"    -> ProcessModern(srv, r, ctx)
                             [] era = "legacy"    -> ProcessLegacy(srv, r, ctx)
  BY <1>3 DEF Route
<1>6. CASE era = "modern"
  BY <1>1, <1>2, <1>3, <1>5, <1>6, EraCases DEF ProcessModern
<1>7. CASE era = "legacy"
  BY <1>2, <1>3, <1>5, <1>7, EraCases
<1>8. CASE era \in {"malformed", "mismatch"}
  BY <1>1, <1>2, <1>5, <1>8
<1> QED
  BY <1>4, <1>6, <1>7, <1>8

\* Whatever a dispatcher comes to, tasks are for the modern requests that declared them
\* and a server with a manager; and neither era gets what belongs to the other
\* (TasksOnlyDeclared and RemovedNeverServed; dispatch, process_modern and
\* handle_tools_call of server.rs).
THEOREM ErasAreServedApart ==
    ASSUME NEW srv, srv.dispatcher \in {None} \cup Outcomes, NEW r, NEW ctx
    PROVE  TasksOnlyDeclared(srv, r, ctx) /\ RemovedNeverServed(srv, r, ctx)
<1>1. PICK a : a = Answer(srv, r, ctx)
  OBVIOUS
<1>2. ASSUME a # None, a.error = None, FromParams(r.meta) = "modern"
      PROVE  /\ a.result \notin {"initialized", "empty", "set_level"} /\ r.method \notin RemovedMethods
             /\ a.result \in {"task", "task_state", "task_ack"} => srv.manager /\ r.meta.tasks
  <2>1. a = ModernMethod(srv, r, ctx)
    BY <1>1, <1>2, AnswersByEra
  <2> QED
    BY <1>2, <2>1, ModernAnswers
<1>3. ASSUME a # None, a.error = None, FromParams(r.meta) # "modern"
      PROVE  a.result \notin {"task", "task_state", "task_ack", "input_required"}
  <2>1. a = ProcessLegacy(srv, r, ctx)
    BY <1>1, <1>3, AnswersByEra
  <2> QED
    BY <1>3, <2>1, LegacyAnswers
<1>4. TasksOnlyDeclared(srv, r, ctx)
  BY <1>1, <1>2, <1>3 DEF TasksOnlyDeclared
<1>5. RemovedNeverServed(srv, r, ctx)
  BY <1>1, <1>2, <1>3 DEF RemovedNeverServed
<1> QED
  BY <1>4, <1>5

\* The tools a caller may run are among those listed for it (HiddenIsRefused; refusal
\* and list_definitions_for of tool.rs).
THEOREM HiddenToolsDoNotRun ==
    ASSUME NEW registry, NEW request, NEW ctx
    PROVE  HiddenIsRefused(registry, request, ctx)
BY DEF HiddenIsRefused, Execute, Refusal, ListDefinitionsFor

\* The levels of MCP count up to the most severe, those of RFC 5424 down to it.
LEMMA LevelsCountDown ==
    /\ DOMAIN Rfc5424 = {"debug", "info", "notice", "warning", "error", "critical", "alert", "emergency"}
    /\ \A l \in DOMAIN Rfc5424 : Rfc5424[l] \in 0..7 /\ FromWire(l) = 8 - Rfc5424[l]
    /\ \A l : l \notin DOMAIN Rfc5424 => FromWire(l) = None
<1>1. DOMAIN Rfc5424 = {"debug", "info", "notice", "warning", "error", "critical", "alert", "emergency"}
  BY DEF Rfc5424
<1>2. DOMAIN Levels = 1..8
  BY DEF Levels
<1>3. /\ Levels[1] = "debug" /\ Levels[2] = "info" /\ Levels[3] = "notice" /\ Levels[4] = "warning"
      /\ Levels[5] = "error" /\ Levels[6] = "critical" /\ Levels[7] = "alert" /\ Levels[8] = "emergency"
  BY DEF Levels
<1>4. /\ Rfc5424["debug"] = 7 /\ Rfc5424["info"] = 6 /\ Rfc5424["notice"] = 5 /\ Rfc5424["warning"] = 4
      /\ Rfc5424["error"] = 3 /\ Rfc5424["critical"] = 2 /\ Rfc5424["alert"] = 1
      /\ Rfc5424["emergency"] = 0
  BY DEF Rfc5424
<1>5. \A i \in 1..8 : i \in {1, 2, 3, 4, 5, 6, 7, 8}
  OBVIOUS
<1>6. \A i, j \in 1..8 : Levels[i] = Levels[j] => i = j
  BY <1>3, <1>5
<1>7. ASSUME NEW i \in 1..8 PROVE FromWire(Levels[i]) = i
  BY <1>2, <1>6 DEF FromWire
<1>8. \A l \in DOMAIN Rfc5424 : \E i \in 1..8 : l = Levels[i] /\ Rfc5424[l] = 8 - i
  BY <1>1, <1>3, <1>4
<1>9. ASSUME NEW l \in DOMAIN Rfc5424 PROVE Rfc5424[l] \in 0..7 /\ FromWire(l) = 8 - Rfc5424[l]
  <2>1. PICK i \in 1..8 : l = Levels[i] /\ Rfc5424[l] = 8 - i
    BY <1>8
  <2>2. FromWire(l) = i
    BY <1>7, <2>1
  <2> QED
    BY <2>1, <2>2
<1>10. ASSUME NEW l, l \notin DOMAIN Rfc5424 PROVE FromWire(l) = None
  <2>1. \A i \in DOMAIN Levels : Levels[i] # l
    BY <1>1, <1>2, <1>3, <1>5, <1>10
  <2> QED
    BY <2>1 DEF FromWire
<1> QED
  BY <1>1, <1>9, <1>10

\* A client gets the log messages and questions it asked for in its era and no other
\* (OnlyAskedIsSent; client_channel.rs and logging.rs).
THEOREM ClientsGetWhatTheyAsked ==
    ASSUME NEW in, in.era \in {"legacy", "modern", "unbound"}
    PROVE  OnlyAskedIsSent(in)
<1>1. PICK c : c = [logging |-> in.logging, era |-> in.era, connected |-> in.connected,
                    declared |-> in.declared, reaches_client |-> in.reaches_client,
                    session_level |-> FromWire(in.set), meta_level |-> FromWire(in.meta)]
  OBVIOUS
<1>2. /\ c.logging = in.logging /\ c.era = in.era /\ c.connected = in.connected
      /\ c.declared = in.declared /\ c.reaches_client = in.reaches_client
      /\ c.session_level = FromWire(in.set) /\ c.meta_level = FromWire(in.meta)
  BY <1>1
<1>3. PICK asked : asked = IF in.era = "legacy" THEN in.set
                           ELSE IF in.era = "modern" THEN in.meta ELSE None
  OBVIOUS
<1>4. LogLevel(c) = IF in.logging THEN FromWire(asked) ELSE None
  BY <1>2, <1>3, LevelsCountDown, LevelsAssumption DEF LogLevel
<1>5. ASSUME NEW l \in DOMAIN Rfc5424
      PROVE  WantsLog(c, FromWire(l)) <=>
                 /\ in.logging /\ in.reaches_client
                 /\ asked \in DOMAIN Rfc5424 /\ Rfc5424[l] <= Rfc5424[asked]
  <2>1. PICK n \in 0..7 : n = Rfc5424[l] /\ FromWire(l) = 8 - n
    BY LevelsCountDown
  <2>2. CASE ~in.logging
    BY <1>4, <2>2 DEF WantsLog
  <2>3. CASE in.logging /\ asked \notin DOMAIN Rfc5424
    BY <1>4, <2>3, LevelsCountDown DEF WantsLog
  <2>4. CASE in.logging /\ asked \in DOMAIN Rfc5424
    <3>1. PICK k \in 0..7 : k = Rfc5424[asked] /\ FromWire(asked) = 8 - k
      BY <2>4, LevelsCountDown
    <3>2. LogLevel(c) = 8 - k /\ 8 - k # None
      BY <1>4, <2>4, <3>1, NoCode
    <3>3. 8 - n >= 8 - k <=> n <= k
      OBVIOUS
    <3> QED
      BY <1>2, <2>1, <2>4, <3>1, <3>2, <3>3 DEF WantsLog
  <2> QED
    BY <2>2, <2>3, <2>4
<1>6. QuestionRefused(c) = None => in.era = "legacy" /\ in.declared /\ in.reaches_client
  <2>1. /\ None # "no_connection" /\ None # "stateless_revision"
        /\ None # "capability_not_declared" /\ None # "no_event_stream"
    BY NoCode DEF Codes
  <2>2. ASSUME QuestionRefused(c) = None
        PROVE  c.era # "unbound" /\ c.era # "modern" /\ c.declared /\ c.reaches_client
    BY <2>1, <2>2 DEF QuestionRefused
  <2> QED
    BY <1>2, <2>2
<1>7. OnlyAskedIsSent(in) <=>
          /\ \A l \in DOMAIN Rfc5424 :
                 WantsLog(c, FromWire(l)) <=>
                     /\ in.logging /\ in.reaches_client
                     /\ asked \in DOMAIN Rfc5424 /\ Rfc5424[l] <= Rfc5424[asked]
          /\ QuestionRefused(c) = None => in.era = "legacy" /\ in.declared /\ in.reaches_client
  BY <1>1, <1>3, Zenon DEF OnlyAskedIsSent
<1> QED
  BY <1>5, <1>6, <1>7

\* What a server advertises it serves, and what it does not advertise it refuses, where
\* the host's own handler leaves the two methods alone (AdvertisedIsServed;
\* advertised_capabilities and dispatch of server.rs).
THEOREM AdvertisedMethodsAreServed ==
    ASSUME NEW server, NEW tools, server.manager \in BOOLEAN, Modern \in server.versions,
           "extension:tasks" \notin server.capabilities,
           "tasks/get" \notin server.handler, "logging/setLevel" \notin server.handler
    PROVE  AdvertisedIsServed(server, tools)
<1>1. PICK srv : srv = Running(server, tools)
  OBVIOUS
<1>2. /\ srv.versions = server.versions /\ srv.handler = server.handler
      /\ srv.manager = server.manager /\ srv.logging = ("logging" \in server.capabilities)
  BY <1>1 DEF Running
<1>3. Error("method_not_found").error # None
  BY ErrorsAreErrors DEF Codes
<1>4. SetLevelContext.session = TRUE
  BY DEF SetLevelContext, Anonymous
<1>5. ASSUME NEW r, r.jsonrpc = "2.0", r.id = TRUE, r.method = "tasks/get", r.header = None,
             r.params = "ok", r.task = "ok", r.meta.version = Modern, r.meta.caps = TRUE,
             r.meta.tasks = TRUE
      PROVE  Answer(srv, r, SetLevelContext).error = None <=> server.manager
  <2>1. Modern # None
    BY NoCode DEF Modern
  <2>2. Detect(r.header, r.meta) = "modern"
    BY <1>5, <2>1 DEF Detect, FromParams
  <2>3. Answer(srv, r, SetLevelContext) = ModernMethod(srv, r, SetLevelContext)
    BY <1>2, <1>5, <2>2 DEF Answer, Route, ProcessModern
  <2>4. ModernMethod(srv, r, SetLevelContext) =
            IF server.manager THEN HandleTaskMethod(r) ELSE HandleUnknownMethod(srv, r.method)
    BY <1>2, <1>5 DEF ModernMethod, RemovedMethods, TaskMethods
  <2>5. HandleTaskMethod(r).error = None
    BY <1>5 DEF HandleTaskMethod, Result
  <2>6. HandleUnknownMethod(srv, r.method) = Error("method_not_found")
    BY <1>2, <1>5 DEF HandleUnknownMethod
  <2> QED
    BY <1>3, <2>3, <2>4, <2>5, <2>6
<1>6. ASSUME NEW r, r.jsonrpc = "2.0", r.id = TRUE, r.method = "logging/setLevel", r.header = None,
             r.params = "ok", r.meta.version = None
      PROVE  Answer(srv, r, SetLevelContext).error = None <=> "logging" \in server.capabilities
  <2>1. Detect(r.header, r.meta) = "legacy"
    BY <1>6 DEF Detect, FromParams
  <2>2. Answer(srv, r, SetLevelContext) = ProcessLegacy(srv, r, SetLevelContext)
    BY <1>6, <2>1 DEF Answer, Route
  <2>3. ProcessLegacy(srv, r, SetLevelContext) =
            IF "logging" \in server.capabilities THEN HandleSetLevel(r, SetLevelContext)
            ELSE HandleUnknownMethod(srv, r.method)
    BY <1>2, <1>6 DEF ProcessLegacy
  <2>4. HandleSetLevel(r, SetLevelContext).error = None
    BY <1>4, <1>6 DEF HandleSetLevel, Result
  <2>5. HandleUnknownMethod(srv, r.method) = Error("method_not_found")
    BY <1>2, <1>6 DEF HandleUnknownMethod
  <2> QED
    BY <1>3, <2>2, <2>3, <2>4, <2>5
<1>7. /\ "extension:tasks" \in AdvertisedCapabilities(server) <=> server.manager
      /\ "logging" \in AdvertisedCapabilities(server) <=> "logging" \in server.capabilities
  BY DEF AdvertisedCapabilities
<1> DEFINE request(method, meta) ==
        [jsonrpc |-> "2.0", id |-> TRUE, method |-> method, meta |-> meta,
         header |-> None, params |-> "ok", task |-> "ok"]
<1>8. PICK tasks : tasks = request("tasks/get", [version |-> Modern, caps |-> TRUE, tasks |-> TRUE])
  OBVIOUS
<1>9. PICK level : level = request("logging/setLevel", [version |-> None, caps |-> FALSE, tasks |-> FALSE])
  OBVIOUS
<1>10. AdvertisedIsServed(server, tools) <=>
           /\ "extension:tasks" \in AdvertisedCapabilities(server) <=>
                  Answer(srv, tasks, SetLevelContext).error = None
           /\ "logging" \in AdvertisedCapabilities(server) <=>
                  Answer(srv, level, SetLevelContext).error = None
  BY <1>1, <1>8, <1>9, Zenon DEF AdvertisedIsServed
<1>11. Answer(srv, tasks, SetLevelContext).error = None <=> server.manager
  BY <1>5, <1>8
<1>12. Answer(srv, level, SetLevelContext).error = None <=> "logging" \in server.capabilities
  BY <1>6, <1>9
<1> QED
  BY <1>7, <1>10, <1>11, <1>12

\* The members that tell the kinds of an elicitation schema apart.
TellTale == {"oneOf", "enum", "enumNames", "items.anyOf", "items.enum"}

\* A schema is read back as the kind it was written as, with any other members
\* (SchemaRoundTrip; elicitation.rs).
THEOREM SchemasAreReadBack ==
    ASSUME NEW k \in 1..8, NEW extra, extra \cap TellTale = {}
    PROVE  SchemaRoundTrip(SchemaOrder[k], extra)
<1>1. DOMAIN SchemaOrder = 1..8
  BY DEF SchemaOrder
<1>2. /\ SchemaOrder[1] = "titled_single" /\ SchemaOrder[2] = "legacy_titled"
      /\ SchemaOrder[3] = "untitled_single" /\ SchemaOrder[4] = "titled_multi"
      /\ SchemaOrder[5] = "untitled_multi" /\ SchemaOrder[6] = "string"
      /\ SchemaOrder[7] = "number" /\ SchemaOrder[8] = "boolean"
  BY DEF SchemaOrder
<1>3. /\ RequiredMembers("titled_single") = {"oneOf"} /\ RequiredMembers("legacy_titled") = {"enum", "enumNames"}
      /\ RequiredMembers("untitled_single") = {"enum"} /\ RequiredMembers("titled_multi") = {"items.anyOf"}
      /\ RequiredMembers("untitled_multi") = {"items.enum"} /\ RequiredMembers("string") = {}
      /\ RequiredMembers("number") = {} /\ RequiredMembers("boolean") = {}
  BY DEF RequiredMembers
<1>4. /\ SchemaType("titled_single") = "string" /\ SchemaType("legacy_titled") = "string"
      /\ SchemaType("untitled_single") = "string" /\ SchemaType("titled_multi") = "array"
      /\ SchemaType("untitled_multi") = "array" /\ SchemaType("string") = "string"
      /\ SchemaType("number") = "number" /\ SchemaType("boolean") = "boolean"
  BY DEF SchemaType
<1>5. PICK members : members = RequiredMembers(SchemaOrder[k]) \cup extra
  OBVIOUS
<1>6. PICK fits : fits = {i \in 1..8 : /\ SchemaType(SchemaOrder[i]) = SchemaType(SchemaOrder[k])
                                      /\ RequiredMembers(SchemaOrder[i]) \subseteq members}
  OBVIOUS
<1>7. k \in fits
  BY <1>5, <1>6
<1>8. ASSUME NEW i \in 1..8, i < k, SchemaType(SchemaOrder[i]) = SchemaType(SchemaOrder[k])
      PROVE  ~(RequiredMembers(SchemaOrder[i]) \subseteq members)
  <2>1. /\ k \in {1, 2, 3, 4, 5, 6, 7, 8} /\ i \in {1, 2, 3, 4, 5, 6, 7, 8}
        /\ k \in {2, 3, 5, 6}
    BY <1>2, <1>4, <1>8
  <2>2. "oneOf" \notin extra /\ "enum" \notin extra /\ "enumNames" \notin extra /\ "items.anyOf" \notin extra
    BY DEF TellTale
  <2>3. CASE k = 2
    BY <1>2, <1>3, <1>4, <1>5, <1>8, <2>1, <2>2, <2>3
  <2>4. CASE k = 3
    BY <1>2, <1>3, <1>4, <1>5, <1>8, <2>1, <2>2, <2>4
  <2>5. CASE k = 5
    BY <1>2, <1>3, <1>4, <1>5, <1>8, <2>1, <2>2, <2>5
  <2>6. CASE k = 6
    BY <1>2, <1>3, <1>4, <1>5, <1>8, <2>1, <2>2, <2>6
  <2> QED
    BY <2>1, <2>3, <2>4, <2>5, <2>6
<1>9. \A i \in fits : i \in 1..8 /\ k <= i
  BY <1>6, <1>8
<1>10. Min(fits) = k
  <2>1. \A x \in fits : (\A y \in fits : x <= y) => x = k
    BY <1>7, <1>9
  <2> QED
    BY <1>7, <1>9, <2>1 DEF Min
<1>11. ReadSchema(SchemaType(SchemaOrder[k]), members) = SchemaOrder[Min(fits)]
  BY <1>1, <1>6, <1>7 DEF ReadSchema
<1> QED
  BY <1>5, <1>10, <1>11 DEF SchemaRoundTrip

\* A server under construction: each of its fields has a value.
UnderConstruction(server) == server = [f \in DOMAIN NewServer |-> server[f]]

LEMMA FieldsOfServer ==
    /\ "store" \in DOMAIN NewServer /\ "limits" \in DOMAIN NewServer
    /\ \A s : UnderConstruction(s) => s["store"] = s.store /\ s["limits"] = s.limits
BY DEF NewServer, UnderConstruction

\* Setting two fields in either order.
LEMMA TwoFields ==
    ASSUME NEW s, NEW f, NEW g, f # g, NEW u, NEW v
    PROVE  [[s EXCEPT ![f] = u] EXCEPT ![g] = v] = [[s EXCEPT ![g] = v] EXCEPT ![f] = u]
OBVIOUS

\* A builder that is neither of the two that know of each other.
LEMMA OtherBuilder ==
    ASSUME NEW s, UnderConstruction(s), NEW b, b.with \in DOMAIN NewServer,
           b.with # "store", b.with # "limits"
    PROVE  /\ With(s, b) = [s EXCEPT ![b.with] = b.value]
           /\ UnderConstruction(With(s, b))
           /\ With(s, b).store = s.store /\ With(s, b).limits = s.limits
<1>1. With(s, b) = [s EXCEPT ![b.with] = b.value]
  BY DEF With
<1>2. PICK t : t = [s EXCEPT ![b.with] = b.value]
  OBVIOUS
<1>3. DOMAIN s = DOMAIN NewServer
  BY DEF UnderConstruction
<1>4. UnderConstruction(t)
  BY <1>2, <1>3 DEF UnderConstruction
<1>5. t["store"] = s["store"] /\ t["limits"] = s["limits"]
  BY <1>2, <1>3, FieldsOfServer
<1> QED
  BY <1>1, <1>2, <1>4, <1>5, FieldsOfServer

\* The store's builder and the limits' one, each as two fields set.
LEMMA StoreBuilder ==
    ASSUME NEW s, UnderConstruction(s), NEW ttl
    PROVE  /\ WithHttpSessions(s, ttl) = [s EXCEPT !["store"] = [ttl |-> ttl, limits |-> s.limits]]
           /\ UnderConstruction(WithHttpSessions(s, ttl))
           /\ WithHttpSessions(s, ttl).store = [ttl |-> ttl, limits |-> s.limits]
           /\ WithHttpSessions(s, ttl).limits = s.limits
<1>1. PICK v : v = [ttl |-> ttl, limits |-> s.limits]
  OBVIOUS
<1>2. PICK t : t = [s EXCEPT !["store"] = v]
  OBVIOUS
<1>3. WithHttpSessions(s, ttl) = t
  BY <1>1, <1>2 DEF WithHttpSessions
<1>4. DOMAIN s = DOMAIN NewServer
  BY DEF UnderConstruction
<1>5. UnderConstruction(t)
  BY <1>2, <1>4 DEF UnderConstruction
<1>6. t["store"] = v /\ t["limits"] = s["limits"]
  BY <1>2, <1>4, FieldsOfServer
<1> QED
  BY <1>1, <1>2, <1>3, <1>5, <1>6, FieldsOfServer

\* The store of a server once its limits are set.
Relimited(store, limits) == IF store = None THEN None ELSE [store EXCEPT !.limits = limits]

LEMMA LimitsBuilder ==
    ASSUME NEW s, UnderConstruction(s), NEW limits
    PROVE  /\ WithHttpSessionLimits(s, limits) =
                  [[s EXCEPT !["limits"] = limits] EXCEPT !["store"] = Relimited(s.store, limits)]
           /\ UnderConstruction(WithHttpSessionLimits(s, limits))
           /\ WithHttpSessionLimits(s, limits).limits = limits
<1>1. PICK st : st = Relimited(s.store, limits)
  OBVIOUS
<1>2. PICK t : t = [[s EXCEPT !["limits"] = limits] EXCEPT !["store"] = st]
  OBVIOUS
<1>3. DOMAIN s = DOMAIN NewServer
  BY DEF UnderConstruction
<1>4. WithHttpSessionLimits(s, limits) = t
  BY <1>1, <1>2, <1>3, FieldsOfServer DEF WithHttpSessionLimits, Relimited
<1>5. UnderConstruction(t)
  BY <1>2, <1>3 DEF UnderConstruction
<1>6. t["limits"] = limits
  BY <1>2, <1>3, FieldsOfServer
<1> QED
  BY <1>1, <1>2, <1>4, <1>5, <1>6, FieldsOfServer

LEMMA StoreAndOther ==
    ASSUME NEW s, UnderConstruction(s), NEW b, NEW c, b.with = "store",
           c.with \in DOMAIN NewServer, c.with # "store", c.with # "limits"
    PROVE  With(With(s, b), c) = With(With(s, c), b)
<1>1. PICK v : v = [ttl |-> b.value, limits |-> s.limits]
  OBVIOUS
<1>2. \A t : With(t, b) = WithHttpSessions(t, b.value)
  BY DEF With
<1>3. UnderConstruction(With(s, b)) /\ With(s, b) = [s EXCEPT !["store"] = v]
  BY <1>1, <1>2, StoreBuilder
<1>4. /\ UnderConstruction(With(s, c)) /\ With(s, c) = [s EXCEPT ![c.with] = c.value]
      /\ With(s, c).limits = s.limits
  BY OtherBuilder
<1>5. PICK t : t = With(s, b)
  OBVIOUS
<1>6. With(t, c) = [t EXCEPT ![c.with] = c.value]
  <2>1. UnderConstruction(t)
    BY ONLY <1>3, <1>5
  <2> QED
    BY ONLY <2>1, c.with \in DOMAIN NewServer, c.with # "store", c.with # "limits", OtherBuilder
<1>7. PICK r : r = With(s, c)
  OBVIOUS
<1>8. With(r, b) = [r EXCEPT !["store"] = [ttl |-> b.value, limits |-> r.limits]]
  <2>1. UnderConstruction(r)
    BY ONLY <1>4, <1>7
  <2>2. PICK u : u = b.value
    OBVIOUS
  <2>3. WithHttpSessions(r, u) = [r EXCEPT !["store"] = [ttl |-> u, limits |-> r.limits]]
    BY ONLY <2>1, StoreBuilder
  <2> QED
    BY ONLY <1>2, <2>2, <2>3, Zenon
<1>9. r.limits = s.limits
  BY <1>4, <1>7
<1>10. With(r, b) = [r EXCEPT !["store"] = v]
  BY <1>1, <1>8, <1>9
<1>11. [t EXCEPT ![c.with] = c.value] = [r EXCEPT !["store"] = v]
  BY <1>3, <1>4, <1>5, <1>7, TwoFields
<1> QED
  BY <1>5, <1>6, <1>7, <1>10, <1>11

LEMMA LimitsAndOther ==
    ASSUME NEW s, UnderConstruction(s), NEW b, NEW c, b.with = "limits",
           c.with \in DOMAIN NewServer, c.with # "store", c.with # "limits"
    PROVE  With(With(s, b), c) = With(With(s, c), b)
<1>1. PICK st : st = Relimited(s.store, b.value)
  OBVIOUS
<1>2. \A t : With(t, b) = WithHttpSessionLimits(t, b.value)
  BY DEF With
<1>3. /\ UnderConstruction(With(s, b))
      /\ With(s, b) = [[s EXCEPT !["limits"] = b.value] EXCEPT !["store"] = st]
  BY <1>1, <1>2, LimitsBuilder
<1>4. /\ UnderConstruction(With(s, c)) /\ With(s, c) = [s EXCEPT ![c.with] = c.value]
      /\ With(s, c).store = s.store
  BY OtherBuilder
<1>5. PICK t : t = With(s, b)
  OBVIOUS
<1>6. With(t, c) = [t EXCEPT ![c.with] = c.value]
  <2>1. UnderConstruction(t)
    BY ONLY <1>3, <1>5
  <2> QED
    BY ONLY <2>1, c.with \in DOMAIN NewServer, c.with # "store", c.with # "limits", OtherBuilder
<1>7. PICK r : r = With(s, c)
  OBVIOUS
<1>8. With(r, b) = [[r EXCEPT !["limits"] = b.value] EXCEPT !["store"] = Relimited(r.store, b.value)]
  <2>1. UnderConstruction(r)
    BY ONLY <1>4, <1>7
  <2> QED
    BY ONLY <1>2, <2>1, LimitsBuilder
<1>9. r.store = s.store
  BY <1>4, <1>7
<1>10. With(r, b) = [[r EXCEPT !["limits"] = b.value] EXCEPT !["store"] = st]
  BY <1>1, <1>8, <1>9
<1>11. [t EXCEPT ![c.with] = c.value] = [[r EXCEPT !["limits"] = b.value] EXCEPT !["store"] = st]
  BY <1>3, <1>4, <1>5, <1>7, TwoFields
<1> QED
  BY <1>5, <1>6, <1>7, <1>10, <1>11

LEMMA StoreAndLimits ==
    ASSUME NEW s, UnderConstruction(s), NEW b, NEW c, b.with = "store", c.with = "limits",
           [ttl |-> b.value, limits |-> s.limits] # None
    PROVE  With(With(s, b), c) = With(With(s, c), b)
<1>1. PICK v : v = [ttl |-> b.value, limits |-> s.limits]
  OBVIOUS
<1>2. PICK w : w = [ttl |-> b.value, limits |-> c.value]
  OBVIOUS
<1>3. /\ \A t : With(t, b) = WithHttpSessions(t, b.value)
      /\ \A t : With(t, c) = WithHttpSessionLimits(t, c.value)
  BY DEF With
<1>4. Relimited(v, c.value) = w
  BY <1>1, <1>2 DEF Relimited
<1>5. /\ UnderConstruction(With(s, b)) /\ With(s, b) = [s EXCEPT !["store"] = v]
      /\ With(s, b).store = v
  BY <1>1, <1>3, StoreBuilder
<1>6. PICK t : t = With(s, b)
  OBVIOUS
<1>7. With(t, c) = [[t EXCEPT !["limits"] = c.value] EXCEPT !["store"] = Relimited(t.store, c.value)]
  <2>1. UnderConstruction(t)
    BY ONLY <1>5, <1>6
  <2> QED
    BY ONLY <1>3, <2>1, LimitsBuilder
<1>8. t.store = v
  BY <1>5, <1>6
<1>9. With(t, c) = [[t EXCEPT !["limits"] = c.value] EXCEPT !["store"] = w]
  BY <1>4, <1>7, <1>8
<1>10. PICK st : st = Relimited(s.store, c.value)
  OBVIOUS
<1>11. /\ UnderConstruction(With(s, c)) /\ With(s, c).limits = c.value
       /\ With(s, c) = [[s EXCEPT !["limits"] = c.value] EXCEPT !["store"] = st]
  BY <1>3, <1>10, LimitsBuilder
<1>12. PICK r : r = With(s, c)
  OBVIOUS
<1>13. With(r, b) = [r EXCEPT !["store"] = [ttl |-> b.value, limits |-> r.limits]]
  <2>1. UnderConstruction(r)
    BY ONLY <1>11, <1>12
  <2>2. PICK u : u = b.value
    OBVIOUS
  <2>3. WithHttpSessions(r, u) = [r EXCEPT !["store"] = [ttl |-> u, limits |-> r.limits]]
    BY ONLY <2>1, StoreBuilder
  <2> QED
    BY ONLY <1>3, <2>2, <2>3, Zenon
<1>14. r.limits = c.value
  BY <1>11, <1>12
<1>15. With(r, b) = [r EXCEPT !["store"] = w]
  BY <1>2, <1>13, <1>14
<1>16. [[[s EXCEPT !["store"] = v] EXCEPT !["limits"] = c.value] EXCEPT !["store"] = w] =
       [[[s EXCEPT !["limits"] = c.value] EXCEPT !["store"] = st] EXCEPT !["store"] = w]
  OBVIOUS
<1>17. [[t EXCEPT !["limits"] = c.value] EXCEPT !["store"] = w] = [r EXCEPT !["store"] = w]
  BY <1>5, <1>6, <1>11, <1>12, <1>16
<1> QED
  BY <1>6, <1>9, <1>12, <1>15, <1>17

\* The order in which two builders are called makes no difference (BuildersCommute; the
\* `with_*` of server.rs): a store has the limits last set, whenever it was made. A
\* store that was made is not the absent one.
THEOREM BuildersAreInAnyOrder ==
    ASSUME NEW server, UnderConstruction(server), NEW b, NEW c,
           b.with \in DOMAIN NewServer, c.with \in DOMAIN NewServer,
           [ttl |-> b.value, limits |-> server.limits] # None,
           [ttl |-> c.value, limits |-> server.limits] # None
    PROVE  BuildersCommute(server, b, c)
<1> SUFFICES ASSUME b.with # c.with PROVE With(With(server, b), c) = With(With(server, c), b)
  BY DEF BuildersCommute
<1>1. CASE b.with \notin {"store", "limits"} /\ c.with \notin {"store", "limits"}
  <2>1. /\ With(server, b) = [server EXCEPT ![b.with] = b.value] /\ UnderConstruction(With(server, b))
        /\ With(server, c) = [server EXCEPT ![c.with] = c.value] /\ UnderConstruction(With(server, c))
    BY <1>1, OtherBuilder
  <2>2. PICK t : t = With(server, b)
    OBVIOUS
  <2>3. PICK r : r = With(server, c)
    OBVIOUS
  <2>4. With(t, c) = [t EXCEPT ![c.with] = c.value]
    <3>1. UnderConstruction(t) /\ c.with # "store" /\ c.with # "limits"
      BY <1>1, <2>1, <2>2
    <3> QED
      BY ONLY <3>1, c.with \in DOMAIN NewServer, OtherBuilder
  <2>5. With(r, b) = [r EXCEPT ![b.with] = b.value]
    <3>1. UnderConstruction(r) /\ b.with # "store" /\ b.with # "limits"
      BY <1>1, <2>1, <2>3
    <3> QED
      BY ONLY <3>1, b.with \in DOMAIN NewServer, OtherBuilder
  <2>6. [t EXCEPT ![c.with] = c.value] = [r EXCEPT ![b.with] = b.value]
    BY <2>1, <2>2, <2>3, TwoFields
  <2> QED
    BY <2>2, <2>3, <2>4, <2>5, <2>6
<1>2. CASE b.with = "store" /\ c.with # "limits"
  BY <1>2, StoreAndOther
<1>3. CASE c.with = "store" /\ b.with # "limits"
  BY <1>3, StoreAndOther
<1>4. CASE b.with = "limits" /\ c.with # "store"
  BY <1>4, LimitsAndOther
<1>5. CASE c.with = "limits" /\ b.with # "store"
  BY <1>5, LimitsAndOther
<1>6. CASE b.with = "store" /\ c.with = "limits"
  BY <1>6, StoreAndLimits
<1>7. CASE c.with = "store" /\ b.with = "limits"
  BY <1>7, StoreAndLimits
<1> QED
  BY <1>1, <1>2, <1>3, <1>4, <1>5, <1>6, <1>7
=============================================================================
