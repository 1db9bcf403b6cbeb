# A TLA+ model of dravr-tronc

dravr-tronc is the shared trunk of a family of Rust services: an MCP (Model
Context Protocol) server engine with its stdio and HTTP transports, and the
plumbing every service needs around it (service-to-service identity, guarded
HTTP clients, request guards, error notifications). This directory models the
parts of it that keep state and run concurrently, and the decisions on which those
parts act, checks them with TLC on small instances, and proves the safety of the
parts that run concurrently with TLAPS for all instances.

Source paths below are relative to the crate's `src/`.

## Inventory

| Component | State | Operations | What is hard |
|---|---|---|---|
| Task engine, `mcp/tasks.rs` | a store of tasks shared by instances, a table of live runs per instance, a cancellation token and an unbounded channel of answers per run, a host's signal bus | create, request_input, complete, fail, update, cancel, sweep, deliver | store writes and signals are separate steps; operations, clients and sweeps of several instances race; signals may be lost; calls may be dropped between two steps |
| HTTP sessions, `mcp/session.rs` | the map of live sessions, per session the last use, the count of requests and a token | insert, enter, find, end, lazy sweep | clock readings taken before locks, requests served while sessions expire, are evicted or deleted; two limits |
| Stdio transport, `mcp/transport/stdio.rs` | reader loop, writer task, a JoinSet of request tasks, the outbound channel | read, serve, drain, shut down, flush | every line is its own task; end of input, stdout errors, time-out and cancellation in any order |
| Cancellation, `mcp/cancellation.rs` | registry of in-flight requests | register, cancel, release | ids shared by several requests |
| Client channel, `mcp/client_channel.rs` | table of server requests waiting for the client | request, deliver, close, drop | answers racing time-outs, cancellation and the closing of the connection |
| MCP dispatch, `mcp/server.rs` | log level of the session | dispatch, setLevel, tasks/* | ordering of requests; futures dropped at an await |
| HTTP transport, `mcp/transport/http.rs`, `mirror.rs` | per call the phase of its answer, a channel of messages | POST, GET, DELETE, the gates before them | JSON or stream decided while the call runs; disconnects; headers that repeat the body |
| Error digests, `notifications/error_layer.rs` | queue, batch, dedup instants, recent sends | on_event, run, dispatch_batch | windows judged by instants taken before an unbounded post; shutdown |
| Google keys, `iam/key_set.rs` | cached set, its age, last attempt, fetch lock | key | many lookups missing at once; failed and dropped fetches |
| Identity tokens, `iam/token_source.rs` | cached token | token | concurrent refreshes that finish in any order |
| Request guard, `server/request_guard.rs` | one InFlight per request | guard_requests, enforce_deadline | exactly one completion line however a request ends |
| Alert rules, `notify/` | dedup map, batch buffers, the rules | on_event, deliver, flush, reload | dedup stamped before delivery, a flusher beside the emitting threads |
| Notification clients, `notifications/` | none between messages | post, upload, mail, capture | retries of what may have been taken; uploads in three requests |
| Service client, `service_client/` | the shared token | send, classify | one re-send, on a closed connection; refusals told from answers |
| Guarded fetch, `http_client/guard/` | none between fetches | fetch | names rebound between validation and connection, redirects, slow bodies |
| Dispatch of a message, `mcp/server.rs`, `protocol.rs`, `modern.rs`, `tool.rs`, `validation.rs` | the registry and the configuration | read, detect the era, route, list, call | two protocol eras, with the transport and the dispatch judging the same request apart |
| Callers, `mcp/auth.rs`, `mcp/caller.rs`, `server/auth.rs`, `iam/verify.rs`, `mcp/resource_metadata/` | keys and allowlists | admit, resolve, challenge | several credentials with several defaults |
| Pagination, `mcp/pagination.rs` | nothing but the client's cursor | tools/list page by page | the list changes between two pages |
| Redaction and capture, `secrets.rs`, `mcp/observe/` | registered secrets | redact, capture | overlapping secrets, limits in bytes |
| Computations, observability and start-up, test kit | none shared | | pure or I/O |

Who calls whom: a transport reads a message and hands it to `McpServer::dispatch`,
which registers it for cancellation and serves it; `tasks/*` methods go to the
`TaskManager`; a tool may ask its client through the `ClientChannel`, whose
answer comes back through the transport's read loop, or, over HTTP, in a request of
its own. The HTTP transport passes each request through its gates and looks up its
session first; around it the request guard logs how each request ended. Instances of
one service share the task store and exchange task signals on a bus the host
provides. Outwards, a service calls others through the service client with tokens
of the token source, fetches URLs under a policy, and sends alerts through the
notification clients.

## Modules

### TaskLifecycle and TaskManager

`TaskLifecycle` is what the engine promises: the statuses a client sees and the
operations that were told to stop, and nothing else. `TaskManager` is the engine
of `mcp/tasks.rs`, several instances of it over one store.

* `status`, `expired`, `asked` are the store (`TaskStore`); a store call is one step.
* `op` is the operation that holds the `TaskRun`: `creating` between `store.create`
  and the insert into the runs table, `running`, `waiting` in `request_input`,
  `settled` after `complete` or `fail`, `released` after `TaskRun::drop` took
  the table entry, `gone` once the receiver of answers is dropped too.
* `token` and `inbox` are the cancellation token and the channel of the run;
  `bus` the signals under way; `call` the client calls in progress, with a program
  counter for the steps of `apply_input` and `cancel`; `sweepq` the ids a sweep has
  removed and not yet signalled.

`apply_input` is UpdateGet (ownership), UpdateLookup (the run), UpdateTake (the
store update), UpdateHand (send or publish) and UpdateFail. `cancel` is CancelRecord
and CancelSignal; where the first store call of either fails, which it may before it
has seen whose task it is, the call ends with the store's error (FirstStoreFails), `sweep_expired` Sweep and one SweepSignal per id. `tasks/get`
changes nothing; what it shows is `View`, the refinement mapping.

`HostStore` adds what a host's own store can do and the in-memory one cannot:
fail, and be dropped after its write. `UnawaitedAsks` adds the two ways in which a
request for input is left unawaited: `TaskManager::request_input` by id, and a
`TaskRun::request_input` future that is dropped. Without them, `AnswerMatchesRequest`
holds; with them it does not (see Findings).

### SessionStore

Each HTTP request is a thread that reads the clock, decides about the lazy sweep
under one lock, sweeps and acts under another: `req[r].t` is the reading, which may
be stale when it is used. A session counts the requests served in it. Mint to
FinishHandshake is an `initialize`, Arrive to FinishCall any other request. `insert`
is one critical section here. In the code the scan for the least recently used
session runs under the sessions lock but reads each session's `last_seen` and
count, which a finishing request changes without that lock: the choice between
idle sessions may be off by a request that ends during the scan.

### StdioTransport

One connection: the reader loop (`reader`), the writer task (`writer`, `outbox`,
`written`), one task per line (`task`), the registry (`entries`), the pending table
(`pending`, `open`), tokens (`fired`, `closed`), and the jobs a finished call may
leave behind. A line is a tool call, a `logging/setLevel`, or malformed; a
`notifications/cancelled` and the client's answers are lines too. A call asks
its client at most once, and a job sends one notification: more of the same
adds no interleaving. A job may ask the client too, through a channel it kept; here
the jobs only send notifications. A tool may panic (Panic): its task ends, the join's
error is logged, and no response is written. That is a build that unwinds; the release
profile of `Cargo.toml` aborts the process instead. `initialize` is not a request
kind: dispatch does not register it for cancellation.

### ErrorDispatcher

The layer (OnEvent, DropLayer) and `Dispatcher::run` with `dispatch_batch`. The
clock is unbounded: instants are kept as ages that stop growing at the largest
window. The Slack post is awaited between SendDigest and Bookkeep and may take any
time, as the client has no time-out. Then the e-mail is handed to its client and the
batch is noted under the instant read before the post: in `Bookkeep` the e-mail
(`mails`) goes out now and its digest is booked as old as the post was long. Both clients
are taken to be configured. `recent_sends` is only pruned, counted and appended to, so
`recentSends` keeps its instants under the numbers of their digests and not in the
places of the Vec.

So the rate limit bounds two things differently. WithinRateLimit says of Slack that at
most max_messages_per_minute posts start in a minute, and of e-mail that at most one more
is handed over: one that waited for a long post lands within a minute of those of the
digests after it, which the limit judged by the earlier instant. Two e-mails in one
minute under a limit of one do happen in digest_serve.

### KeySet

`GoogleKeySet`: Ask is the first look into memory, Recheck the second one under the
fetch lock, Serve and Finish the download, Store and StoreFailure what is kept of it.
`turn` is the fair tokio Mutex: its holder and the queue behind it. `published` is
what Google serves at the moment; `moved` remembers which keys changed since the
cached set was served. Ages as above.

### RequestGuard and HttpCall

`RequestGuard` is `guard_requests`: `at` is where a request is (in its handler, in the
body of a streamed answer, over), `open` whether its `InFlight` exists and is not
finished, `lines` what the log says of it. The handler is the environment.

`HttpCall` extends it with what happens inside: `serve_request`, `answer_call`,
`CallStream`, dispatch with its cancellation select, the client channel and the
registries. `stage` is the phase of the answer, `tool` the dispatch future, which
makes progress only when it is polled (`Polled`); `outbox` is the call's channel,
`sent` what `drain` or the first `recv` took off it, `wire` what the client got;
`registered`, `pending` and `busy` are the cancellation registry, the table of
questions and the session's count. Every action that ends or answers a request is,
in the same step, an action of `RequestGuard`; that this holds of all of them is
proved. Clients differ by session, credential and identity (`CallerKey`), and each may
send cancellations and answers for any id at any moment.

A session here ends by DELETE only; expiry and eviction spare sessions in use, which
is `SessionStore`'s subject. A call asks at most `asks` questions and sends `notes`
messages.

### HttpGate, Dispatch, CallerAuth, ServerBuild, Redaction

Decisions without state, as operators; each module extends the one before it, Redaction
stands alone. `HttpGate` has the gates of POST and DELETE in the order the code makes
them (`FirstRefusal`), with the weights of Accept, Origin and Host, protocol version,
and the header mirrors; and the era detection dispatch makes from the same request.
`Dispatch` reads a message, routes it in its era, lists and calls tools through the
registry's gate and the validators, and says what a client may be asked and sent.
`CallerAuth` has the shared key in its two readings (middleware and hook), caller tokens
and Google tokens, and the challenge with the document it leads to. `ServerBuild` has
the builders as functions on a configuration, and what the built server advertises.
`Redaction` masks registered secrets and cuts captured payloads.

A header is the sequence of its field lines; a token is the record of its claims; a
tool's schema is the verdict its validator gives; revisions are dates as numbers. An
error is its code's name.

### ToolListing

A client's walk over pages of a list that changes between two requests. Names are
numbers in their order; a cursor is the name it encodes. Names are distinct: the
registry is keyed by them. A custom dispatcher that lists one name twice may have
the second one skipped at a page's edge.

### TokenSource and ServiceClient

`TokenSource` is `IdTokenSource`: the fast read, the fetch outside the lock, and the
store with its second look. Tokens are numbered in the order of minting. `ServiceClient`
extends it with the calls: token, request id, the request, the one re-send of a GET
whose connection closed, and what the answer is taken for. `took` counts what the
service took up, answered or not.

### GuardedFetch

One fetch, under each policy: `Validate` of the URL, the resolver's verdict on the
addresses of the moment (`Rebind` changes them at any time), redirects validated again,
body chunks against the cap, and the two deadlines. The IPv4 deny list is computed
with masks on octets, as in `deny.rs`, and compared with ranges written as bounds; an
IPv6 address is only denied or not.

### NotifyLayer and Senders

`NotifyLayer` is `on_event` in its steps, each behind its own lock: rule, sampling, dedup,
then a batch line or a post; the flusher; reloads of rules. "Posted" is handed to the
Slack client: `post_message` spawns the request and only warns when it fails, and a
poisoned lock of the buffers would drop a line, so an alert can be lost after its
stamp, and its repeats are suppressed with it until the window is over. No property
claims otherwise. Slack is taken to be configured; without it the layer does nothing
but capture. `Senders` has the four
clients, each message with its attempts and waits (`backoff` is the capture's next one,
doubled as it is used); the service may take a request and lose the answer.

### Outbound

The four parts that send something out, in one module: their constants, their variables
where two parts use one name, what is assumed of the constants, and what each part
promises as one property. `MCBoundary` runs the parts, `OutboundProofs` proves the
promises; both extend `Outbound`, so that they are about the same definitions.

### Decisions

What HttpGate, Dispatch, CallerAuth and ServerBuild promise, each promise stated of one
input: a server and a message, a registry and a request, a setting. `MCDecisions` draws
inputs from bounded sets, `InwardProofs` proves most promises of every input; both extend
`Decisions`.

### The proofs

`TaskManagerProofs`, `SessionStoreProofs`, `StdioTransportProofs`,
`ErrorDispatcherProofs`, `KeySetProofs` and `HttpCallProofs` (with RequestGuard) each
extend the module in their name. `OutboundProofs` extends Outbound and so reaches the four
parts it instantiates; `InwardProofs` extends ToolListing and Decisions. See Proofs.

## Runs

| Run | Instance | Shows |
|---|---|---|
| task_cluster | 2 owners, 2 instances, bus, fallible store, 1 task, 2 calls, 2 requests for input | types, cancellation recorded before it is signalled, answers match requests, detached input settles the task, a stranger reads the task as absent or meets the store's failure, TaskLifecycle is implemented |
| task_single | 1 instance, 2 calls, 2 requests, unawaited ones too | a waiting operation wakes (liveness) |
| task_sweep | 2 tasks with a TTL, 1 fallible store | a stop reaches its operation (liveness) |
| session_limits | 4 sessions of 3 callers, 2 threads, room for two sessions and for one of each caller, TTL of 2 in a clock of 0..2 | limits and what a refusal costs, sessions end only for cause and never under a request unless by DELETE, token and map agree |
| stdio_serve | a tool call, a setLevel and a malformed line that share an id | registry and pending table hold exactly what is served, every read answered before the return unless cancelled or its tool panicked, silence after it; the transport returns, and closing stdin ends every wait without the drain's bound (liveness) |
| digest_serve | 4 events of 2 keys, one digest a minute | rate limit of posts and, one above it, of e-mails; dedup that is exact both ways; every event gets its fate (liveness) |
| keyset_fetch | 2 lookups that may be dropped, 2 keys, an interval shorter and one longer than the set's life | spacing of fetches, meaning of each answer; no lookup is left waiting (liveness) |
| http_calls | one streamed call of a client with a session (a message and a question), one JSON call of an anonymous client with the same id, five clients around them, a one-shot route | what the client is told and in which order (ToldInOrder), nothing left in the registries, no client reaches another's call, one log line, one report to the observer; cancelled calls, questions and answers end (liveness) |
| boundary | see below | the decisions, each over its inputs; pagination; service calls, fetches, alerts and senders; everything sent out ends unless a request hangs (liveness) |
| task_stale_answer, stdio_level, digest_flush | the smallest instance | a statement of the documentation that the code does not keep |

The parts of `boundary` share no state, so a behaviour runs one of them (`part`):

* decisions (`MCDecisions`, and in `MCBoundary` those of the outward parts): a step draws
  one input of one decision from a bounded set, and the properties compare what the code
  decides with a reference definition or relate two decisions about it. Each is a
  conjunction of named parts, all of which are stated and commented in `Decisions`,
  `MCDecisions` or `MCBoundary`. RequestsReadOneWay: the fold over Accept gives the
  weights of RFC 9110, a mirror that passes names the call dispatch makes, transport
  and dispatch take a request for the same era but where `_meta` names a legacy revision,
  and what a client meets after its handshake follows from what was agreed.
  ServedAsAdvertised: what is advertised or listed is served, what is hidden, removed or
  undeclared is not, whatever the order of the builders. CallersToldApart: only what was verified identifies a caller, an outage
  of the key server is no refusal, a challenge leads to the document about the origin
  the client dialed. OutwardAsWritten: masked text holds no secret, a captured payload fits
  its limit, no identity token goes out in clear, the deny list's masks are the reserved
  ranges, an allowlist's prefix is never left, an alert shows the innermost value of a
  field, and the client names what a service's guard refused. Up to three Accept lines,
  two header lines, two hosts with and without ports, all combinations of the small
  flags: each case of the code is met, and each pair.
* the walk (PagesSeeAll): 4 names in pages of 2, every change of the list between two pages.
* service calls (CallsAreSound, CacheNeverGoesBack): a GET and a POST sharing a token that
  lives 3 ticks and is refreshed after 2, 3 mints, answers of the metadata server delayed
  by up to 1.
* fetches (FetchStaysInside): 4 URLs (one an address), 3 policies, names that resolve to
  a public and a denied address, 2 redirects, a body cap of 2, deadlines of 2 and 3.
* alerts (AlertsHandedOnce): 2 threads, 3 events of one key, a rule that batches and one
  that samples, reloaded at any time, windows of 2.
* senders (SentOnce): one message of each kind, 3 attempts.

EverythingEnds is the liveness of all of them, under the premise that no request hangs.

Why the bounds are enough. Races here are between two parties, so two calls, two
threads, two lookups and two instances show them; a third party repeats one of the
two. Two requests for input are needed for an answer to meet the wrong one. Two
tasks are needed for one sweep to forget the second. In session_limits one caller has
two sessions and room for one, and two others have a session each: with room for two in
all, either limit is met while the other is not, and both at once, so that the order in
which `insert` makes room matters; the clock reaches the TTL while a request holds an
older reading.
The rate limit and the windows of digest_serve differ (a minute of 2, dedup of
3), so that neither hides behind the other. In keyset_fetch one interval asked
for exceeds the life of a set, so the cut in `with_min_refetch_interval` matters.
Bounds on counters are the constants MaxAsks, MaxTime, MaxMints and MaxEmits, and the
request sets.
Where a system may stop (a transport that returned), the run does not check for
deadlock; the others do.

Symmetry is used only in runs without liveness: the calls of task_cluster, and the
requests, the two sessions of one caller and the two other callers with theirs of
session_limits. That run also has a view: states that differ only in the `last_seen` of
a session which nothing will read again are one.

## Fairness

Only what the runtime guarantees is assumed: a future that was woken is polled
again. Clients, hosts, tools and the bus owe nothing.

* TaskManager: calls run on, waiting operations wake, `create` and drops run
  through, the sweep loop ticks (`ensure_sweeper` spawns it for good). FairSpecTtl
  adds that a TTL elapses: `TaskOptions::default` sets one.
* StdioTransport: the loop, the writer and the request tasks are polled. The drain's
  time-out is a premise of ReturnsInTheEnd alone, so that NoCallWaitsAfterClose cannot
  lean on it. The wait for the writer at the end has no time-out, so both assume that
  the client reads stdout or closes it.
  No tool ever has to finish.
* ErrorDispatcher: the clock runs and the task is polled. Nothing makes a Slack
  post return, hence the premise of EveryEventHasItsFate that no post hangs.
* HttpCall: the answer's steps are taken and a question's timer fires (`FairSpec`). That
  the body is read is part of it: a client that stops reading without closing its
  connection holds its call, and only that call, for as long as it likes. No
  tool returns by itself and no client answers; a cancelled call still ends.
* MCBoundary: calls, threads and senders are scheduled, and a fetch's deadlines, which are
  its own, come (`Progress`). Time passes for the alerts, and the flusher's ticker fires.
  That a request ends (`RequestEnds`) is a premise of EverythingEnds: `SlackClient` and
  `EmailClient` use `Client::new()`, which has no time-out, and the HTTP clients of
  `ServiceClient` and `ResendClient` are the host's. Nothing else is fair: names need not
  be rebound, rules not reloaded, a server may trickle for ever.
* KeySet: lookups are polled and the lock is handed on in order. That downloads
  end is a premise of LookupsAnswered, since the HTTP client is the host's.

## Findings

* task_stale_answer. `TaskRun::request_input` documents that it "waits for the
  `tasks/update` that answers every one of them, by which point the task is `working`
  again". It takes the oldest message of the channel, whichever request that
  answered. If an earlier request was left unawaited, the later one returns its
  answer at once, while the task is input_required.
* stdio_level. "what the client declares in `initialize` and sets with
  `logging/setLevel` holds for every later request on it". Each line is served on
  its own task, so a later call may be served first.
* digest_flush. "When the layer is dropped, the channel closes and the dispatcher
  flushes remaining events before exiting." When the channel closes inside a batch
  window, the batch is lost (`Ok(None) => return`).

More, met while modelling and not held against the code by a run:

* A sweep between the store write and the table insert of `TaskManager::create` finds
  no run to stop, and no later sweep looks again, although "the operation still
  running it is cancelled too"; it takes a TTL as short as that gap, or a host store
  that is slow to return. StopReachesOperation leaves the case out.
* A key lookup dropped during its download records no attempt, so the next one
  fetches at once, although "no fetch starts within `MIN_REFETCH_INTERVAL` of the end of
  the previous one". FetchesSpaced leaves the case out.
* `initialize` echoes the modern revision when asked for it, though the later requests
  of such a client are refused unless they carry `_meta`; and it falls back to
  2025-11-25 also on a server configured without it, whose gate then refuses that
  revision. HandshakeHolds says both.
* A `_meta` that names a legacy revision is served by `process_modern`, while the
  transport has taken the request for a legacy one. EraIsOneEra says so, and that it
  is the only such case.
* An e-mail digest goes out after the Slack post and counts for the rate limit from
  before it: see ErrorDispatcher above.
* A task manager on a server without the modern revision is advertised by
  `server/discover`, though `tasks/*` are served in the modern era only.
* `encode_header_value` leaves a value that already looks encoded as it is.
* Comments of `mcp/server.rs` give -32004 as the code of an unsupported version; the
  code is -32022.
* Repeats do not extend a dedup window, which `notify/rule.rs` calls sliding.
* The flusher's comment promises one Slack message per event and channel; buffers are
  keyed by event, so after a reload a batch goes to the channel it was opened for.
* With several X-Forwarded-Host lines the last one names the host the client dialed,
  within a line the first entry.
* A cancelled call is reported to the observer as an accepted notification, which is
  how CancelledIsSilent reads it.

## Proofs

`TaskManagerProofs` proves, for all sets of tasks, owners, instances, calls and keys
and all values of the switches, from `TaskManagerAssumption` (OwnerOf and RunsAt
are functions on Task, the switches are Booleans, MaxAsks a natural number):

* `TypeCorrect`: TypeOK, the types and that a task has an operation only if the store took
  it. The types (`Types`) are inductive as they stand, the rest needs StopInv below.
* `TokenSafety`: TokenFollowsRecord, an operation is told to stop only once its
  task is recorded cancelled or swept. Alone it is not inductive: a signal on the
  bus, in a call or in a sweep's queue fires the token later, so the invariant has
  to say of each of these that the record was written before it left. `StopInv` is
  AbsentUntilCreated (a task whose operation has not started is not stored),
  SignalsFollowRecord (every cancellation under way, on the bus, in a call or in a
  sweep, is of a cancelled or swept task) and TokenFollowsRecord. It is preserved
  because cancelled is terminal, swept is final, and only those two are ever signalled.
* `Refinement`: Spec implies TaskLifecycle's Spec under View. Each step is a step of
  the lifecycle or leaves its variables alone; StopInv is what makes a fired token a
  Stop step.
* `OwnerIsolation`: ForeignReadsAbsent. A call of a stranger starts as done, with NotFound
  or with the failure of the store that was asked, and no step changes a call that is
  done but its end; a stranger's call never reaches the table of runs.
* `DetachedSafety`: DetachedIsSettled. `DetachedInv` adds that no call has taken the input
  before UpdateTake, so that only the path through UpdateFail reports Detached with it,
  and that what is settled stays so until it is swept.
* `AnswersMatch`: AnswerMatchesRequest, where requests for input are awaited
  (`~UnawaitedAsks`; with them it is false, see Findings). An answer on its way is in one
  of three places: a call that took the input, the bus, the channel. `AnswerInv` says
  that for each task there is at most one in all three together, that it answers the
  requests last made, and that there is none while the task is input_required or its
  operation could ask again.

`SessionStoreProofs`, for any callers, limits, TTL and finite sets of sessions and requests
(`SessionAssumption`; a store's map and its requests in progress are finite):

* `StoreAndTokensAgree`: ForgottenIsEnded, with the types; `LimitsAreKept`: WithinLimits;
  `SessionsEndForCause`: EndsOnlyForCause. All three follow from `SessionInv`. What it adds
  is `Fits` (what a request's record says of its session: a handshake's is minted and
  neither live nor ended, any other's has been live, and whoever is about to end one owns
  it), `OneHandshake` (no two handshakes mint the same session, without which the second
  insert could bring an ended one back) and `CountsServed`: the count that spares a session
  from expiry and eviction is the number of requests being served in it. The
  limits need the cardinality of the map before and after an insert with its
  evictions.

`StdioTransportProofs`, for any requests and ids: `HeldExactlyWhileServed`, HeldWhileServed;
`EveryReadIsAnswered`, ReadIsAnswered, of a connection that drained in time and whose stdout
worked: every request read from it has its answer, but one that was cancelled and one
whose tool panicked; `ReturnIsFinal`, NothingAfterReturn. `StdioInv` adds to
what is held `InStep`, how far the reader, the writer and the connection's cancellation can
be apart (the writer is told to stop only when every task has ended, and is done only
with an empty channel), and `NoneLost`: while stdout works, the response of every request
served to its end is on stdout or in the channel. That a response in the channel gets
written before the return is where the two meet.

`ErrorDispatcherProofs`, for any events, keys, windows and rate (`DispatcherAssumption`):

* `RateLimitHolds`: WithinRateLimit, of Slack posts within the limit and of e-mails within
  one more. The limit is checked before a post of any length and
  counted after it, so the invariant has to carry it across: `Counted` says that
  recent_sends has every digest of the last minute but the one being posted, with its age,
  and is shorter than the limit during a post. `Mailed` says that an e-mail leaves before
  the post of the digest after it starts, so that of the e-mails of a minute all but the
  first belong to digests posted in that minute.
* `DedupHolds`: DedupIsExact. `Remembered` says that last_notified is the age of the last
  digest with the key, again but for the one being posted; `Pending` that this one is the
  last and that no digest is younger than the instant read before its post.

`KeySetProofs`, for any keys, any number of lookups and any set of intervals that has a
largest one (`KeySetAssumption`; the largest is where ages stop, and a run has one interval
anyway):

* `KeySetTypes`: TypeOK. It is not inductive alone: that the lock's queue is not empty when
  a fetch ends needs `OneFetch`, whoever downloads is at its head.
* `FetchesAreSpaced`: FetchesSpaced, one fetch at a time and none within the interval of the
  end of the last one that was not dropped (a dropped one leaves nothing to space by), from `OneFetch` and from `Noted` (last_attempt is the end
  of the last fetch that was not dropped).
* `AnswersReflectTheSet`: AnswerReflectsSet. `UpToRotation` says that the set in memory while
  it is used, and the one being downloaded, differ from what Google publishes by no more
  than Google changed since it served them. That Unavailable is never said of a set that
  merely grew old is arithmetic on the ages: the interval is cut to the set's life, so a
  set that is too old while the interval runs was not fetched by the last attempt.

`HttpCallProofs`, first of RequestGuard alone, for any set of requests (`TimedAssumption`:
the timed ones are among them): `OneLinePerRequest`, OneLine. It is not inductive: that a
second line is never written rests on the InFlight being finished with the first one.
`Holder` says where it is: with the handler, then with the body or with nobody, and
unfinished exactly as long as nothing was logged. Then of HttpCall, for any clients and
calls (`CallsAssumption`: the requests are the calls and the one-shot routes, no request is
both, a call's client is one of the clients, and no response is the absent one):

* `ImplementsGuard`: HttpCall's Spec implies GuardSpec, one step per action; and
  `OneLinePerCall`, OneLine for the composed system.
* `NothingIsLeftBehind`: HeldWhileServed, about the table of questions, the registry and
  the session. `HeldInv` adds that a live dispatch has its answer still to come (stage first or
  running), without which the end of an answer could leave a registration behind,
  and that a request not yet arrived has no stage, without which an arrival could reset
  one; the latter needs the guard's invariant, hence the refinement.
* `EveryCallIsObservedOnce`: ObservedOnce. `ObservedInv` ties the dispatch to the phase of the
  answer: it is live exactly while the answer is still to come.
* `CallsAreTheirClients`: OnlyItsClient, where a key that tells callers apart is one
  client's: a session id is not shared between clients, nor a credential together with a
  principal. This is the theorem's hypothesis and what `CallerKey::http` relies on; the
  five clients of http_calls satisfy it. `CallerInv` is what holds without it: whoever
  reached a call presented the call's own key, and one that tells callers apart.
* `ClientsAreToldInOrder`: ToldInOrder. `CarriedInv` says where everything said is: on the
  wire, taken off the channel or still on it, in that order, until the answer is
  complete; then comes the response or nothing. `ToldInv` adds that a cancelled call
  drains without a response, and that every question is settled but the last one while
  the tool waits for it. It stands on the three invariants before it.

These invariants were checked by TLC on the instances of the runs before they were proved.

`InwardProofs`, of what the process takes in. First the walk, for any finite set of names
and any page size (`ListingAssumption`): `EveryWalkIsComplete`, PagesSeeAll. `Divided` is
the invariant: the cursor divides the names into those never served and, before it, those served if they
were listed throughout. That a full page keeps it needs `PageIsPrefix`, by cardinality:
a name left out of a page comes after every name on it.

Then the decisions, of which the run has samples and the theorems every input. The markers
for an absent, unreadable or repeated value are told apart from each other, from numbers
and from error codes (`MarkersAssumption` of HttpGate); the level names are what RFC 5424
lists (`LevelsAssumption` of Decisions). TLC evaluates both on the boundary run.

* `CallersAreToldApart`: CallersToldApart, the whole property, for any token, key, document and
  host. A setting has the four variables that are read (`Setting`), and what is dialed is
  one of the documents' hosts or none, directly or through a proxy with an authority of its
  own (`Dialing`); TLC evaluates that every input of the run is such
  (`SettingsAssumption`, `DialingsAssumption`). The argument for a challenge: whatever header
  names the host, `ForHost` finds the document of that host or the first, and the link made
  of it is routed back to the same document.
* `LoopbackServersAreClosed`: LoopbackIsClosed, for any lines of Host, `:authority` and Origin.
* `ErasAreOne` and `MirrorsAreTrue`: EraIsOneEra and MirrorsTellTheCall, for any header
  lines, bodies, schemas and arguments. The first includes the one case in which the eras
  differ. Both rest on `VersionRead`: past the gates
  there is one readable version header or none, and none only where the body does not ask
  for the modern era.
* `HandshakesHold`: HandshakeHolds, for any set of revisions a server supports, with or
  without the fallback, and any readable revision asked for.
* `OnlyNotificationsAreSilent`: SilenceNeedsNoId, for any message.
* `ErasAreServedApart`: TasksOnlyDeclared and RemovedNeverServed, for any server, request and
  outcome of a host's dispatcher.
* `HiddenToolsDoNotRun`: HiddenIsRefused, for any registry and caller.
* `ClientsGetWhatTheyAsked`: OnlyAskedIsSent, for any channel of one of the three eras.
* `AdvertisedMethodsAreServed`: AdvertisedIsServed, for any server of the modern revision
  whose host neither handles the two methods itself nor advertises the tasks extension
  by hand; the code leaves both to the host.
* `SchemasAreReadBack`: SchemaRoundTrip, for each kind with any members but the ones that
  tell the kinds apart.
* `BuildersAreInAnyOrder`: BuildersCommute, for any server under construction and any two
  builders. It is the step of BuildOrderIsFree, which is about whole sequences of calls.

`OutboundProofs`, of what the process sends out, from the four assumptions of `Outbound`. For
any calls, GETs and number of tokens, under `TokenAssumption` (the metadata server answers
before a cached token is due for its refresh, and a token outlives its time in the cache
and on the way there; the comments on TokenSource's constants say so):

* `CacheGoesForward`: CacheNeverGoesBack. A fetched token that is older than the cached one
  must not find the cache stale. `OnItsWay` says why it does not: the later token was stored
  while the former was on its way, which takes at most MaxDelay, less than RefreshAfter.
* `CallsAreSoundAlways`: CallsAreSound, which is OnlyReadsRepeat, IdsTellAttemptsApart and
  TokenIsAlive, with the types. `Attempts` counts a call's
  requests by its state, `LastId` gives it the id of the last, `CachedInTime` bounds the age of
  what the cache hands out.

For any URLs, policies, answers of the resolver, deny list and limits, where the absent
refusal is not one of the refusals (`LimitsAssumption`):

* `FetchIsGuarded`: FetchStaysInside, which is DialsOnlyPublic, EveryHopIsAdmitted and
  BodyWithinCap, with the types. What `FetchInv` adds is that whatever is connected to has
  been asked for, and so judged, under the policy.
* `DenyListIsTheRanges`: DeniedAsReserved for every IPv4 address, where the run has the octets
  next to each limit. Octet by octet, a mask is a division by a power of two, and the
  quotients are compared as ranges.
* `AllowlistsAreAsWritten`: TakenAsWritten for every list of entries and every path.

For any threads, events, keys, rules, windows and stalls, where a rule's switches are
Booleans and what stands for no rule is neither a rule nor a buffer (`RulesAssumption`):

* `AlertsAreHandedOnce`: AlertsHandedOnce, which is PostedOnce and RepeatHasOriginal with the
  types. PostedOnce counts the places an event is in, and alone it is not inductive: two
  threads with one event, an event in the buffers of two names, or a thread before the
  dedup whose event is already to be sent would all break it in the next step. `AlertInv`
  excludes them. `Hands` says that a busy thread's event is its own and is to be sent
  exactly when the thread is past the dedup; `Place` that an event to be sent, and no other,
  is in a hand, in one buffer or posted; `Instants` that the dedup map holds the instant of
  an event that is sent, or one so old that no stalled thread finds it within the window.
  The last is why a clock read before the lock does no harm: the age at which an instant
  is forgotten is the window and the longest stall together.

For any messages of one kind each and any retry limits, a capture being sent at least once
(`SendersAssumption`):

* `MessagesAreSentOnce`: SentOnce, which is CountedOnce, SendsBounded and SharedIsUploaded with
  the types. `SenderInv` has one part per kind: a mail that is still to be sent was not
  taken, which holds because only a 429 is retried, and each retry cost one wait of at
  most 5 s; a Slack message is never sent again; a capture has its uuid from its first
  request on; an upload at its third step has had its bytes taken.

AlertInv was checked by TLC on the instance of the boundary run before it was proved.

Only model-checked: all liveness (fairness is beyond the prover); of RequestsReadOneWay
the weights of Accept (AcceptFollowsRFC); of ServedAsAdvertised the registry
(RegistryListsSound) and sequences of builders (BuildOrderIsFree); and of
OutwardAsWritten all but the two theorems above. These are compared with their references
over bounded inputs: they fold over header lines, registrations, builder calls, paths or
texts, so that a proof would be by induction over data.

## Plan

What is left, in order of importance.

1. HttpCall composed with SessionStore: expiry and eviction while calls run.
2. The token shapes of `secrets.rs` and secrets that overlap without one containing
   the other.

## Not modelled

* The wire types of `mcp/schema.rs` and the serde derivations of `protocol.rs`: data
  declarations, whose correctness is in their text. Where reading a message decides
  something (absent against null, untagged variants) it is in Dispatch.
* JSON Schema validation itself, URL and header syntax, Base64, HMAC signatures: work
  of libraries, or conversions no property here is about.
* The IPv6 table of the deny list; the layout and wording of digests, alerts, mails and
  log lines; Slack's request signatures; configuration of the senders.
* The token shapes masked without being registered, and a secret that occurs in the
  mask's own text. Registered values are taken as trimmed.
* OpenTelemetry export, start-up, command line, health answers, the computations and the
  test kit: I/O or single calls without shared state.

The components and the reasons are listed in `PROJECT.json`.
