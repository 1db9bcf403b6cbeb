------------------------------ MODULE Dispatch ------------------------------
(***************************************************************************)
(* What an `McpServer` answers a message: reading it (`protocol.rs`), the  *)
(* era it is served in, the method it names (`server.rs`), the tool it     *)
(* calls (`tool.rs`, `validation.rs`), and the questions and log messages  *)
(* a call may send its client (`client_channel.rs`, `logging.rs`).         *)
(*                                                                         *)
(* A response is the name of its error code with no result, or no error    *)
(* with the kind of result: these are what a client tells apart.           *)
(***************************************************************************)
EXTENDS HttpGate

Error(code)  == [error |-> code, result |-> None]
Result(kind) == [error |-> None, result |-> kind]
-----------------------------------------------------------------------------
(* Reading a message. `id` is what the member holds ("absent" when there   *)
(* is none); result and error say whether the member is there, ok whether  *)
(* the remaining members have their types.                                 *)

IsRequestId(id) == id \in {"string", "integer"}

ParseResponse(m) ==
    IF /\ m.id = "null" \/ IsRequestId(m.id)
       /\ m.result # m.error
       /\ m.jsonrpc # None /\ m.ok
    THEN "response" ELSE "invalid_request"

Parse(m) ==
    IF ~m.json THEN "parse_error"
    ELSE IF ~m.object THEN "invalid_request"
    ELSE IF m.method = None THEN ParseResponse(m)
    ELSE IF m.id # "absent" /\ ~IsRequestId(m.id) THEN "invalid_request"
    ELSE IF m.jsonrpc = None \/ ~m.ok THEN "invalid_request"
    ELSE IF m.id = "absent" THEN "notification" ELSE "request"

\* `JsonRpcRequest::parse`, for a reader with no request outstanding.
ParseRequest(m) == IF Parse(m) = "response" THEN "invalid_request" ELSE Parse(m)
-----------------------------------------------------------------------------
(* Tools. A schema is what its root, its properties and its required list  *)
(* look like; a tool is its flags, scopes, schemas and what it answers.    *)

OutputSchemaDefect(schema) ==
    \/ schema.type # "object"
    \/ schema.properties \notin {"absent", "objects"}
    \/ schema.required \notin {"absent", "names"}

\* `insert`: a tool with a defective output schema leaves the registry as it was.
Insert(registry, name, tool) ==
    IF tool.output # None /\ OutputSchemaDefect(tool.output) THEN registry
    ELSE [n \in DOMAIN registry \cup {name} |-> IF n = name THEN tool ELSE registry[n]]

\* `register_with_category`: the names recorded under a category.
Categorise(names, registry, name, tool) ==
    IF tool.output # None /\ OutputSchemaDefect(tool.output) THEN names
    ELSE Append(names, name)

\* `compile`: a schema that is no JSON Schema, or points outside itself.
Compiles(tool) == tool.input_usable /\ (tool.output # None => tool.output_usable)

CheckResult(tool, answer) ==
    tool.output = None \/ answer.is_error \/ answer.structured = "conforms"

Named(id) == id \notin {None, Empty}

\* Mutant: an admin tool is only left out of the list.
RefusalUnlisted(tool, ctx) ==
    \/ tool.caps \cap {"REQUIRES_AUTH", "REQUIRES_TENANT"} # {} /\ ~Named(ctx.user_id)
    \/ "REQUIRES_TENANT" \in tool.caps /\ ~Named(ctx.tenant_id)
    \/ ~(tool.scopes \subseteq ctx.scopes)

\* Why `ctx` may not run a tool: the registry's one gate.
Refusal(tool, ctx) ==
    \/ "ADMIN_ONLY" \in tool.caps /\ ~ctx.is_admin
    \/ tool.caps \cap {"REQUIRES_AUTH", "REQUIRES_TENANT"} # {} /\ ~Named(ctx.user_id)
    \/ "REQUIRES_TENANT" \in tool.caps /\ ~Named(ctx.tenant_id)
    \/ ~(tool.scopes \subseteq ctx.scopes)

ListDefinitionsFor(registry, is_admin) ==
    {n \in DOMAIN registry : is_admin \/ "ADMIN_ONLY" \notin registry[n].caps}

\* `execute`: what comes back, and whether the tool itself ran.
Execute(registry, call, ctx) ==
    IF call.name \notin DOMAIN registry THEN [ran |-> FALSE, outcome |-> "unknown_tool"]
    ELSE LET tool == registry[call.name]
         IN  IF Refusal(tool, ctx) \/ ~Compiles(tool) \/ ~call.arguments_conform
             THEN [ran |-> FALSE, outcome |-> "tool_error"]
             ELSE [ran |-> TRUE,
                   outcome |-> IF ~CheckResult(tool, tool.answer) \/ tool.answer.is_error
                               THEN "tool_error" ELSE "tool_result"]
-----------------------------------------------------------------------------
(* Methods. A request is [method, meta, header, params, ...]: `params` is  *)
(* what its own parameters are worth ("ok", "missing" or "bad").           *)

RemovedMethods == {"initialize", "ping", "logging/setLevel",
                   "resources/subscribe", "resources/unsubscribe"}
TaskMethods    == {"tasks/get", "tasks/update", "tasks/cancel"}

\* A method the engine does not serve is the host's, who may decline it.
HandleUnknownMethod(srv, method) ==
    IF method \in srv.handler THEN Result("host") ELSE Error("method_not_found")

\* `task_id_param` and `inputResponses` first, then the manager's verdict.
HandleTaskMethod(r) ==
    IF r.params # "ok" THEN Error("invalid_params")
    ELSE CASE r.task \in {"not_found", "invalid_state", "invalid_input"} ->
                  Error("invalid_params")
           [] r.task \in {"detached", "store"} -> Error("internal_error")
           [] OTHER -> Result(IF r.method = "tasks/get" THEN "task_state" ELSE "task_ack")

HandleSetLevel(r, ctx) ==
    IF r.params # "ok" THEN Error("invalid_params")
    ELSE IF ~ctx.session THEN Error("invalid_request") ELSE Result("set_level")

\* The version `initialize` answers: the client's when advertised.
Negotiated(srv, requested) == IF requested \in srv.versions THEN requested ELSE Current

HandleToolsList(r) ==
    IF r.params = "bad" THEN Error("invalid_params") ELSE Result("tools")

\* What the outcome of a call is framed as.
AnswerCall(srv, outcome, modern, allow_tasks) ==
    CASE outcome = "unknown_tool" -> Error("invalid_params")
      [] outcome = "task" ->
             IF allow_tasks /\ srv.manager THEN Result("task") ELSE Error("internal_error")
      [] outcome = "input_required" ->
             IF modern THEN Result("input_required") ELSE Error("internal_error")
      [] OTHER -> Result(outcome)

\* The mirrors are held to the arguments when a transport forwarded headers, and
\* the name resolves to a schema (`input_schema_of`).
MirrorsRefused(srv, r, modern) ==
    /\ r.headers # None
    /\ modern \/ r.headers.carries_param
    /\ r.call.name \in srv.resolves
    /\ r.headers.mismatch

HandleToolsCall(srv, r, ctx, modern, allow_tasks) ==
    IF r.params # "ok" THEN Error("invalid_params")
    ELSE IF MirrorsRefused(srv, r, modern) THEN Error("header_mismatch")
    ELSE AnswerCall(srv,
                    IF srv.dispatcher # None THEN srv.dispatcher
                    ELSE Execute(srv.tools, r.call, ctx).outcome,
                    modern, allow_tasks)

ProcessLegacy(srv, r, ctx) ==
    CASE r.method = "initialize" -> Result("initialized")
      [] r.method = "logging/setLevel" /\ srv.logging -> HandleSetLevel(r, ctx)
      [] r.method = "tools/list" -> HandleToolsList(r)
      [] r.method = "tools/call" -> HandleToolsCall(srv, r, ctx, FALSE, FALSE)
      [] r.method = "server/discover" -> Result("discover")
      [] r.method = "ping" -> Result("empty")
      [] OTHER -> HandleUnknownMethod(srv, r.method)

ModernMethod(srv, r, ctx) ==
    CASE r.method \in RemovedMethods -> Error("method_not_found")
      [] r.method = "server/discover" -> Result("discover")
      [] r.method = "tools/list" -> HandleToolsList(r)
      [] r.method = "tools/call" -> HandleToolsCall(srv, r, ctx, TRUE, r.meta.tasks)
      [] r.method \in TaskMethods /\ srv.manager ->
             IF r.meta.tasks THEN HandleTaskMethod(r) ELSE Error("missing_capability")
      [] OTHER -> HandleUnknownMethod(srv, r.method)

ProcessModern(srv, r, ctx) ==
    IF r.meta.version \notin srv.versions THEN Error("unsupported_version")
    ELSE ModernMethod(srv, r, ctx)

\* A request with an id, once it is registered.
Route(srv, r, ctx) ==
    LET era == Detect(r.header, r.meta)
    IN  CASE era = "malformed" -> Error("invalid_params")
          [] era = "mismatch"  -> Error("header_mismatch")
          [] era = "modern"    -> ProcessModern(srv, r, ctx)
          [] era = "legacy"    -> ProcessLegacy(srv, r, ctx)

\* `dispatch`: a wrong `jsonrpc` is answered even on a notification.
Answer(srv, r, ctx) ==
    IF r.jsonrpc # "2.0" THEN Error("invalid_request")
    ELSE IF ~r.id THEN None ELSE Route(srv, r, ctx)
-----------------------------------------------------------------------------
(* The channel of a call to its client.                                    *)

Levels == <<"debug", "info", "notice", "warning",
            "error", "critical", "alert", "emergency">>

FromWire(name) ==
    IF \E i \in DOMAIN Levels : Levels[i] = name
    THEN CHOOSE i \in DOMAIN Levels : Levels[i] = name ELSE None

\* The least severe level the client of a call wants.
LogLevel(c) ==
    IF ~c.logging THEN None
    ELSE CASE c.era = "legacy" -> c.session_level
           [] c.era = "modern" -> c.meta_level
           [] OTHER -> None

WantsLog(c, level) ==
    c.reaches_client /\ LogLevel(c) # None /\ level >= LogLevel(c)

\* Why a tool's question is not sent, or None when it is.
QuestionRefused(c) ==
    IF ~c.connected \/ c.era = "unbound" THEN "no_connection"
    ELSE IF c.era = "modern" THEN "stateless_revision"
    ELSE IF ~c.declared THEN "capability_not_declared"
    ELSE IF ~c.reaches_client THEN "no_event_stream" ELSE None
-----------------------------------------------------------------------------
(* The shapes of an elicitation field, untagged on the wire: the members   *)
(* that make each, and the order reading tries them in.                    *)

SchemaOrder == <<"titled_single", "legacy_titled", "untitled_single", "titled_multi",
                 "untitled_multi", "string", "number", "boolean">>

SchemaType(kind) ==
    CASE kind \in {"titled_multi", "untitled_multi"} -> "array"
      [] kind = "number"  -> "number"
      [] kind = "boolean" -> "boolean"
      [] OTHER -> "string"

RequiredMembers(kind) ==
    CASE kind = "titled_single"   -> {"oneOf"}
      [] kind = "legacy_titled"   -> {"enum", "enumNames"}
      [] kind = "untitled_single" -> {"enum"}
      [] kind = "titled_multi"    -> {"items.anyOf"}
      [] kind = "untitled_multi"  -> {"items.enum"}
      [] OTHER -> {}

ReadSchema(type, members) ==
    LET fits == {i \in DOMAIN SchemaOrder : /\ SchemaType(SchemaOrder[i]) = type
                                            /\ RequiredMembers(SchemaOrder[i]) \subseteq members}
    IN  IF fits = {} THEN None ELSE SchemaOrder[Min(fits)]
=============================================================================
