---------------------------- MODULE ServerBuild ----------------------------
(***************************************************************************)
(* How a host puts an `McpServer` together (`new` and the `with_*` of      *)
(* `server.rs`), and what the server then says of itself.  A builder call  *)
(* is [with, value]: the field it sets and what to.                        *)
(***************************************************************************)
EXTENDS CallerAuth

DefaultLimits == [total |-> 10000, per_caller |-> 1000]

\* `McpServer::new`.
NewServer ==
    [versions |-> {Current, Modern}, capabilities |-> {"tools"}, hook |-> FALSE,
     origins |-> [any |-> FALSE, list |-> {}], hosts |-> None, page_size |-> 0,
     metadata |-> None, dispatcher |-> None, handler |-> {}, manager |-> FALSE,
     observer |-> FALSE, capture |-> {}, question_timeout |-> 60,
     limits |-> DefaultLimits, store |-> None]

\* The store is made with the limits set so far.
WithHttpSessions(server, ttl) ==
    [server EXCEPT !.store = [ttl |-> ttl, limits |-> server.limits]]

\* A store that was made already is made again.
WithHttpSessionLimits(server, limits) ==
    [server EXCEPT !.limits = limits,
                   !.store = IF @ = None THEN None ELSE [@ EXCEPT !.limits = limits]]

\* Every other builder sets one field.
With(server, builder) ==
    CASE builder.with = "store"  -> WithHttpSessions(server, builder.value)
      [] builder.with = "limits" -> WithHttpSessionLimits(server, builder.value)
      [] OTHER -> [server EXCEPT ![builder.with] = builder.value]

Build(builders) == FoldLeft(With, NewServer, builders)

\* `advertised_capabilities`: the tasks extension comes with a manager.
AdvertisedCapabilities(server) ==
    server.capabilities \cup (IF server.manager THEN {"extension:tasks"} ELSE {})

\* The server as its dispatch and its gates read it.
Running(server, tools) ==
    [versions |-> server.versions, handler |-> server.handler, manager |-> server.manager,
     dispatcher |-> server.dispatcher, tools |-> tools, resolves |-> DOMAIN tools,
     logging |-> "logging" \in server.capabilities]
=============================================================================
