---------------------------- MODULE SessionStore ----------------------------
(***************************************************************************)
(* The `initialize`-era HTTP sessions: Session, SessionUse and             *)
(* SessionStore of src/mcp/session.rs, driven by the requests of           *)
(* src/mcp/transport/http.rs that mint, enter, look up and end them.       *)
(*                                                                         *)
(* Each request runs on its own thread. It reads the clock once, before    *)
(* any lock; the sweep decision (the last_sweep lock), the sweep and the   *)
(* operation proper (the sessions lock, twice) are three critical          *)
(* sections, so `now` may be stale when it is used. A finishing request    *)
(* reads the clock first and writes last_seen after.                       *)
(***************************************************************************)
EXTENDS Integers, FiniteSets

CONSTANTS
    Sid,        \* session ids: random, so no two sessions that were live share one
    Caller,     \* caller identities (user and tenant)
    CallerOf,   \* the caller a session id is minted for
    Req,        \* requests that can be in progress at once
    Ttl,        \* idle time-to-live, in ticks
    Total,      \* SessionLimits::total
    PerCaller,  \* SessionLimits::per_caller
    MaxTime     \* bound on the clock

ASSUME SessionAssumption ==
    /\ IsFiniteSet(Sid)
    /\ IsFiniteSet(Req)
    /\ CallerOf \in [Sid -> Caller]
    /\ Ttl \in Nat
    /\ Total \in Nat \ {0}
    /\ PerCaller \in Nat \ {0}
    /\ MaxTime \in Nat

VARIABLES
    now,        \* the monotonic clock
    minted,     \* sessions that exist or have been live
    live,       \* the keys of the `sessions` map
    ended,      \* sessions whose cancellation token has fired
    seen,       \* last_seen
    active,     \* the count of requests being served in the session
    lastSweep,  \* last_sweep
    req         \* requests in progress

vars == <<now, minted, live, ended, seen, active, lastSweep, req>>

-----------------------------------------------------------------------------
Time == 0..MaxTime

Kind == {"init", "enter", "find", "delete"}

Pc == {"serving", "stamped", "sweep", "drop", "act", "end", "refused"}

NoReq == [pc |-> "idle"]

ReqRecord ==
    [pc : Pc, kind : Kind, sid : Sid, by : Caller,
     t : Time,            \* the clock reading the step at hand uses
     evicted : BOOLEAN]   \* history: an insert ended an unexpired session

At(r, pc) == req[r] # NoReq /\ req[r].pc = pc

Goto(r, pc) == req' = [req EXCEPT ![r].pc = pc]

\* The clock reading taken on arrival is not used again.
Proceed(r, pc) == req' = [req EXCEPT ![r].pc = pc, ![r].t = 0]

Leave(r) == req' = [req EXCEPT ![r] = NoReq]

\* Instant::saturating_duration_since.
Since(later, earlier) == IF later > earlier THEN later - earlier ELSE 0

\* Bug: the TTL is looked at and the requests in flight are not.
ExpiredBusy(s, t) == Since(t, seen[s]) >= Ttl

\* Session::is_expired, with is_idle.
Expired(s, t) == active[s] = 0 /\ Since(t, seen[s]) >= Ttl

Tick ==
    /\ now < MaxTime
    /\ now' = now + 1
    /\ UNCHANGED <<minted, live, ended, seen, active, lastSweep, req>>

-----------------------------------------------------------------------------
(* A request arrives.                                                      *)

\* `initialize`: a session is minted and counts its handshake busy; it is not
\* in the store yet.
Mint(r, s) ==
    /\ req[r] = NoReq
    /\ s \notin minted
    /\ minted' = minted \cup {s}
    /\ seen' = [seen EXCEPT ![s] = now]
    /\ active' = [active EXCEPT ![s] = 1]
    /\ req' = [req EXCEPT ![r] = [pc |-> "serving", kind |-> "init", sid |-> s,
                                  by |-> CallerOf[s], t |-> 0, evicted |-> FALSE]]
    /\ UNCHANGED <<now, live, ended, lastSweep>>

\* Any other request names a session: SessionStore::enter for a call, ::find
\* for a client's response and for DELETE. It reads the clock first. Clients
\* know the ids of sessions that went live.
Arrive(r, s, by, kind) ==
    /\ req[r] = NoReq
    /\ s \in live \cup ended
    /\ kind \in {"enter", "find", "delete"}
    /\ req' = [req EXCEPT ![r] = [pc |-> "sweep", kind |-> kind, sid |-> s,
                                  by |-> by, t |-> now, evicted |-> FALSE]]
    /\ UNCHANGED <<now, minted, live, ended, seen, active, lastSweep>>

-----------------------------------------------------------------------------
(* sweep_if_due, first in every store operation.                           *)

SweepCheck(r) ==
    /\ At(r, "sweep")
    /\ IF 2 * Since(req[r].t, lastSweep) < Ttl
       THEN Goto(r, "act") /\ UNCHANGED lastSweep
       ELSE Goto(r, "drop") /\ lastSweep' = req[r].t
    /\ UNCHANGED <<now, minted, live, ended, seen, active>>

\* drop_expired: end and forget every session idle for the TTL by t.
Stale(S, t) == {s \in S : Expired(s, t)}

Sweep(r) ==
    /\ At(r, "drop")
    /\ live' = live \ Stale(live, req[r].t)
    /\ ended' = ended \cup Stale(live, req[r].t)
    /\ Goto(r, "act")
    /\ UNCHANGED <<now, minted, seen, active, lastSweep>>

-----------------------------------------------------------------------------
(* The operations proper, each one critical section of the sessions lock.  *)

\* find and enter: an expired session is ended and forgotten on the way.
LookupExpired(r) ==
    /\ At(r, "act") /\ req[r].kind # "init"
    /\ req[r].sid \in live
    /\ Expired(req[r].sid, req[r].t)
    /\ live' = live \ {req[r].sid}
    /\ ended' = ended \cup {req[r].sid}
    /\ Leave(r)
    /\ UNCHANGED <<now, minted, seen, active, lastSweep>>

\* The caller gets a 404: no live session has that id, or it is another's.
LookupMisses(r) ==
    /\ At(r, "act") /\ req[r].kind # "init"
    /\ \/ req[r].sid \notin live
       \/ ~Expired(req[r].sid, req[r].t) /\ CallerOf[req[r].sid] # req[r].by
    /\ Leave(r)
    /\ UNCHANGED <<now, minted, live, ended, seen, active, lastSweep>>

Found(r, kind) ==
    /\ At(r, "act") /\ req[r].kind = kind
    /\ req[r].sid \in live
    /\ ~Expired(req[r].sid, req[r].t)
    /\ CallerOf[req[r].sid] = req[r].by

\* SessionStore::enter: looked up and counted busy in one step.
Enter(r) ==
    /\ Found(r, "enter")
    /\ active' = [active EXCEPT ![req[r].sid] = @ + 1]
    /\ Proceed(r, "serving")
    /\ UNCHANGED <<now, minted, live, ended, seen, lastSweep>>

\* accept_client_response: the session is only looked at.
FindForResponse(r) ==
    /\ Found(r, "find")
    /\ Leave(r)
    /\ UNCHANGED <<now, minted, live, ended, seen, active, lastSweep>>

\* handle_mcp_delete: find, then end, with the lock given up in between.
FindForDelete(r) ==
    /\ Found(r, "delete")
    /\ Proceed(r, "end")
    /\ UNCHANGED <<now, minted, live, ended, seen, active, lastSweep>>

\* Bug: DELETE forgets the session and leaves its token alone.
EndForgets(r) ==
    /\ At(r, "end")
    /\ live' = live \ {req[r].sid}
    /\ UNCHANGED ended
    /\ Leave(r)
    /\ UNCHANGED <<now, minted, seen, active, lastSweep>>

\* SessionStore::end.
End(r) ==
    /\ At(r, "end")
    /\ live' = live \ {req[r].sid}
    /\ ended' = IF req[r].sid \in live THEN ended \cup {req[r].sid} ELSE ended
    /\ Leave(r)
    /\ UNCHANGED <<now, minted, seen, active, lastSweep>>

-----------------------------------------------------------------------------
(* SessionStore::insert, for a session whose handshake succeeded.          *)

Theirs(s) == {u \in live : CallerOf[u] = CallerOf[s]}

Idle(S) == {u \in S : active[u] = 0}

LeastRecent(S) == {u \in Idle(S) : \A v \in Idle(S) : seen[u] <= seen[v]}

\* The sets of sessions that can give way for s: none while its caller is
\* below its limit, else one of its least recently used idle sessions (the
\* map's order decides between equals), else no choice at all (CallerFull).
GivesWay(s) ==
    IF Cardinality(Theirs(s)) < PerCaller THEN {{}} ELSE {{u} : u \in LeastRecent(Theirs(s))}

CallerFull(r) ==
    /\ At(r, "act") /\ req[r].kind = "init"
    /\ GivesWay(req[r].sid) = {}
    /\ Proceed(r, "refused")
    /\ UNCHANGED <<now, minted, live, ended, seen, active, lastSweep>>

\* Bug: a full store is not looked at.
NoTotal(S) == FALSE

Full(S) == Cardinality(S) >= Total

Insert(r) ==
    /\ At(r, "act") /\ req[r].kind = "init"
    /\ \E gone \in GivesWay(req[r].sid) :
         LET s == req[r].sid
             left == live \ gone
             stale == IF Full(left) THEN Stale(left, req[r].t) ELSE {}
             room == left \ stale
         IN /\ ended' = ended \cup gone \cup stale
            /\ IF Full(room)
               THEN /\ live' = room
                    /\ req' = [req EXCEPT ![r].pc = "refused", ![r].t = 0,
                                          ![r].evicted = (gone \ Stale(live, req[r].t) # {})]
               ELSE /\ live' = room \cup {s}
                    /\ Leave(r)
    /\ UNCHANGED <<now, minted, seen, active, lastSweep>>

\* The 503 went out.
Refused(r) ==
    /\ At(r, "refused")
    /\ minted' = minted \ {req[r].sid}
    /\ Leave(r)
    /\ UNCHANGED <<now, live, ended, seen, active, lastSweep>>

-----------------------------------------------------------------------------
(* SessionUse::drop: the right-hand side of the assignment to last_seen is *)
(* evaluated before its lock is taken.                                     *)

FinishStamp(r) ==
    /\ At(r, "serving")
    /\ req' = [req EXCEPT ![r].pc = "stamped", ![r].t = now]
    /\ UNCHANGED <<now, minted, live, ended, seen, active, lastSweep>>

\* The write of last_seen and the decrement are one step: last_seen is only
\* read of a session that is idle, which this one is not in between.
Release(r) ==
    /\ At(r, "stamped")
    /\ seen' = [seen EXCEPT ![req[r].sid] = req[r].t]
    /\ active' = [active EXCEPT ![req[r].sid] = @ - 1]

FinishCall(r) ==
    /\ Release(r)
    /\ req[r].kind # "init"
    /\ Leave(r)
    /\ UNCHANGED <<now, minted, live, ended, lastSweep>>

\* The handshake's guard is dropped, then its session inserted when the answer
\* was a success; insert reads the clock again. A session that never went live
\* is dropped, and its id, told to nobody, stands for a new one.
FinishHandshake(r, success) ==
    /\ Release(r)
    /\ req[r].kind = "init"
    /\ IF success
       THEN req' = [req EXCEPT ![r].pc = "sweep", ![r].t = now] /\ UNCHANGED minted
       ELSE Leave(r) /\ minted' = minted \ {req[r].sid}
    /\ UNCHANGED <<now, live, ended, lastSweep>>

-----------------------------------------------------------------------------
Init ==
    /\ now = 0
    /\ minted = {}
    /\ live = {}
    /\ ended = {}
    /\ seen = [s \in Sid |-> 0]
    /\ active = [s \in Sid |-> 0]
    /\ lastSweep = 0
    /\ req = [r \in Req |-> NoReq]

Next ==
    \/ Tick
    \/ \E r \in Req :
          \/ \E s \in Sid : Mint(r, s)
          \/ \E s \in Sid, by \in Caller, kind \in Kind : Arrive(r, s, by, kind)
          \/ SweepCheck(r) \/ Sweep(r)
          \/ LookupExpired(r) \/ LookupMisses(r)
          \/ Enter(r) \/ FindForResponse(r) \/ FindForDelete(r) \/ End(r)
          \/ CallerFull(r) \/ Insert(r) \/ Refused(r)
          \/ FinishStamp(r) \/ FinishCall(r)
          \/ \E success \in BOOLEAN : FinishHandshake(r, success)

Spec == Init /\ [][Next]_vars

-----------------------------------------------------------------------------
(* Properties.                                                             *)

TypeOK ==
    /\ now \in Time
    /\ minted \in SUBSET Sid
    /\ live \in SUBSET minted
    /\ ended \in SUBSET minted
    /\ seen \in [Sid -> Time]
    /\ active \in [Sid -> Nat]
    /\ lastSweep \in Time
    /\ req \in [Req -> ReqRecord \cup {NoReq}]

InService(r, s) ==
    req[r] # NoReq /\ req[r].sid = s /\ req[r].pc \in {"serving", "stamped"}

\* SessionStore::enter counts a session busy under the lock it was found under,
\* and insert "never ends another caller's live session": a session ends by its
\* own caller's DELETE, whoever is served in it; otherwise only while no request
\* is, by age or by its own caller's initialize.
EndsOnlyForCause ==
    [][\A s \in ended' \ ended :
          \E r \in Req :
             /\ req[r] # NoReq /\ req'[r] # req[r]
             /\ \/ At(r, "end") /\ req[r].sid = s /\ req[r].by = CallerOf[s]
                \/ /\ \A q \in Req : ~InService(q, s)
                   /\ \/ Since(req[r].t, seen[s]) >= Ttl
                      \/ req[r].by = CallerOf[s] /\ req[r].kind = "init"]_vars

\* Session::end and the map: a session that was in the store and is not any
\* more has its token fired, so no request goes on in a forgotten session,
\* and one still in the store has not; and every variable keeps its type.
ForgottenIsEnded ==
    /\ TypeOK
    /\ live \cap ended = {}
    /\ \A r \in Req, s \in Sid :
          InService(r, s) /\ req[r].kind = "enter" => s \in live \cup ended

\* SessionLimits: neither limit is ever exceeded, however inserts interleave, and
\* an initialize refused at a limit has cost its caller no live session.
WithinLimits ==
    /\ Cardinality(live) <= Total
    /\ \A c \in Caller : Cardinality({s \in live : CallerOf[s] = c}) <= PerCaller
    /\ \A r \in Req : At(r, "refused") => ~req[r].evicted

=============================================================================
