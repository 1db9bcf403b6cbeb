------------------------- MODULE SessionStoreProofs -------------------------
(***************************************************************************)
(* Safety of the HTTP session store, for every number of sessions, callers *)
(* and requests, every TTL and every pair of limits: the store and the     *)
(* tokens agree, the limits hold, and no session ends without a cause.     *)
(***************************************************************************)
EXTENDS SessionStore, FiniteSetTheorems, TLAPS

Served(f, s) == {q \in Req : f[q] # NoReq /\ f[q].sid = s /\ f[q].pc \in {"serving", "stamped"}}

\* What a request's record says of the session it names.
Fits(r) ==
    req[r] # NoReq =>
       /\ req[r].kind = "init" =>
             /\ req[r].sid \in minted \ (live \cup ended)
             /\ req[r].by = CallerOf[req[r].sid]
             /\ req[r].pc # "end"
       /\ req[r].kind # "init" => req[r].sid \in live \cup ended
       /\ req[r].pc = "end" => req[r].by = CallerOf[req[r].sid]
       /\ req[r].pc = "refused" => req[r].kind = "init"
       /\ ~req[r].evicted

\* No two handshakes are about the same session.
OneHandshake ==
    \A q, r \in Req :
       /\ req[q] # NoReq /\ req[q].kind = "init"
       /\ req[r] # NoReq /\ req[r].kind = "init"
       /\ req[q].sid = req[r].sid
       => q = r

\* `active` counts the requests being served in the session.
CountsServed == \A s \in Sid : active[s] = Cardinality(Served(req, s))

Limits(S) ==
    /\ Cardinality(S) <= Total
    /\ \A c \in Caller : Cardinality({s \in S : CallerOf[s] = c}) <= PerCaller

\* The inductive invariant.
SessionInv ==
    /\ TypeOK
    /\ live \cap ended = {}
    /\ \A r \in Req : Fits(r)
    /\ OneHandshake
    /\ CountsServed
    /\ Limits(live)

-----------------------------------------------------------------------------
\* The requests served in a session are finitely many (one SessionUse each).
LEMMA ServedFinite ==
    ASSUME NEW f, NEW s
    PROVE  IsFiniteSet(Served(f, s)) /\ Cardinality(Served(f, s)) \in Nat
<1>1. Served(f, s) \in SUBSET Req
  BY DEF Served
<1>2. IsFiniteSet(Served(f, s))
  BY <1>1, FS_Subset, SessionAssumption
<1>3. QED
  BY <1>2, FS_CardinalityType

\* A request that is at some step has a full record, which `Goto` and `Proceed`
\* keep full.
LEMMA AtRecord ==
    ASSUME TypeOK, NEW r \in Req, req[r] # NoReq
    PROVE  /\ req[r] \in ReqRecord
           /\ req[r].sid \in Sid /\ req[r].by \in Caller /\ req[r].t \in Time
           /\ req[r].kind \in Kind /\ req[r].pc \in Pc
BY DEF TypeOK, ReqRecord

\* The idle mark is no record of a request.
LEMMA NoReqIsNoRecord == NoReq \notin ReqRecord
BY DEF NoReq, ReqRecord, Pc

\* Fewer sessions keep the limits (drop_expired, end).
LEMMA LimitsOfLess ==
    ASSUME NEW S \in SUBSET Sid, NEW T \in SUBSET S, Limits(S)
    PROVE  Limits(T)
<1>1. IsFiniteSet(S) /\ IsFiniteSet(T) /\ Cardinality(T) <= Cardinality(S)
  BY FS_Subset, SessionAssumption
<1>2. Cardinality(S) \in Nat /\ Cardinality(T) \in Nat
  BY <1>1, FS_CardinalityType
<1>3. ASSUME NEW c \in Caller
      PROVE  Cardinality({s \in T : CallerOf[s] = c}) <= PerCaller
  <2> DEFINE A == {s \in S : CallerOf[s] = c}
             B == {s \in T : CallerOf[s] = c}
  <2>1. A \in SUBSET S /\ B \in SUBSET A
    OBVIOUS
  <2>2. IsFiniteSet(A)
    BY <1>1, <2>1, FS_Subset
  <2>3. IsFiniteSet(B) /\ Cardinality(B) <= Cardinality(A)
    BY <2>1, <2>2, FS_Subset
  <2>4. Cardinality(A) \in Nat /\ Cardinality(B) \in Nat
    BY <2>2, <2>3, FS_CardinalityType
  <2>5. Cardinality(A) <= PerCaller
    BY DEF Limits
  <2> QED
    BY <2>3, <2>4, <2>5, SessionAssumption
<1> QED
  BY <1>1, <1>2, <1>3, SessionAssumption DEF Limits

\* An idle session serves nobody: is_idle reads the count enter keeps.
LEMMA IdleServesNobody ==
    ASSUME TypeOK, CountsServed, NEW s \in Sid, active[s] = 0
    PROVE  \A q \in Req : ~InService(q, s)
<1>1. IsFiniteSet(Served(req, s))
  BY ServedFinite
<1>2. Cardinality(Served(req, s)) = 0
  BY DEF CountsServed
<1>3. Served(req, s) = {}
  BY <1>1, <1>2, FS_EmptySet
<1> QED
  BY <1>3 DEF Served, InService

-----------------------------------------------------------------------------
\* The counts stay right when a request neither starts nor stops being served.
LEMMA CountsKept ==
    ASSUME TypeOK, CountsServed, NEW r \in Req, NEW x \in ReqRecord \cup {NoReq},
           req' = [req EXCEPT ![r] = x], active' = active,
           IF x # NoReq /\ x.pc \in {"serving", "stamped"}
           THEN req[r] # NoReq /\ req[r].pc \in {"serving", "stamped"} /\ req[r].sid = x.sid
           ELSE req[r] = NoReq \/ req[r].pc \notin {"serving", "stamped"}
    PROVE  CountsServed'
<1> SUFFICES ASSUME NEW s \in Sid
             PROVE  Served(req', s) = Served(req, s)
  BY DEF CountsServed
<1>1. req'[r] = x /\ \A q \in Req : q # r => req'[q] = req[q]
  BY DEF TypeOK
<1> QED
  BY <1>1 DEF Served

\* A step of one request that mints nothing and forgets a session only by ending
\* it keeps the invariant, when that request's own record is right.
LEMMA RequestStep ==
    ASSUME SessionInv, TypeOK', CountsServed',
           NEW r \in Req, NEW x \in ReqRecord \cup {NoReq},
           req' = [req EXCEPT ![r] = x],
           minted' = minted, live' \subseteq live, live' \cup ended' = live \cup ended,
           live' \cap ended' = {},
           Fits(r)',
           x # NoReq /\ x.kind = "init" =>
              req[r] # NoReq /\ req[r].kind = "init" /\ req[r].sid = x.sid
    PROVE  SessionInv'
<1>1. req \in [Req -> ReqRecord \cup {NoReq}] /\ live \in SUBSET Sid
  BY DEF SessionInv, TypeOK
<1>2. req'[r] = x /\ \A q \in Req : q # r => req'[q] = req[q]
  BY <1>1
<1>3. \A q \in Req : Fits(q)'
  <2> SUFFICES ASSUME NEW q \in Req, q # r PROVE Fits(q)'
    OBVIOUS
  <2>1. Fits(q) /\ req'[q] = req[q]
    BY <1>2 DEF SessionInv
  <2> QED
    BY <2>1 DEF Fits
<1>4. OneHandshake'
  <2>1. OneHandshake
    BY DEF SessionInv
  <2> QED
    BY <1>2, <2>1 DEF OneHandshake
<1>5. Limits(live')
  BY <1>1, LimitsOfLess DEF SessionInv
<1> QED
  BY <1>3, <1>4, <1>5 DEF SessionInv, Limits

\* A request that leaves fits anything.
LEMMA Gone ==
    ASSUME NEW r \in Req, req \in [Req -> ReqRecord \cup {NoReq}], Leave(r)
    PROVE  /\ req' = [req EXCEPT ![r] = NoReq]
           /\ req' \in [Req -> ReqRecord \cup {NoReq}]
           /\ Fits(r)'
BY DEF Leave, Fits

\* Arrive starts a request that serves nothing yet.
LEMMA ArriveKeeps ==
    ASSUME SessionInv, NEW r \in Req, NEW s \in Sid, NEW by \in Caller, NEW kind \in Kind,
           Arrive(r, s, by, kind)
    PROVE  SessionInv'
<1> DEFINE x == [pc |-> "sweep", kind |-> kind, sid |-> s, by |-> by, t |-> now,
                 evicted |-> FALSE]
<1>1. TypeOK /\ CountsServed
  BY DEF SessionInv
<1>2. x \in ReqRecord /\ x # NoReq
  <2>1. now \in Time /\ "sweep" \in Pc
    BY <1>1 DEF TypeOK, Pc
  <2>2. x \in ReqRecord
    BY <2>1 DEF ReqRecord
  <2> QED
    BY <2>2, NoReqIsNoRecord
<1>3. req' = [req EXCEPT ![r] = x] /\ req[r] = NoReq /\ s \in live \cup ended /\ kind # "init"
  BY DEF Arrive
<1>4. UNCHANGED <<now, minted, live, ended, seen, active, lastSweep>>
  BY DEF Arrive
<1>5. TypeOK'
  BY <1>1, <1>2, <1>3, <1>4 DEF TypeOK
<1>6. CountsServed'
  BY <1>1, <1>2, <1>3, <1>4, CountsKept
<1>7. req'[r] = x
  BY <1>1, <1>3 DEF TypeOK
<1>8. Fits(r)'
  BY <1>3, <1>4, <1>7 DEF Fits
<1>9. live \cap ended = {}
  BY DEF SessionInv
<1> HIDE DEF x
<1>10. x.kind # "init"
  BY <1>3 DEF x
<1> QED
  BY <1>2, <1>3, <1>4, <1>5, <1>6, <1>8, <1>9, <1>10, RequestStep

\* A request moves on to a step at which it is served no more and no less, and
\* the store is left alone or swept (find for DELETE, a refusal, a stamp).
LEMMA AdvanceKeeps ==
    ASSUME SessionInv, NEW r \in Req, req[r] # NoReq, NEW pc \in Pc, NEW t \in Time,
           req' = [req EXCEPT ![r] = [req[r] EXCEPT !.pc = pc, !.t = t]],
           UNCHANGED <<now, minted, seen, active>>, lastSweep' \in Time,
           live' \subseteq live, live' \cup ended' = live \cup ended, live' \cap ended' = {},
           pc \in {"serving", "stamped"} <=> req[r].pc \in {"serving", "stamped"},
           pc = "end" => req[r].kind # "init" /\ req[r].by = CallerOf[req[r].sid],
           pc = "refused" => req[r].kind = "init"
    PROVE  SessionInv'
<1>1. TypeOK /\ CountsServed /\ Fits(r) /\ live \cap ended = {}
  BY DEF SessionInv
<1>x. PICK x : x = [req[r] EXCEPT !.pc = pc, !.t = t]
  OBVIOUS
<1>2. req' = [req EXCEPT ![r] = x]
  BY <1>x
<1>3. /\ x \in ReqRecord /\ x # NoReq
      /\ x.pc = pc /\ x.kind = req[r].kind /\ x.sid = req[r].sid
      /\ x.by = req[r].by /\ x.evicted = req[r].evicted
  <2>1. req[r] \in ReqRecord
    BY <1>1, AtRecord
  <2>2. x \in ReqRecord
    BY <1>x, <2>1 DEF ReqRecord
  <2> QED
    BY <1>x, <2>1, <2>2, NoReqIsNoRecord DEF ReqRecord
<1>4. TypeOK'
  BY <1>1, <1>2, <1>3 DEF TypeOK
<1>5. CountsServed'
  BY <1>1, <1>2, <1>3, CountsKept
<1>6. Fits(r)'
  <2>1. req'[r] = x
    BY <1>1, <1>2 DEF TypeOK
  <2> QED
    BY <1>1, <1>3, <2>1 DEF Fits
<1> QED
  BY <1>1, <1>2, <1>3, <1>4, <1>5, <1>6, RequestStep

\* A request leaves without having been served at its last step, the store as
\* it was or with sessions moved from the map to the ended ones.
LEMMA LeaveKeeps ==
    ASSUME SessionInv, NEW r \in Req, req[r] # NoReq, Leave(r),
           req[r].pc \notin {"serving", "stamped"},
           UNCHANGED <<now, minted, seen, active, lastSweep>>,
           live' \subseteq live, live' \cup ended' = live \cup ended, live' \cap ended' = {}
    PROVE  SessionInv'
<1>1. TypeOK /\ CountsServed
  BY DEF SessionInv
<1>2. /\ req' = [req EXCEPT ![r] = NoReq] /\ Fits(r)'
      /\ req' \in [Req -> ReqRecord \cup {NoReq}]
  BY <1>1, Gone DEF TypeOK
<1>3. TypeOK'
  BY <1>1, <1>2 DEF TypeOK
<1>4. CountsServed'
  BY <1>1, <1>2, CountsKept
<1> QED
  BY <1>2, <1>3, <1>4, RequestStep

\* The requests of one step each that leave the store alone.
LEMMA QuietKeeps ==
    ASSUME SessionInv, NEW r \in Req,
           \/ SweepCheck(r) \/ LookupMisses(r) \/ FindForResponse(r) \/ FindForDelete(r)
           \/ CallerFull(r) \/ FinishStamp(r)
    PROVE  SessionInv'
<1>1. TypeOK /\ Fits(r) /\ live \cap ended = {} /\ 0 \in Time /\ now \in Time /\ lastSweep \in Time
  BY SessionAssumption DEF SessionInv, TypeOK, Time
<1>2. req[r] # NoReq => req[r] \in ReqRecord /\ req[r].t \in Time
  BY <1>1, AtRecord
<1>3. CASE SweepCheck(r)
  <2>1. req[r] # NoReq /\ req[r].pc = "sweep"
    BY <1>3 DEF SweepCheck, At
  <2>2. PICK pc \in {"act", "drop"} :
          req' = [req EXCEPT ![r] = [req[r] EXCEPT !.pc = pc, !.t = req[r].t]]
    BY <1>1, <1>2, <1>3, <2>1 DEF SweepCheck, Goto, ReqRecord, TypeOK
  <2>3. lastSweep' \in Time /\ UNCHANGED <<now, minted, live, ended, seen, active>>
    BY <1>1, <1>2, <1>3, <2>1 DEF SweepCheck
  <2> QED
    BY <1>1, <1>2, <2>1, <2>2, <2>3, AdvanceKeeps DEF Pc
<1>4. CASE LookupMisses(r)
  <2>1. req[r] # NoReq /\ req[r].pc = "act" /\ Leave(r)
    BY <1>4 DEF LookupMisses, At
  <2> QED
    BY <1>1, <1>4, <2>1, LeaveKeeps DEF LookupMisses
<1>5. CASE FindForResponse(r)
  <2>1. req[r] # NoReq /\ req[r].pc = "act" /\ Leave(r)
    BY <1>5 DEF FindForResponse, Found, At
  <2> QED
    BY <1>1, <1>5, <2>1, LeaveKeeps DEF FindForResponse
<1>6. CASE FindForDelete(r)
  <2>1. /\ req[r] # NoReq /\ req[r].pc = "act" /\ req[r].kind # "init"
        /\ req[r].by = CallerOf[req[r].sid]
    BY <1>6 DEF FindForDelete, Found, At
  <2>2. req' = [req EXCEPT ![r] = [req[r] EXCEPT !.pc = "end", !.t = 0]]
    BY <1>6 DEF FindForDelete, Proceed
  <2> QED
    BY <1>1, <1>6, <2>1, <2>2, AdvanceKeeps DEF FindForDelete, Pc
<1>7. CASE CallerFull(r)
  <2>1. req[r] # NoReq /\ req[r].pc = "act" /\ req[r].kind = "init"
    BY <1>7 DEF CallerFull, At
  <2>2. req' = [req EXCEPT ![r] = [req[r] EXCEPT !.pc = "refused", !.t = 0]]
    BY <1>7 DEF CallerFull, Proceed
  <2> QED
    BY <1>1, <1>7, <2>1, <2>2, AdvanceKeeps DEF CallerFull, Pc
<1>8. CASE FinishStamp(r)
  <2>1. req[r] # NoReq /\ req[r].pc = "serving"
    BY <1>8 DEF FinishStamp, At
  <2>2. req' = [req EXCEPT ![r] = [req[r] EXCEPT !.pc = "stamped", !.t = now]]
    BY <1>8 DEF FinishStamp
  <2> QED
    BY <1>1, <1>8, <2>1, <2>2, AdvanceKeeps DEF FinishStamp, Pc
<1> QED
  BY <1>3, <1>4, <1>5, <1>6, <1>7, <1>8
\* A session leaves the map for the ended ones: a sweep, a lookup that finds it
\* expired, DELETE.
LEMMA EndingKeeps ==
    ASSUME SessionInv, NEW r \in Req, Sweep(r) \/ LookupExpired(r) \/ End(r)
    PROVE  SessionInv'
<1>1. TypeOK /\ live \cap ended = {}
  BY DEF SessionInv
<1>2. req[r] # NoReq => req[r] \in ReqRecord /\ req[r].t \in Time
  BY <1>1, AtRecord
<1>3. CASE Sweep(r)
  <2>1. req[r] # NoReq /\ req[r].pc = "drop"
    BY <1>3 DEF Sweep, At
  <2>2. req' = [req EXCEPT ![r] = [req[r] EXCEPT !.pc = "act", !.t = req[r].t]]
    BY <1>1, <1>2, <1>3, <2>1 DEF Sweep, Goto, ReqRecord, TypeOK
  <2>3. live' \subseteq live /\ live' \cup ended' = live \cup ended /\ live' \cap ended' = {}
    BY <1>1, <1>3 DEF Sweep, Stale
  <2>4. UNCHANGED <<now, minted, seen, active>> /\ lastSweep' \in Time
    BY <1>1, <1>3 DEF Sweep, TypeOK
  <2> QED
    BY <1>2, <2>1, <2>2, <2>3, <2>4, AdvanceKeeps DEF Pc
<1>4. CASE LookupExpired(r)
  <2>1. req[r] # NoReq /\ req[r].pc = "act" /\ Leave(r)
    BY <1>4 DEF LookupExpired, At
  <2>2. live' \subseteq live /\ live' \cup ended' = live \cup ended /\ live' \cap ended' = {}
    BY <1>1, <1>4 DEF LookupExpired
  <2> QED
    BY <1>4, <2>1, <2>2, LeaveKeeps DEF LookupExpired
<1>5. CASE End(r)
  <2>1. req[r] # NoReq /\ req[r].pc = "end" /\ Leave(r)
    BY <1>5 DEF End, At
  <2>2. live' \subseteq live /\ live' \cup ended' = live \cup ended /\ live' \cap ended' = {}
    BY <1>1, <1>5 DEF End
  <2> QED
    BY <1>5, <2>1, <2>2, LeaveKeeps DEF End
<1> QED
  BY <1>3, <1>4, <1>5

\* Enter: the session found and the request counted in it are one step.
LEMMA EnterKeeps ==
    ASSUME SessionInv, NEW r \in Req, Enter(r)
    PROVE  SessionInv'
<1>1. TypeOK /\ CountsServed /\ Fits(r) /\ live \cap ended = {} /\ 0 \in Time
  BY SessionAssumption DEF SessionInv, TypeOK, Time
<1>2. req[r] # NoReq /\ req[r].pc = "act" /\ req[r].kind = "enter"
  BY DEF Enter, Found, At
<1>3. req[r] \in ReqRecord /\ req[r].sid \in Sid
  BY <1>1, <1>2, AtRecord
<1>x. PICK x : x = [req[r] EXCEPT !.pc = "serving", !.t = 0]
  OBVIOUS
<1>4. /\ x \in ReqRecord /\ x # NoReq
      /\ x.pc = "serving" /\ x.kind = req[r].kind /\ x.sid = req[r].sid
      /\ x.by = req[r].by /\ x.evicted = req[r].evicted
  <2>1. x \in ReqRecord
    BY <1>1, <1>x, <1>3 DEF ReqRecord, Pc
  <2> QED
    BY <1>x, <1>3, <2>1, NoReqIsNoRecord DEF ReqRecord
<1>5. req' = [req EXCEPT ![r] = x] /\ active' = [active EXCEPT ![req[r].sid] = @ + 1]
  BY <1>x DEF Enter, Proceed
<1>6. UNCHANGED <<now, minted, live, ended, seen, lastSweep>>
  BY DEF Enter
<1>7. req'[r] = x /\ \A q \in Req : q # r => req'[q] = req[q]
  BY <1>1, <1>5 DEF TypeOK
<1>8. TypeOK'
  <2>1. active' \in [Sid -> Nat]
    BY <1>1, <1>3, <1>5 DEF TypeOK
  <2> QED
    BY <1>1, <1>4, <1>5, <1>6, <2>1 DEF TypeOK
<1>9. CountsServed'
  <2> SUFFICES ASSUME NEW s \in Sid PROVE active'[s] = Cardinality(Served(req', s))
    BY DEF CountsServed
  <2>1. active[s] = Cardinality(Served(req, s)) /\ IsFiniteSet(Served(req, s))
    BY <1>1, ServedFinite DEF CountsServed
  <2>2. CASE s = req[r].sid
    <3>1. Served(req', s) = Served(req, s) \cup {r} /\ r \notin Served(req, s)
      BY <1>2, <1>4, <1>7, <2>2 DEF Served
    <3>2. Cardinality(Served(req', s)) = Cardinality(Served(req, s)) + 1
      BY <2>1, <3>1, FS_AddElement
    <3>3. active'[s] = active[s] + 1
      BY <1>1, <1>5, <2>2 DEF TypeOK
    <3> QED
      BY <2>1, <3>2, <3>3
  <2>3. CASE s # req[r].sid
    <3>1. Served(req', s) = Served(req, s)
      BY <1>2, <1>4, <1>7, <2>3 DEF Served
    <3>2. active'[s] = active[s]
      BY <1>1, <1>5, <2>3 DEF TypeOK
    <3> QED
      BY <2>1, <3>1, <3>2
  <2> QED
    BY <2>2, <2>3
<1>10. Fits(r)'
  BY <1>1, <1>2, <1>4, <1>6, <1>7 DEF Fits
<1> QED
  BY <1>1, <1>2, <1>4, <1>5, <1>6, <1>8, <1>9, <1>10, RequestStep

\* SessionUse::drop: the count goes down by the request that is served no more.
LEMMA ReleaseCounts ==
    ASSUME TypeOK, CountsServed, NEW r \in Req, Release(r), NEW x \in ReqRecord \cup {NoReq},
           req' = [req EXCEPT ![r] = x],
           x # NoReq => x.pc \notin {"serving", "stamped"}
    PROVE  /\ active' \in [Sid -> Nat] /\ seen' \in [Sid -> Time]
           /\ CountsServed'
<1>1. req[r] # NoReq /\ req[r].pc = "stamped"
  BY DEF Release, At
<1>2. req[r] \in ReqRecord /\ req[r].sid \in Sid /\ req[r].t \in Time
  BY <1>1, AtRecord
<1>3. req'[r] = x /\ \A q \in Req : q # r => req'[q] = req[q]
  BY DEF TypeOK
<1>4. active' = [active EXCEPT ![req[r].sid] = @ - 1]
  BY DEF Release
<1>5. \A s \in Sid : /\ active[s] = Cardinality(Served(req, s)) /\ IsFiniteSet(Served(req, s))
                     /\ Cardinality(Served(req, s)) \in Nat
                     /\ Cardinality(Served(req', s)) \in Nat
  BY ServedFinite DEF CountsServed
<1>6. ASSUME NEW s \in Sid PROVE active'[s] = Cardinality(Served(req', s))
  <2>2. CASE s = req[r].sid
    <3>1. Served(req', s) = Served(req, s) \ {r} /\ r \in Served(req, s)
      BY <1>1, <1>3, <2>2 DEF Served
    <3>2. Cardinality(Served(req', s)) = Cardinality(Served(req, s)) - 1
      BY <1>5, <3>1, FS_RemoveElement
    <3>3. active'[s] = active[s] - 1
      BY <1>4, <2>2 DEF TypeOK
    <3> QED
      BY <1>5, <3>2, <3>3
  <2>3. CASE s # req[r].sid
    <3>1. Served(req', s) = Served(req, s)
      BY <1>1, <1>3, <2>3 DEF Served
    <3>2. active'[s] = active[s]
      BY <1>4, <2>3 DEF TypeOK
    <3> QED
      BY <1>5, <3>1, <3>2
  <2> QED
    BY <2>2, <2>3
<1>7. CountsServed'
  BY <1>6 DEF CountsServed
<1>8. seen' \in [Sid -> Time]
  BY <1>2 DEF Release, TypeOK
<1>9. active' \in [Sid -> Nat]
  <2>1. DOMAIN active' = Sid /\ active' = [s \in Sid |-> active'[s]]
    BY <1>4 DEF TypeOK
  <2>2. \A s \in Sid : active'[s] \in Nat
    BY <1>5, <1>6
  <2> QED
    BY <2>1, <2>2
<1> QED
  BY <1>7, <1>8, <1>9
\* A handshake that comes to nothing takes the id of its session, which nobody
\* was told, out of use: no other request names it.
LEMMA DroppedKeeps ==
    ASSUME SessionInv, NEW r \in Req, req[r] # NoReq, req[r].kind = "init",
           Leave(r), minted' = minted \ {req[r].sid}, UNCHANGED <<live, ended>>,
           CountsServed', now' \in Time, lastSweep' \in Time, seen' \in [Sid -> Time],
           active' \in [Sid -> Nat]
    PROVE  SessionInv'
<1>1. TypeOK /\ OneHandshake /\ Fits(r)
  BY DEF SessionInv
<1>2. /\ req' = [req EXCEPT ![r] = NoReq] /\ Fits(r)'
      /\ req' \in [Req -> ReqRecord \cup {NoReq}]
  BY <1>1, Gone DEF TypeOK
<1>3. req'[r] = NoReq /\ \A q \in Req : q # r => req'[q] = req[q]
  BY <1>1, <1>2 DEF TypeOK
<1>4. req[r].sid \notin live \cup ended
  BY <1>1 DEF Fits
<1>5. TypeOK'
  BY <1>1, <1>2, <1>4 DEF TypeOK
<1>6. \A q \in Req : Fits(q)'
  <2> SUFFICES ASSUME NEW q \in Req, q # r PROVE Fits(q)'
    BY <1>2
  <2>1. Fits(q) /\ req'[q] = req[q]
    BY <1>3 DEF SessionInv
  <2>2. req[q] # NoReq /\ req[q].kind = "init" => req[q].sid # req[r].sid
    BY <1>1 DEF OneHandshake
  <2> QED
    BY <2>1, <2>2 DEF Fits
<1>7. OneHandshake'
  BY <1>1, <1>3 DEF OneHandshake
<1> QED
  BY <1>5, <1>6, <1>7 DEF SessionInv, Limits

\* A refused initialize is dropped.
LEMMA RefusedKeeps ==
    ASSUME SessionInv, NEW r \in Req, Refused(r)
    PROVE  SessionInv'
<1>1. TypeOK /\ CountsServed /\ Fits(r)
  BY DEF SessionInv
<1>2. req[r] # NoReq /\ req[r].pc = "refused" /\ Leave(r)
  BY DEF Refused, At
<1>3. req[r].kind = "init"
  BY <1>1, <1>2 DEF Fits
<1>4. req' = [req EXCEPT ![r] = NoReq]
  BY <1>2 DEF Leave
<1>5. UNCHANGED <<now, live, ended, seen, active, lastSweep>> /\ minted' = minted \ {req[r].sid}
  BY DEF Refused
<1>6. CountsServed'
  BY <1>1, <1>2, <1>4, <1>5, CountsKept
<1>7. now' \in Time /\ lastSweep' \in Time /\ seen' \in [Sid -> Time] /\ active' \in [Sid -> Nat]
  BY <1>1, <1>5 DEF TypeOK
<1> QED
  BY <1>2, <1>3, <1>5, <1>6, <1>7, DroppedKeeps

\* The end of a call, and of a handshake, of either outcome.
LEMMA FinishKeeps ==
    ASSUME SessionInv, NEW r \in Req, NEW success \in BOOLEAN,
           FinishCall(r) \/ FinishHandshake(r, success)
    PROVE  SessionInv'
<1>1. TypeOK /\ CountsServed /\ Fits(r) /\ live \cap ended = {} /\ now \in Time /\ lastSweep \in Time
  BY DEF SessionInv, TypeOK
<1>2. req[r] # NoReq /\ Release(r) /\ UNCHANGED <<now, live, ended, lastSweep>>
  BY DEF FinishCall, FinishHandshake, Release, At
<1>3. req[r] \in ReqRecord
  BY <1>1, <1>2, AtRecord
<1>4. ASSUME Leave(r)
      PROVE  /\ active' \in [Sid -> Nat] /\ seen' \in [Sid -> Time] /\ CountsServed'
             /\ req' = [req EXCEPT ![r] = NoReq] /\ Fits(r)'
             /\ req' \in [Req -> ReqRecord \cup {NoReq}]
  <2>1. /\ req' = [req EXCEPT ![r] = NoReq] /\ Fits(r)'
        /\ req' \in [Req -> ReqRecord \cup {NoReq}]
    BY <1>1, <1>4, Gone DEF TypeOK
  <2> QED
    BY <1>1, <1>2, <2>1, ReleaseCounts
<1>5. CASE FinishCall(r)
  <2>1. Leave(r) /\ minted' = minted
    BY <1>5 DEF FinishCall
  <2>2. TypeOK'
    BY <1>1, <1>2, <1>4, <2>1 DEF TypeOK
  <2> QED
    BY <1>1, <1>2, <1>4, <2>1, <2>2, RequestStep
<1>6. CASE FinishHandshake(r, success) /\ ~success
  <2>1. Leave(r) /\ minted' = minted \ {req[r].sid} /\ req[r].kind = "init"
    BY <1>6 DEF FinishHandshake
  <2> QED
    BY <1>1, <1>2, <1>4, <2>1, DroppedKeeps
<1>7. CASE FinishHandshake(r, success) /\ success
  <2>x. PICK x : x = [req[r] EXCEPT !.pc = "sweep", !.t = now]
    OBVIOUS
  <2>1. req' = [req EXCEPT ![r] = x] /\ minted' = minted /\ req[r].kind = "init"
    BY <1>7, <2>x DEF FinishHandshake
  <2>2. /\ x \in ReqRecord /\ x # NoReq
        /\ x.pc = "sweep" /\ x.kind = req[r].kind /\ x.sid = req[r].sid
        /\ x.by = req[r].by /\ x.evicted = req[r].evicted
    <3>1. x \in ReqRecord
      BY <1>1, <1>3, <2>x DEF ReqRecord, Pc
    <3> QED
      BY <1>3, <2>x, <3>1, NoReqIsNoRecord DEF ReqRecord
  <2>3. active' \in [Sid -> Nat] /\ seen' \in [Sid -> Time] /\ CountsServed'
    BY <1>1, <1>2, <2>1, <2>2, ReleaseCounts
  <2>4. TypeOK'
    BY <1>1, <1>2, <2>1, <2>2, <2>3 DEF TypeOK
  <2>5. req'[r] = x
    BY <1>1, <2>1 DEF TypeOK
  <2>6. Fits(r)'
    BY <1>1, <1>2, <2>1, <2>2, <2>5 DEF Fits
  <2> QED
    BY <1>1, <1>2, <2>1, <2>2, <2>3, <2>4, <2>6, RequestStep
<1> QED
  BY <1>5, <1>6, <1>7

\* Mint: the session is new, so no request is served in it and none names it.
LEMMA MintKeeps ==
    ASSUME SessionInv, NEW r \in Req, NEW s \in Sid, Mint(r, s)
    PROVE  SessionInv'
<1>x. PICK x : x = [pc |-> "serving", kind |-> "init", sid |-> s, by |-> CallerOf[s], t |-> 0,
                    evicted |-> FALSE]
  OBVIOUS
<1>1. TypeOK /\ CountsServed /\ OneHandshake /\ 0 \in Time
  BY SessionAssumption DEF SessionInv, TypeOK, Time
<1>2. /\ x \in ReqRecord /\ x # NoReq /\ x.pc = "serving" /\ x.kind = "init" /\ x.sid = s
      /\ x.by = CallerOf[s] /\ x.evicted = FALSE
  <2>1. CallerOf[s] \in Caller /\ "serving" \in Pc /\ "init" \in Kind
    BY SessionAssumption DEF Pc, Kind
  <2>2. x \in ReqRecord
    BY <1>x, <1>1, <2>1 DEF ReqRecord
  <2> QED
    BY <1>x, <2>2, NoReqIsNoRecord
<1>3. /\ req' = [req EXCEPT ![r] = x] /\ req[r] = NoReq /\ s \notin minted
      /\ minted' = minted \cup {s} /\ active' = [active EXCEPT ![s] = 1]
      /\ UNCHANGED <<now, live, ended, lastSweep>>
  BY <1>x DEF Mint
<1>4. req'[r] = x /\ \A q \in Req : q # r => req'[q] = req[q]
  BY <1>1, <1>3 DEF TypeOK
<1>5. \A q \in Req : req[q] # NoReq => req[q].sid # s
  <2> SUFFICES ASSUME NEW q \in Req, req[q] # NoReq PROVE req[q].sid \in minted
    BY <1>3
  <2>1. Fits(q)
    BY DEF SessionInv
  <2> QED
    BY <1>1, <2>1 DEF Fits, TypeOK
<1>6. TypeOK'
  <2>1. seen' \in [Sid -> Time] /\ active' \in [Sid -> Nat]
    BY <1>1, <1>3 DEF Mint, TypeOK
  <2> QED
    BY <1>1, <1>2, <1>3, <2>1 DEF TypeOK
<1>7. CountsServed'
  <2> SUFFICES ASSUME NEW u \in Sid PROVE active'[u] = Cardinality(Served(req', u))
    BY DEF CountsServed
  <2>1. CASE u = s
    <3>1. Served(req', u) = {r}
      BY <1>2, <1>4, <1>5, <2>1 DEF Served
    <3>2. active'[u] = 1
      BY <1>1, <1>3, <2>1 DEF TypeOK
    <3> QED
      BY <3>1, <3>2, FS_Singleton
  <2>2. CASE u # s
    <3>1. Served(req', u) = Served(req, u)
      BY <1>2, <1>3, <1>4, <2>2 DEF Served
    <3>2. active'[u] = active[u]
      BY <1>1, <1>3, <2>2 DEF TypeOK
    <3> QED
      BY <1>1, <3>1, <3>2 DEF CountsServed
  <2> QED
    BY <2>1, <2>2
<1>8. \A q \in Req : Fits(q)'
  <2>1. Fits(r)'
    BY <1>1, <1>2, <1>3, <1>4 DEF Fits, TypeOK
  <2>2. ASSUME NEW q \in Req, q # r PROVE Fits(q)'
    <3>1. Fits(q) /\ req'[q] = req[q]
      BY <1>4, <2>2 DEF SessionInv
    <3> QED
      BY <1>3, <3>1 DEF Fits
  <2> QED
    BY <2>1, <2>2
<1>9. OneHandshake'
  BY <1>1, <1>2, <1>4, <1>5 DEF OneHandshake
<1> QED
  BY <1>3, <1>6, <1>7, <1>8, <1>9 DEF SessionInv, Limits
\* insert: what gives way is nothing, or one idle session of the same caller.
LEMMA WhatGivesWay ==
    ASSUME TypeOK, NEW s \in Sid, NEW gone \in GivesWay(s)
    PROVE  /\ gone \subseteq Theirs(s)
           /\ \A u \in gone : active[u] = 0 /\ CallerOf[u] = CallerOf[s]
           /\ \/ gone = {} /\ Cardinality(Theirs(s)) < PerCaller
              \/ \E u \in Theirs(s) : gone = {u}
BY DEF GivesWay, LeastRecent, Idle, Theirs

\* insert: the session that gives way leaves room for the new one under the
\* caller's limit, and the check of the total does under the store's.
LEMMA RoomForOne ==
    ASSUME TypeOK, Limits(live), NEW s \in Sid, s \notin live, NEW gone \in GivesWay(s),
           NEW room \in SUBSET (live \ gone), ~Full(room)
    PROVE  Limits(room \cup {s})
<1>1. live \in SUBSET Sid /\ room \in SUBSET live /\ s \notin room
  BY DEF TypeOK
<1>2. IsFiniteSet(live) /\ IsFiniteSet(room)
  BY <1>1, FS_Subset, SessionAssumption
<1>3. Cardinality(room) \in Nat /\ Cardinality(room \cup {s}) = Cardinality(room) + 1
  BY <1>1, <1>2, FS_CardinalityType, FS_AddElement
<1>4. Cardinality(room \cup {s}) <= Total
  BY <1>3, SessionAssumption DEF Full
<1>5. ASSUME NEW c \in Caller
      PROVE  Cardinality({u \in room \cup {s} : CallerOf[u] = c}) <= PerCaller
  <2>1. CASE c # CallerOf[s]
    <3>1. {u \in room \cup {s} : CallerOf[u] = c} = {u \in room : CallerOf[u] = c}
      BY <2>1
    <3>2. Limits(room)
      BY <1>1, LimitsOfLess
    <3> QED
      BY <3>1, <3>2 DEF Limits
  <2>2. CASE c = CallerOf[s]
    <3> DEFINE A == {u \in room : CallerOf[u] = c}
    <3>1. {u \in room \cup {s} : CallerOf[u] = c} = A \cup {s} /\ s \notin A
      BY <1>1, <2>2
    <3>2. A \in SUBSET (Theirs(s) \ gone)
      BY <1>1, <2>2 DEF Theirs
    <3>3. IsFiniteSet(Theirs(s)) /\ Cardinality(Theirs(s)) <= PerCaller
      <4>1. Theirs(s) = {u \in live : CallerOf[u] = c} /\ Theirs(s) \in SUBSET live
        BY <2>2 DEF Theirs
      <4> QED
        BY <1>2, <4>1, FS_Subset DEF Limits
    <3>4. IsFiniteSet(Theirs(s) \ gone) /\ Cardinality(Theirs(s) \ gone) < PerCaller
      <4>1. CASE gone = {} /\ Cardinality(Theirs(s)) < PerCaller
        <5>1. Theirs(s) \ gone = Theirs(s)
          BY <4>1
        <5> QED
          BY <3>3, <4>1, <5>1
      <4>2. CASE \E u \in Theirs(s) : gone = {u}
        <5>1. PICK u \in Theirs(s) : gone = {u}
          BY <4>2
        <5>2. /\ IsFiniteSet(Theirs(s) \ {u})
              /\ Cardinality(Theirs(s) \ {u}) = Cardinality(Theirs(s)) - 1
          BY <3>3, <5>1, FS_RemoveElement
        <5>3. Cardinality(Theirs(s)) \in Nat
          BY <3>3, FS_CardinalityType
        <5> QED
          BY <3>3, <5>1, <5>2, <5>3, SessionAssumption
      <4> QED
        BY <4>1, <4>2, WhatGivesWay
    <3>5. IsFiniteSet(A) /\ Cardinality(A) <= Cardinality(Theirs(s) \ gone)
      BY <3>2, <3>4, FS_Subset
    <3>6. Cardinality(A) \in Nat /\ Cardinality(Theirs(s) \ gone) \in Nat
      BY <3>4, <3>5, FS_CardinalityType
    <3>7. Cardinality(A \cup {s}) = Cardinality(A) + 1
      BY <3>1, <3>5, FS_AddElement
    <3> HIDE DEF A
    <3> QED
      BY <3>1, <3>4, <3>5, <3>6, <3>7, SessionAssumption
  <2> QED
    BY <2>1, <2>2
<1> QED
  BY <1>4, <1>5 DEF Limits

\* insert: a store still full after the caller's own session gave way does not
\* exist, so an initialize refused at the total has cost its caller nothing.
LEMMA FullMeansNoneGone ==
    ASSUME TypeOK, Limits(live), NEW s \in Sid, NEW gone \in GivesWay(s),
           NEW room \in SUBSET (live \ gone), Full(room)
    PROVE  gone = {}
<1> SUFFICES ASSUME NEW u \in Theirs(s), gone = {u} PROVE FALSE
  BY WhatGivesWay
<1>1. live \in SUBSET Sid /\ u \in live
  BY DEF TypeOK, Theirs
<1>2. IsFiniteSet(live)
  BY <1>1, FS_Subset, SessionAssumption
<1>3. IsFiniteSet(live \ {u}) /\ Cardinality(live \ {u}) = Cardinality(live) - 1
  BY <1>1, <1>2, FS_RemoveElement
<1>4. IsFiniteSet(room) /\ Cardinality(room) <= Cardinality(live \ {u})
  BY <1>3, FS_Subset
<1>5. Cardinality(live) \in Nat /\ Cardinality(room) \in Nat
  BY <1>2, <1>4, FS_CardinalityType
<1> QED
  BY <1>3, <1>4, <1>5, SessionAssumption DEF Full, Limits

\* Insert, whichever session gave way and whatever was stale.
LEMMA InsertKeeps ==
    ASSUME SessionInv, NEW r \in Req, Insert(r)
    PROVE  SessionInv'
<1>1. /\ TypeOK /\ CountsServed /\ Fits(r) /\ OneHandshake /\ Limits(live)
      /\ live \cap ended = {} /\ 0 \in Time
  BY SessionAssumption DEF SessionInv, TypeOK, Time
<1>2. req[r] # NoReq /\ req[r].pc = "act" /\ req[r].kind = "init"
  BY DEF Insert, At
<1>3. req[r] \in ReqRecord /\ req[r].sid \in Sid
  BY <1>1, <1>2, AtRecord
<1> DEFINE s == req[r].sid
<1>4. s \in minted \ (live \cup ended)
  BY <1>1, <1>2 DEF Fits
<1>5. PICK gone \in GivesWay(s), stale \in SUBSET live :
         LET room == (live \ gone) \ stale
         IN /\ ended' = ended \cup gone \cup stale /\ stale \cap gone = {}
            /\ \/ /\ Full(room) /\ live' = room
                  /\ req' = [req EXCEPT ![r].pc = "refused", ![r].t = 0,
                                        ![r].evicted = (gone \ Stale(live, req[r].t) # {})]
               \/ ~Full(room) /\ live' = room \cup {s} /\ Leave(r)
  BY DEF Insert, Stale
<1> DEFINE room == (live \ gone) \ stale
<1>6. UNCHANGED <<now, minted, seen, active, lastSweep>>
  BY DEF Insert
<1>7. gone \subseteq live
  BY <1>1, <1>3, WhatGivesWay DEF Theirs
<1>8. CASE Full(room) /\ live' = room
  <2>1. gone = {}
    BY <1>1, <1>3, <1>8, FullMeansNoneGone
  <2>2. req' = [req EXCEPT ![r] = [req[r] EXCEPT !.pc = "refused", !.t = 0, !.evicted = FALSE]]
    <3>1. s \in room => s \in live
      OBVIOUS
    <3>2. req' = [req EXCEPT ![r].pc = "refused", ![r].t = 0,
                             ![r].evicted = (gone \ Stale(live, req[r].t) # {})]
      BY <1>4, <1>5, <1>8
    <3>3. (gone \ Stale(live, req[r].t) # {}) = FALSE
      BY <2>1
    <3> QED
      BY <3>2, <3>3
  <2>3. req' = [req EXCEPT ![r] = [req[r] EXCEPT !.pc = "refused", !.t = 0]]
    <3>1. req[r].evicted = FALSE
      BY <1>1, <1>2, <1>3 DEF Fits, ReqRecord
    <3>2. [req[r] EXCEPT !.pc = "refused", !.t = 0, !.evicted = FALSE]
            = [req[r] EXCEPT !.pc = "refused", !.t = 0]
      BY <1>3, <3>1 DEF ReqRecord
    <3> QED
      BY <2>2, <3>2
  <2>4. live' \subseteq live /\ live' \cup ended' = live \cup ended /\ live' \cap ended' = {}
    BY <1>1, <1>5, <1>7, <1>8
  <2>5. lastSweep' \in Time
    BY <1>1, <1>6 DEF TypeOK
  <2> QED
    BY <1>1, <1>2, <1>6, <2>3, <2>4, <2>5, AdvanceKeeps DEF Pc
<1>9. CASE ~Full(room) /\ live' = room \cup {s} /\ Leave(r)
  <2>1. /\ req' = [req EXCEPT ![r] = NoReq] /\ Fits(r)'
        /\ req' \in [Req -> ReqRecord \cup {NoReq}]
    BY <1>1, <1>9, Gone DEF TypeOK
  <2>2. req'[r] = NoReq /\ \A q \in Req : q # r => req'[q] = req[q]
    BY <1>1, <2>1 DEF TypeOK
  <2>3. live' \cup ended' = live \cup ended \cup {s} /\ live' \cap ended' = {}
    BY <1>1, <1>4, <1>5, <1>7, <1>9
  <2>4. TypeOK'
    BY <1>1, <1>4, <1>6, <2>1, <2>3 DEF TypeOK
  <2>5. CountsServed'
    BY <1>1, <1>2, <1>6, <2>1, CountsKept
  <2>6. \A q \in Req : Fits(q)'
    <3> SUFFICES ASSUME NEW q \in Req, q # r PROVE Fits(q)'
      BY <2>1
    <3>1. Fits(q) /\ req'[q] = req[q]
      BY <2>2 DEF SessionInv
    <3>2. req[q] # NoReq /\ req[q].kind = "init" => req[q].sid # s
      BY <1>1, <1>2 DEF OneHandshake
    <3> HIDE DEF s
    <3> QED
      BY <1>6, <2>3, <3>1, <3>2 DEF Fits
  <2>7. OneHandshake'
    BY <1>1, <2>2 DEF OneHandshake
  <2>8. Limits(live')
    <3>1. room \in SUBSET (live \ gone) /\ s \notin live /\ s \in Sid
      BY <1>3, <1>4
    <3>2. Limits(room \cup {s})
      BY <1>1, <1>9, <3>1, RoomForOne
    <3> QED
      BY <1>9, <3>2
  <2> QED
    BY <2>3, <2>4, <2>5, <2>6, <2>7, <2>8 DEF SessionInv, Limits
<1> QED
  BY <1>5, <1>8, <1>9
-----------------------------------------------------------------------------
\* The invariant is inductive: every step of src/mcp/session.rs keeps it.
LEMMA SessionStep ==
    ASSUME SessionInv, [Next]_vars
    PROVE  SessionInv'
<1>1. CASE Tick
  <2>1. now' \in Time
    BY <1>1, SessionAssumption DEF Tick, SessionInv, TypeOK, Time
  <2> QED
    BY <1>1, <2>1 DEF Tick, SessionInv, TypeOK, Fits, OneHandshake, CountsServed, Limits
<1>2. CASE UNCHANGED vars
  BY <1>2 DEF vars, SessionInv, TypeOK, Fits, OneHandshake, CountsServed, Limits
<1>3. ASSUME NEW r \in Req, \E s \in Sid : Mint(r, s) PROVE SessionInv'
  BY <1>3, MintKeeps
<1>4. ASSUME NEW r \in Req, \E s \in Sid, by \in Caller, kind \in Kind : Arrive(r, s, by, kind)
      PROVE  SessionInv'
  BY <1>4, ArriveKeeps
<1>5. ASSUME NEW r \in Req, FinishCall(r) \/ \E success \in BOOLEAN : FinishHandshake(r, success)
      PROVE  SessionInv'
  BY <1>5, FinishKeeps
<1> QED
  BY <1>1, <1>2, <1>3, <1>4, <1>5, QuietKeeps, EndingKeeps, EnterKeeps, InsertKeeps,
     RefusedKeeps DEF Next

\* The invariant holds of every behaviour of the store.
THEOREM SessionInvariant == Spec => []SessionInv
<1>1. Init => SessionInv
  <2> SUFFICES ASSUME Init PROVE SessionInv
    OBVIOUS
  <2>1. TypeOK /\ live = {} /\ (\A r \in Req : req[r] = NoReq) /\ \A s \in Sid : active[s] = 0
    BY SessionAssumption DEF Init, TypeOK, Time
  <2>2. CountsServed
    <3>1. \A s \in Sid : Served(req, s) = {}
      BY <2>1 DEF Served
    <3> QED
      BY <2>1, <3>1, FS_EmptySet DEF CountsServed
  <2>3. Limits(live)
    <3>1. \A c \in Caller : {s \in live : CallerOf[s] = c} = {}
      BY <2>1
    <3>2. Cardinality({}) = 0
      BY FS_EmptySet
    <3> QED
      BY <2>1, <3>1, <3>2, SessionAssumption DEF Limits
  <2> QED
    BY <2>1, <2>2, <2>3 DEF SessionInv, Fits, OneHandshake
<1>2. SessionInv /\ [Next]_vars => SessionInv'
  BY SessionStep
<1> QED
  BY <1>1, <1>2, PTL DEF Spec

\* Session::end and the map: a session out of the store has had its token fired,
\* and a request is only ever served in one that is in the store or ended.
THEOREM StoreAndTokensAgree == Spec => []ForgottenIsEnded
<1>1. SessionInv => ForgottenIsEnded
  <2> SUFFICES ASSUME SessionInv, NEW r \in Req, NEW s \in Sid, InService(r, s),
                      req[r].kind = "enter"
               PROVE  s \in live \cup ended
    BY DEF SessionInv, ForgottenIsEnded
  <2>1. Fits(r)
    BY DEF SessionInv
  <2> QED
    BY <2>1 DEF Fits, InService
<1> QED
  BY <1>1, SessionInvariant, PTL

\* SessionLimits: neither limit is exceeded however inserts interleave, and a
\* refused initialize has ended no live session.
THEOREM LimitsAreKept == Spec => []WithinLimits
<1>1. SessionInv => WithinLimits
  BY DEF SessionInv, WithinLimits, Limits, Fits, At
<1> QED
  BY <1>1, SessionInvariant, PTL

\* SessionStore::{drop_expired, find, enter, end, insert}: a session ends by its
\* own caller's DELETE, or while it serves nobody, by age or for its own caller.
THEOREM SessionsEndForCause == Spec => EndsOnlyForCause
<1> DEFINE Cause(s, r) ==
             /\ req[r] # NoReq /\ req'[r] # req[r]
             /\ \/ At(r, "end") /\ req[r].sid = s /\ req[r].by = CallerOf[s]
                \/ /\ \A q \in Req : ~InService(q, s)
                   /\ \/ Since(req[r].t, seen[s]) >= Ttl
                      \/ req[r].by = CallerOf[s] /\ req[r].kind = "init"
           Caused == \A s \in ended' \ ended : \E r \in Req : Cause(s, r)
<1>1. SessionInv /\ [Next]_vars => [Caused]_vars
  <2> SUFFICES ASSUME SessionInv, Next, NEW s \in ended' \ ended
               PROVE  \E r \in Req : Cause(s, r)
    OBVIOUS
  <2>1. TypeOK /\ CountsServed /\ \A q \in Req : Fits(q)
    BY DEF SessionInv
  <2>2. PICK r \in Req : Sweep(r) \/ LookupExpired(r) \/ End(r) \/ Insert(r)
    BY DEF Next, Tick, Mint, Arrive, SweepCheck, LookupMisses, Enter, FindForResponse,
           FindForDelete, CallerFull, Refused, FinishStamp, FinishCall, FinishHandshake
  <2>3. req[r] # NoReq
    BY <2>2 DEF Sweep, LookupExpired, End, Insert, At
  <2>4. req[r] \in ReqRecord
    BY <2>1, <2>3, AtRecord
  <2>5. live \in SUBSET Sid
    BY <2>1 DEF TypeOK
  <2>6. Leave(r) => req'[r] # req[r]
    BY <2>1, <2>3 DEF Leave, TypeOK
  <2>7. CASE Sweep(r)
    <3>1. s \in Sid /\ active[s] = 0 /\ Since(req[r].t, seen[s]) >= Ttl
      BY <2>5, <2>7 DEF Sweep, Stale, Expired
    <3>2. req'[r] # req[r]
      <4>1. req'[r].pc = "act" /\ req[r].pc = "drop"
        BY <2>1, <2>4, <2>7 DEF Sweep, Goto, At, TypeOK, ReqRecord
      <4> QED
        BY <4>1
    <3> QED
      BY <2>1, <2>3, <3>1, <3>2, IdleServesNobody
  <2>8. CASE LookupExpired(r)
    <3>1. s \in Sid /\ active[s] = 0 /\ Since(req[r].t, seen[s]) >= Ttl /\ Leave(r)
      BY <2>5, <2>8 DEF LookupExpired, Expired
    <3> QED
      BY <2>1, <2>3, <2>6, <3>1, IdleServesNobody
  <2>9. CASE End(r)
    <3>1. At(r, "end") /\ req[r].sid = s /\ Leave(r)
      BY <2>9 DEF End
    <3>2. req[r].by = CallerOf[s]
      BY <2>1, <3>1 DEF Fits, At
    <3> QED
      BY <2>3, <2>6, <3>1, <3>2
  <2>10. CASE Insert(r)
    <3>1. req[r].sid \in Sid /\ req[r].kind = "init" /\ req[r].pc = "act"
      BY <2>1, <2>3, <2>10, AtRecord DEF Insert, At
    <3>2. req[r].by = CallerOf[req[r].sid]
      BY <2>1, <2>3, <3>1 DEF Fits
    <3>3. PICK gone \in GivesWay(req[r].sid) :
             /\ s \in gone \/ s \in Stale(live \ gone, req[r].t)
             /\ Leave(r) \/ req' = [req EXCEPT ![r].pc = "refused", ![r].t = 0,
                                      ![r].evicted = (gone \ Stale(live, req[r].t) # {})]
      BY <2>10 DEF Insert
    <3>4. req'[r] # req[r]
      <4>1. CASE Leave(r)
        BY <2>6, <4>1
      <4>2. CASE ~Leave(r)
        <5>1. req'[r].pc = "refused"
          BY <2>1, <2>4, <3>3, <4>2 DEF TypeOK, ReqRecord
        <5> QED
          BY <3>1, <5>1
      <4> QED
        BY <4>1, <4>2
    <3>5. CASE s \in gone
      <4>1. s \in Sid /\ active[s] = 0 /\ CallerOf[s] = CallerOf[req[r].sid]
        <5>1. s \in Theirs(req[r].sid) /\ active[s] = 0 /\ CallerOf[s] = CallerOf[req[r].sid]
          BY <2>1, <3>1, <3>5, WhatGivesWay
        <5> QED
          BY <2>5, <5>1 DEF Theirs
      <4> QED
        BY <2>1, <2>3, <3>1, <3>2, <3>4, <4>1, IdleServesNobody
    <3>6. CASE s \in Stale(live \ gone, req[r].t)
      <4>1. s \in Sid /\ active[s] = 0 /\ Since(req[r].t, seen[s]) >= Ttl
        BY <2>5, <3>6 DEF Stale, Expired
      <4> QED
        BY <2>1, <2>3, <3>4, <4>1, IdleServesNobody
    <3> QED
      BY <3>3, <3>5, <3>6
  <2> QED
    BY <2>2, <2>7, <2>8, <2>9, <2>10
<1>2. [][Caused]_vars => EndsOnlyForCause
  BY PTL DEF EndsOnlyForCause
<1> QED
  BY <1>1, <1>2, SessionInvariant, PTL DEF Spec

=============================================================================
