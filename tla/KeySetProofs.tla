---------------------------- MODULE KeySetProofs ----------------------------
(***************************************************************************)
(* Theorems about KeySet, for any number of concurrent lookups, any keys   *)
(* and any intervals: fetches are spaced and run one at a time, and an     *)
(* answer is what Google said when the last good fetch was served.         *)
(***************************************************************************)
EXTENDS KeySet, SequenceTheorems, TLAPS

\* Only the lookup at the head of the queue downloads: it holds the fetching lock.
OneFetch == \A l \in Lookup : look[l].pc \in Downloading => turn # <<>> /\ turn[1] = l

\* How the instants and the outcome of the last fetch go together.
Noted ==
    /\ endAge = attemptAge
    /\ outcome = "ok" => setAge = attemptAge
    /\ outcome = "none" => attemptAge = Forever

\* A set Google served differs from what it publishes now by no more than it
\* changed since.
Current(set, changed) ==
    /\ \A k \in set : k \in published \/ k \in changed
    /\ \A k \in Kid \ set : k \notin published \/ k \in changed

\* So do the set in memory, as long as it is used, and the one being downloaded.
UpToRotation ==
    /\ \A k \in keys : k \in published \/ k \in moved
    /\ setAge < Ttl => Current(keys, moved)
    /\ \A l \in Lookup : look[l].pc \in {"served", "finished"} => Current(got, gotMoved)

\* The inductive invariant.
KeySetInv == TypeOK /\ OneFetch /\ Noted /\ UpToRotation
-----------------------------------------------------------------------------
(* Ages.                                                                   *)

\* The age that stands for every later one.
LEMMA ForeverIsLongest ==
    /\ Forever \in Nat /\ Ttl \in Nat \ {0} /\ Ttl <= Forever
    /\ \A n \in AskedInterval : n \in Nat /\ n <= Forever
<1> DEFINE S == AskedInterval \cup {Ttl}
<1>1. \E n \in S : \A m \in S : m <= n
  BY KeySetAssumption
<1>2. Forever \in S /\ \A m \in S : m <= Forever
  BY <1>1 DEF Forever
<1> QED
  BY <1>2, KeySetAssumption

\* An age stays an age, and does not shrink.
LEMMA OlderIsAge ==
    ASSUME NEW a \in Age
    PROVE  Older(a) \in Age /\ a <= Older(a) /\ Older(Forever) = Forever /\ 0 \in Age
BY ForeverIsLongest DEF Older, Shorter, Age

\* The interval in force is no longer than a set is used.
LEMMA IntervalIsCut ==
    ASSUME asked \in AskedInterval
    PROVE  Interval \in Nat /\ Interval <= Ttl
BY ForeverIsLongest DEF Interval, Shorter
-----------------------------------------------------------------------------
(* Lookups and the queue for the fetching lock.                            *)

States == {"queued"} \cup Downloading \cup Answer

\* A lookup in progress goes on with the key it asked for.
LEMMA GotoKeeps ==
    ASSUME TypeOK, NEW l \in Lookup, look[l] # NoLookup, NEW p \in States,
           look' = [look EXCEPT ![l].pc = p]
    PROVE  /\ look' \in [Lookup -> LookupRecord \cup {NoLookup}]
           /\ look'[l] # NoLookup /\ look'[l].pc = p /\ look'[l].kid = look[l].kid
           /\ look[l].kid \in Kid
           /\ \A m \in Lookup : m # l => look'[m] = look[m]
<1>1. look \in [Lookup -> LookupRecord \cup {NoLookup}] /\ look[l] \in LookupRecord
  BY DEF TypeOK
<1>2. PICK r : r = [look[l] EXCEPT !.pc = p]
  OBVIOUS
<1>3. look' = [look EXCEPT ![l] = r]
  BY <1>1, <1>2
<1>4. r.pc = p /\ r.kid = look[l].kid /\ look[l].kid \in Kid
  BY <1>1, <1>2 DEF LookupRecord
<1>5. r \in LookupRecord
  BY <1>1, <1>2, <1>4 DEF LookupRecord, States
<1>6. p # "idle"
  BY DEF States, Downloading, Answer
<1>7. r # NoLookup
  BY <1>4, <1>6 DEF NoLookup
<1> QED
  BY <1>1, <1>3, <1>4, <1>5, <1>7

\* A place given up in the queue leaves its head alone, unless it was the head.
LEMMA PlaceGivenUp ==
    ASSUME NEW q \in Seq(Lookup), NEW n \in DOMAIN q
    PROVE  /\ RemoveAt(q, n) \in Seq(Lookup)
           /\ n # 1 => RemoveAt(q, n) # <<>> /\ RemoveAt(q, n)[1] = q[1]
<1>1. n \in 1 .. Len(q) /\ Len(q) \in Nat
  OBVIOUS
<1>2. PICK a : a = SubSeq(q, 1, n - 1)
  OBVIOUS
<1>3. PICK b : b = SubSeq(q, n + 1, Len(q))
  OBVIOUS
<1>4. \A i \in 1 .. n - 1 : q[i] \in Lookup
  BY <1>1
<1>5. a \in Seq(Lookup) /\ Len(a) = n - 1 /\ \A i \in 1 .. n - 1 : a[i] = q[i]
  BY <1>1, <1>2
<1>6. b \in Seq(Lookup)
  BY <1>1, <1>3
<1>7. RemoveAt(q, n) = a \o b
  BY <1>2, <1>3 DEF RemoveAt
<1>8. a \o b \in Seq(Lookup)
  BY <1>5, <1>6
<1>9. ASSUME n # 1 PROVE a \o b # <<>> /\ (a \o b)[1] = q[1]
  BY <1>1, <1>5, <1>6, <1>9, ConcatProperties
<1> QED
  BY <1>7, <1>8, <1>9

\* What answer_from_memory may say.
LEMMA MemoryAnswers ==
    ASSUME TypeOK, NEW k
    PROVE  /\ FromMemory(k) \in Answer \cup {"fetch"}
           /\ FromMemory(k) = "Found" => setAge < Ttl /\ k \in keys
           /\ FromMemory(k) = "fetch" => attemptAge >= Interval
           /\ FromMemory(k) = "Rejected" => setAge < Ttl /\ k \notin keys
           /\ FromMemory(k) = "Unavailable" => attemptAge < Interval /\ ~(setAge < Ttl)
<1>1. attemptAge \in Nat /\ Interval \in Nat
  BY ForeverIsLongest, IntervalIsCut DEF TypeOK, Age
<1> QED
  BY <1>1 DEF FromMemory, Answer

\* Every step keeps the types.
LEMMA TypeStep == TypeOK /\ OneFetch /\ [Next]_vars => TypeOK'
<1> SUFFICES ASSUME TypeOK, OneFetch, [Next]_vars PROVE TypeOK'
  OBVIOUS
<1>0. 0 \in Age /\ turn \in Seq(Lookup) /\ look \in [Lookup -> LookupRecord \cup {NoLookup}]
  BY ForeverIsLongest DEF Age, TypeOK
<1>1. CASE Tick
  <2>1. setAge' \in Age /\ attemptAge' \in Age /\ endAge' \in Age /\ stamp' \in Age
    BY <1>1, OlderIsAge DEF Tick, TypeOK
  <2> QED
    BY <1>1, <2>1 DEF Tick, TypeOK
<1>2. ASSUME NEW k \in Kid, Rotate(k) PROVE TypeOK'
  BY <1>2 DEF Rotate, TypeOK
<1>3. ASSUME NEW l \in Lookup, NEW k \in Kid, Ask(l, k) PROVE TypeOK'
  <2>1. \E p \in {"queued"} \cup Answer : look' = [look EXCEPT ![l] = [pc |-> p, kid |-> k]]
    BY <1>3, MemoryAnswers DEF Ask
  <2>2. look' \in [Lookup -> LookupRecord \cup {NoLookup}]
    BY <1>0, <2>1 DEF LookupRecord
  <2>3. turn' \in Seq(Lookup)
    BY <1>0, <1>3 DEF Ask
  <2> QED
    BY <1>3, <2>2, <2>3 DEF Ask, TypeOK
<1>5. ASSUME NEW l \in Lookup, Recheck(l) PROVE TypeOK'
  <2>1. look[l] # NoLookup /\ turn # <<>>
    BY <1>5 DEF Recheck, At
  <2>2. \E p \in States : look' = [look EXCEPT ![l].pc = p]
    <3>1. FromMemory(look[l].kid) \in Answer \cup {"fetch"}
      BY MemoryAnswers
    <3> QED
      BY <1>5, <3>1 DEF Recheck, Goto, States, Downloading
  <2>3. look' \in [Lookup -> LookupRecord \cup {NoLookup}]
    BY <2>1, <2>2, GotoKeeps
  <2>4. turn' = turn \/ turn' = Tail(turn)
    BY <1>5 DEF Recheck
  <2>5. turn' \in Seq(Lookup)
    BY <1>0, <2>1, <2>4
  <2> QED
    BY <1>5, <2>3, <2>5 DEF Recheck, TypeOK
<1>6. ASSUME NEW l \in Lookup, Serve(l) PROVE TypeOK'
  <2>1. look[l] # NoLookup /\ \E p \in States : look' = [look EXCEPT ![l].pc = p]
    BY <1>6 DEF Serve, At, Goto, States, Downloading
  <2>2. look' \in [Lookup -> LookupRecord \cup {NoLookup}]
    BY <2>1, GotoKeeps
  <2> QED
    BY <1>6, <2>2 DEF Serve, TypeOK
<1>7. ASSUME NEW l \in Lookup, NEW failed \in BOOLEAN, Finish(l, failed) PROVE TypeOK'
  <2>1. look[l] # NoLookup /\ \E p \in States : look' = [look EXCEPT ![l].pc = p]
    BY <1>7 DEF Finish, At, States, Downloading
  <2>2. look' \in [Lookup -> LookupRecord \cup {NoLookup}]
    BY <2>1, GotoKeeps
  <2> QED
    BY <1>0, <1>7, <2>2 DEF Finish, TypeOK
<1>8. ASSUME NEW l \in Lookup, Store(l) \/ StoreFailure(l) PROVE TypeOK'
  <2>1. look[l] # NoLookup /\ \E p \in States : look' = [look EXCEPT ![l].pc = p]
    BY <1>8 DEF Store, StoreFailure, At, Goto, States, Answer
  <2>2. look' \in [Lookup -> LookupRecord \cup {NoLookup}]
    BY <2>1, GotoKeeps
  <2>3. turn # <<>> /\ turn' = Tail(turn)
    BY <1>8 DEF Store, StoreFailure, At, OneFetch, Downloading
  <2>4. turn' \in Seq(Lookup)
    BY <1>0, <2>3
  <2> QED
    BY <1>0, <1>8, <2>2, <2>4 DEF Store, StoreFailure, FetchEnds, TypeOK
<1>9. ASSUME NEW l \in Lookup, DropLookup(l) PROVE TypeOK'
  <2>1. turn' \in Seq(Lookup)
    BY <1>0, <1>9, PlaceGivenUp DEF DropLookup
  <2>2. look' \in [Lookup -> LookupRecord \cup {NoLookup}]
    BY <1>0, <1>9 DEF DropLookup
  <2>3. got' \in SUBSET Kid /\ gotMoved' \in SUBSET Kid /\ stamp' \in Age
    BY <1>0, <1>9 DEF DropLookup, FetchEnds, TypeOK
  <2> QED
    BY <1>9, <2>1, <2>2, <2>3 DEF DropLookup, TypeOK
<1>10. ASSUME NEW l \in Lookup, Return(l) PROVE TypeOK'
  <2>1. look' \in [Lookup -> LookupRecord \cup {NoLookup}]
    BY <1>0, <1>10 DEF Return
  <2> QED
    BY <1>10, <2>1 DEF Return, TypeOK
<1>11. CASE UNCHANGED vars
  BY <1>11 DEF vars, TypeOK
<1> QED
  BY <1>1, <1>2, <1>3, <1>5, <1>6, <1>7, <1>8, <1>9, <1>10, <1>11 DEF Next, LookupStep

\* One fetch at a time, whoever waits, gives up or is answered.
LEMMA OneFetchStep == TypeOK /\ OneFetch /\ [Next]_vars => OneFetch'
<1> SUFFICES ASSUME TypeOK, OneFetch, [Next]_vars PROVE OneFetch'
  OBVIOUS
<1>0. turn \in Seq(Lookup) /\ look \in [Lookup -> LookupRecord \cup {NoLookup}]
  BY DEF TypeOK
<1>1. "idle" \notin Downloading /\ "queued" \notin Downloading /\ Answer \cap Downloading = {}
  BY DEF Downloading, Answer
<1>2. ASSUME UNCHANGED <<look, turn>> PROVE OneFetch'
  BY <1>2 DEF OneFetch
<1>3. CASE Tick \/ UNCHANGED vars
  BY <1>2, <1>3 DEF Tick, vars
<1>4. ASSUME NEW k \in Kid, Rotate(k) PROVE OneFetch'
  BY <1>2, <1>4 DEF Rotate
<1>5. ASSUME NEW l \in Lookup, NEW k \in Kid, Ask(l, k) PROVE OneFetch'
  <2>1. PICK p \in {"queued"} \cup Answer : look' = [look EXCEPT ![l] = [pc |-> p, kid |-> k]]
    BY <1>5, MemoryAnswers DEF Ask
  <2>2. look'[l].pc \notin Downloading /\ \A m \in Lookup : m # l => look'[m] = look[m]
    BY <1>0, <1>1, <2>1
  <2>3. turn # <<>> => turn' # <<>> /\ turn'[1] = turn[1]
    BY <1>0, <1>5 DEF Ask
  <2> QED
    BY <2>2, <2>3 DEF OneFetch
<1>6. ASSUME NEW l \in Lookup, look[l] # NoLookup,
             turn # <<>> /\ turn[1] = l,
             NEW p \in States, look' = [look EXCEPT ![l].pc = p],
             turn' = turn \/ p \notin Downloading
      PROVE  OneFetch'
  <2>1. look'[l].pc = p /\ \A m \in Lookup : m # l => look'[m] = look[m]
    BY <1>6, GotoKeeps
  <2>2. \A m \in Lookup : m # l => look[m].pc \notin Downloading
    BY <1>6 DEF OneFetch
  <2> QED
    BY <1>6, <2>1, <2>2 DEF OneFetch
<1>7. ASSUME NEW l \in Lookup, Recheck(l) PROVE OneFetch'
  <2>1. look[l] # NoLookup /\ turn # <<>> /\ turn[1] = l
    BY <1>0, <1>7 DEF Recheck, At
  <2>2. FromMemory(look[l].kid) \in Answer \cup {"fetch"}
    BY MemoryAnswers
  <2>3. \E p \in States : /\ look' = [look EXCEPT ![l].pc = p]
                          /\ turn' = turn \/ p \notin Downloading
    BY <1>1, <1>7, <2>2 DEF Recheck, Goto, States, Downloading
  <2> QED
    BY <1>6, <2>1, <2>3
<1>8. ASSUME NEW l \in Lookup, Serve(l) \/ \E failed \in BOOLEAN : Finish(l, failed)
      PROVE  OneFetch'
  <2>1. look[l] # NoLookup /\ look[l].pc \in Downloading
    BY <1>8 DEF Serve, Finish, At, Downloading
  <2>2. turn # <<>> /\ turn[1] = l
    BY <2>1 DEF OneFetch
  <2>3. \E p \in States : look' = [look EXCEPT ![l].pc = p] /\ turn' = turn
    BY <1>8 DEF Serve, Finish, Goto, States, Downloading
  <2> QED
    BY <1>6, <2>1, <2>2, <2>3
<1>9. ASSUME NEW l \in Lookup, Store(l) \/ StoreFailure(l) PROVE OneFetch'
  <2>1. look[l] # NoLookup /\ look[l].pc \in Downloading
    BY <1>9 DEF Store, StoreFailure, At, Downloading
  <2>2. turn # <<>> /\ turn[1] = l
    BY <2>1 DEF OneFetch
  <2>3. \E p \in States : look' = [look EXCEPT ![l].pc = p] /\ p \notin Downloading
    BY <1>1, <1>9 DEF Store, StoreFailure, Goto, States, Answer
  <2> QED
    BY <1>6, <2>1, <2>2, <2>3
<1>10. ASSUME NEW l \in Lookup, look' = [look EXCEPT ![l] = NoLookup],
              \A m \in Lookup : m # l /\ turn # <<>> /\ turn[1] = m =>
                  turn' # <<>> /\ turn'[1] = turn[1]
       PROVE  OneFetch'
  <2>1. look'[l].pc \notin Downloading /\ \A m \in Lookup : m # l => look'[m] = look[m]
    BY <1>0, <1>1, <1>10 DEF NoLookup
  <2> QED
    BY <1>10, <2>1 DEF OneFetch
<1>11. ASSUME NEW l \in Lookup, DropLookup(l) PROVE OneFetch'
  <2>1. look' = [look EXCEPT ![l] = NoLookup]
    BY <1>11 DEF DropLookup
  <2>2. PICK n \in DOMAIN turn : turn[n] = l /\ turn' = RemoveAt(turn, n)
    BY <1>11 DEF DropLookup
  <2>3. n # 1 => turn' # <<>> /\ turn'[1] = turn[1]
    BY <1>0, <2>2, PlaceGivenUp
  <2> QED
    BY <1>10, <2>1, <2>2, <2>3
<1>12. ASSUME NEW l \in Lookup, Return(l) PROVE OneFetch'
  BY <1>10, <1>12 DEF Return
<1> QED
  BY <1>3, <1>4, <1>5, <1>7, <1>8, <1>9, <1>11, <1>12 DEF Next, LookupStep

\* The instants a fetch leaves behind, and its outcome, are noted together.
LEMMA NotedStep == TypeOK /\ Noted /\ [Next]_vars => Noted'
<1> SUFFICES ASSUME TypeOK, Noted, [Next]_vars PROVE Noted'
  OBVIOUS
<1>1. CASE Tick
  <2>1. Older(Forever) = Forever
    BY OlderIsAge DEF TypeOK
  <2> QED
    BY <1>1, <2>1 DEF Tick, Noted
<1>2. ASSUME UNCHANGED <<setAge, attemptAge, outcome, endAge>> PROVE Noted'
  BY <1>2 DEF Noted
<1>3. ASSUME NEW k \in Kid, Rotate(k) PROVE Noted'
  BY <1>2, <1>3 DEF Rotate
<1>4. ASSUME NEW l \in Lookup,
             \/ \E k \in Kid : Ask(l, k)
             \/ Recheck(l) \/ Serve(l) \/ DropLookup(l) \/ Return(l)
             \/ \E failed \in BOOLEAN : Finish(l, failed)
      PROVE  Noted'
  BY <1>2, <1>4 DEF Ask, Recheck, Serve, DropLookup, Return, Finish
<1>5. ASSUME NEW l \in Lookup, Store(l) PROVE Noted'
  BY <1>5 DEF Store, Noted
<1>6. ASSUME NEW l \in Lookup, StoreFailure(l) PROVE Noted'
  BY <1>6 DEF StoreFailure, Noted
<1>7. CASE UNCHANGED vars
  BY <1>2, <1>7 DEF vars
<1> QED
  BY <1>1, <1>3, <1>4, <1>5, <1>6, <1>7 DEF Next, LookupStep

\* A set Google served stays current while Google's changes are written down.
LEMMA RotationStep == KeySetInv /\ [Next]_vars => UpToRotation'
<1> SUFFICES ASSUME TypeOK, OneFetch, UpToRotation, [Next]_vars PROVE UpToRotation'
  BY DEF KeySetInv
<1> DEFINE Held == {"served", "finished"}
<1>0. /\ look \in [Lookup -> LookupRecord \cup {NoLookup}]
      /\ published \in SUBSET Kid /\ keys \in SUBSET Kid /\ got \in SUBSET Kid
      /\ gotMoved \in SUBSET Kid /\ moved \in SUBSET Kid
      /\ setAge \in Nat /\ Ttl \in Nat
  BY ForeverIsLongest DEF TypeOK, Age
<1>1. "idle" \notin Held /\ "queued" \notin Held /\ Answer \cap Held = {} /\ Held \subseteq Downloading
  BY DEF Downloading, Answer
\* The cached set is untouched, and no lookup comes to hold the download.
<1>2. ASSUME UNCHANGED <<published, keys, setAge, moved>>,
             UNCHANGED <<got, gotMoved>> \/ \A m \in Lookup : look'[m].pc \notin Held,
             \A m \in Lookup : look'[m].pc \in Held => look[m].pc \in Held
      PROVE  UpToRotation'
  <2>1. ASSUME NEW m \in Lookup, look'[m].pc \in Held PROVE Current(got, gotMoved)'
    BY <1>2, <2>1 DEF UpToRotation, Current
  <2>2. (\A k \in keys : k \in published \/ k \in moved)'
    BY <1>2 DEF UpToRotation
  <2>3. (setAge < Ttl => Current(keys, moved))'
    BY <1>2 DEF UpToRotation, Current
  <2> QED
    BY <2>1, <2>2, <2>3 DEF UpToRotation
\* A lookup that downloads is the only one to do so.
<1>3. ASSUME NEW l \in Lookup, look[l].pc \in Downloading, NEW m \in Lookup, m # l
      PROVE  look[m].pc \notin Held
  BY <1>1, <1>3 DEF OneFetch
<1>4. CASE Tick
  <2>1. setAge' \in Nat /\ setAge <= setAge'
    BY <1>4, OlderIsAge, ForeverIsLongest DEF Tick, TypeOK, Age
  <2>2. setAge' < Ttl => setAge < Ttl
    BY <1>0, <2>1
  <2> QED
    BY <1>4, <2>2 DEF Tick, UpToRotation, Current
<1>5. ASSUME NEW k \in Kid, Rotate(k) PROVE UpToRotation'
  <2>1. /\ \A i \in Kid : i # k => (i \in published' <=> i \in published)
        /\ moved' = moved \cup {k} /\ keys' = keys /\ setAge' = setAge
        /\ got' = got /\ look' = look
    BY <1>0, <1>5 DEF Rotate
  <2>2. ASSUME NEW m \in Lookup, look'[m].pc \in Held PROVE Current(got, gotMoved)'
    <3>1. At(m, "served") \/ At(m, "finished")
      BY <2>1, <2>2 DEF At, NoLookup
    <3>2. gotMoved' = gotMoved \cup {k}
      BY <1>5, <3>1 DEF Rotate
    <3> QED
      BY <1>0, <2>1, <2>2, <3>2 DEF UpToRotation, Current
  <2>3. (\A i \in keys : i \in published \/ i \in moved)'
    BY <1>0, <2>1 DEF UpToRotation
  <2>4. (setAge < Ttl => Current(keys, moved))'
    BY <1>0, <2>1 DEF UpToRotation, Current
  <2> QED
    BY <2>2, <2>3, <2>4 DEF UpToRotation
<1>6. ASSUME NEW l \in Lookup, NEW k \in Kid, Ask(l, k) PROVE UpToRotation'
  <2>1. PICK p \in {"queued"} \cup Answer : look' = [look EXCEPT ![l] = [pc |-> p, kid |-> k]]
    BY <1>6, MemoryAnswers DEF Ask
  <2>2. look'[l].pc \notin Held /\ \A m \in Lookup : m # l => look'[m] = look[m]
    BY <1>0, <1>1, <2>1
  <2> QED
    BY <1>2, <1>6, <2>2 DEF Ask
<1>7. ASSUME NEW l \in Lookup, Recheck(l) PROVE UpToRotation'
  <2>1. FromMemory(look[l].kid) \in Answer \cup {"fetch"} /\ look[l] # NoLookup
    BY <1>7, MemoryAnswers DEF Recheck, At
  <2>2. PICK p \in {"asking"} \cup Answer : look' = [look EXCEPT ![l].pc = p]
    BY <1>7, <2>1 DEF Recheck, Goto
  <2>3. p \in States /\ p \notin Held
    BY <1>1 DEF States, Downloading
  <2>4. look'[l].pc \notin Held /\ \A m \in Lookup : m # l => look'[m] = look[m]
    BY <2>1, <2>2, <2>3, GotoKeeps
  <2> QED
    BY <1>2, <1>7, <2>4 DEF Recheck
<1>8. ASSUME NEW l \in Lookup, Serve(l) PROVE UpToRotation'
  <2>1. Current(got, gotMoved)'
    BY <1>0, <1>8 DEF Serve, Current
  <2>2. UNCHANGED <<published, keys, setAge, moved>>
    BY <1>8 DEF Serve
  <2> QED
    BY <2>1, <2>2 DEF UpToRotation, Current
<1>9. ASSUME NEW l \in Lookup, NEW failed \in BOOLEAN, Finish(l, failed) PROVE UpToRotation'
  <2>1. look[l] # NoLookup
    BY <1>9 DEF Finish, At
  <2>2. PICK p \in {"failed", "finished"} :
           /\ look' = [look EXCEPT ![l].pc = p]
           /\ p = "finished" => look[l].pc = "served"
    BY <1>9 DEF Finish, At
  <2>3. p \in States
    BY DEF States, Downloading
  <2>4. look'[l].pc = p /\ \A m \in Lookup : m # l => look'[m] = look[m]
    BY <2>1, <2>2, <2>3, GotoKeeps
  <2> QED
    BY <1>2, <1>9, <2>2, <2>4 DEF Finish
<1>10. ASSUME NEW l \in Lookup, Store(l) PROVE UpToRotation'
  <2>1. look[l] # NoLookup /\ look[l].pc = "finished"
    BY <1>10 DEF Store, At
  <2>2. PICK p \in Answer : look' = [look EXCEPT ![l].pc = p]
    BY <1>10 DEF Store, Goto, Answer
  <2> p \in States
    BY DEF States
  <2>3. look'[l].pc = p /\ \A m \in Lookup : m # l => look'[m] = look[m]
    BY <2>1, <2>2, GotoKeeps
  <2>4. \A m \in Lookup : look'[m].pc \notin Held
    BY <1>1, <1>3, <2>1, <2>2, <2>3 DEF Downloading
  <2>5. Current(got, gotMoved)
    BY <2>1 DEF UpToRotation
  <2>6. keys' = got /\ moved' = gotMoved /\ published' = published
    BY <1>10 DEF Store
  <2>7. Current(keys, moved)'
    BY <2>5, <2>6 DEF Current
  <2> QED
    BY <2>4, <2>7 DEF UpToRotation, Current
<1>11. ASSUME NEW l \in Lookup, StoreFailure(l) PROVE UpToRotation'
  <2>1. look[l] # NoLookup /\ look[l].pc \in Downloading
    BY <1>11 DEF StoreFailure, At, Downloading
  <2>2. look'[l].pc = "Unavailable" /\ \A m \in Lookup : m # l => look'[m] = look[m]
    BY <1>11, <2>1, GotoKeeps DEF StoreFailure, Goto, States, Answer
  <2>3. \A m \in Lookup : look'[m].pc \notin Held
    BY <1>3, <2>1, <2>2
  <2> QED
    BY <1>2, <1>11, <2>3 DEF StoreFailure
<1>12. ASSUME NEW l \in Lookup, DropLookup(l) PROVE UpToRotation'
  <2>1. look'[l].pc \notin Held /\ \A m \in Lookup : m # l => look'[m] = look[m]
    BY <1>0, <1>1, <1>12 DEF DropLookup, NoLookup
  <2>2. look[l].pc \in Downloading => \A m \in Lookup : look'[m].pc \notin Held
    BY <1>3, <2>1
  <2> QED
    BY <1>2, <1>12, <2>1, <2>2 DEF DropLookup
<1>13. ASSUME NEW l \in Lookup, Return(l) PROVE UpToRotation'
  <2>1. look'[l].pc \notin Held /\ \A m \in Lookup : m # l => look'[m] = look[m]
    BY <1>0, <1>1, <1>13 DEF Return, NoLookup
  <2> QED
    BY <1>2, <1>13, <2>1 DEF Return
<1>14. CASE UNCHANGED vars
  BY <1>2, <1>14 DEF vars
<1> QED
  BY <1>4, <1>5, <1>6, <1>7, <1>8, <1>9, <1>10, <1>11, <1>12, <1>13, <1>14 DEF Next, LookupStep
-----------------------------------------------------------------------------
\* The key set's state always holds together: see KeySetInv.
THEOREM KeySetInvariant == Spec => []KeySetInv
<1>1. Init => KeySetInv
  <2> SUFFICES ASSUME Init PROVE KeySetInv
    OBVIOUS
  <2>1. Forever \in Age /\ 0 \in Age /\ ~(Forever < Ttl)
    BY ForeverIsLongest DEF Age
  <2>2. TypeOK
    BY <2>1 DEF Init, TypeOK
  <2>3. \A l \in Lookup : look[l].pc = "idle"
    BY DEF Init, NoLookup
  <2>4. OneFetch /\ UpToRotation
    BY <2>1, <2>3 DEF Init, OneFetch, UpToRotation, Downloading
  <2> QED
    BY <2>2, <2>4 DEF Init, KeySetInv, Noted
<1>2. KeySetInv /\ [Next]_vars => KeySetInv'
  BY TypeStep, OneFetchStep, NotedStep, RotationStep DEF KeySetInv
<1> QED
  BY <1>1, <1>2, PTL DEF Spec

\* Every variable of the key set stays in its range.
THEOREM KeySetTypes == Spec => []TypeOK
<1>1. KeySetInv => TypeOK
  BY DEF KeySetInv
<1> QED
  BY <1>1, KeySetInvariant, PTL

\* What a step does to the place a lookup is at: only its own turn sends it to
\* fetch, and only memory or its own fetch gives it an answer.
LEMMA WhoMoves ==
    ASSUME KeySetInv, [Next]_vars, NEW l \in Lookup, look'[l] # look[l], look'[l] # NoLookup
    PROVE  \/ \E k \in Kid : Ask(l, k)
           \/ Recheck(l) \/ Serve(l) \/ Store(l) \/ StoreFailure(l)
           \/ \E failed \in BOOLEAN : Finish(l, failed)
<1>0. look \in [Lookup -> LookupRecord \cup {NoLookup}]
  BY DEF KeySetInv, TypeOK
<1>1. look' # look
  OBVIOUS
<1>2. PICK m \in Lookup :
         \/ \E k \in Kid : Ask(m, k)
         \/ Recheck(m) \/ Serve(m) \/ Store(m) \/ StoreFailure(m)
         \/ \E failed \in BOOLEAN : Finish(m, failed)
         \/ DropLookup(m) \/ Return(m)
  BY <1>1 DEF Next, LookupStep, Tick, Rotate, vars
<1>3. \E r : look' = [look EXCEPT ![m] = r]
  <2>1. ASSUME NEW q, look' = [look EXCEPT ![m].pc = q] PROVE \E r : look' = [look EXCEPT ![m] = r]
    BY <2>1
  <2> QED
    BY <1>2, <2>1 DEF Ask, Recheck, Serve, Store, StoreFailure, Finish, DropLookup, Return, Goto
<1>4. m = l
  BY <1>0, <1>3
<1>5. ~DropLookup(l) /\ ~Return(l)
  BY <1>0 DEF DropLookup, Return
<1> QED
  BY <1>2, <1>4, <1>5

\* Whose lookup gets an answer, gets it from memory, or from the fetch it made.
LEMMA WhereAnswersComeFrom ==
    ASSUME KeySetInv, [Next]_vars, NEW l \in Lookup, NEW a \in Answer, Answers(l, a)
    PROVE  /\ look'[l].kid \in Kid
           /\ \/ /\ FromMemory(look'[l].kid) = a
                 /\ UNCHANGED <<published, keys, setAge, attemptAge, outcome, moved>>
              \/ /\ Store(l) /\ a \in {"Found", "Rejected"}
                 /\ a = "Found" <=> look'[l].kid \in got
              \/ StoreFailure(l) /\ a = "Unavailable"
<1>0. TypeOK /\ look \in [Lookup -> LookupRecord \cup {NoLookup}]
  BY DEF KeySetInv, TypeOK
<1>1. look'[l] # NoLookup /\ look'[l].pc = a /\ look'[l] # look[l]
  BY DEF Answers, At
<1>2. a \in States /\ a \notin Downloading /\ a # "queued" /\ a # "fetch"
  BY DEF Answer, States, Downloading
<1>3. ASSUME NEW k \in Kid, Ask(l, k)
      PROVE  /\ look'[l].kid = k /\ FromMemory(k) = a
             /\ UNCHANGED <<published, keys, setAge, attemptAge, outcome, moved>>
  <2>1. PICK p : /\ look' = [look EXCEPT ![l] = [pc |-> p, kid |-> k]]
                 /\ p = "queued" \/ p = FromMemory(k)
    BY <1>3 DEF Ask
  <2>2. look'[l] = [pc |-> p, kid |-> k]
    BY <1>0, <2>1
  <2>3. UNCHANGED <<published, keys, setAge, attemptAge, outcome, moved>>
    BY <1>3 DEF Ask
  <2> QED
    BY <1>1, <1>2, <2>1, <2>2, <2>3
\* The other ways to an answer go on from where the lookup was.
<1>4. ASSUME NEW p \in States, look[l] # NoLookup, look' = [look EXCEPT ![l].pc = p]
      PROVE  p = a /\ look'[l].kid = look[l].kid /\ look[l].kid \in Kid
  BY <1>0, <1>1, <1>4, GotoKeeps
<1>5. ASSUME Recheck(l)
      PROVE  /\ look'[l].kid = look[l].kid /\ look[l].kid \in Kid
             /\ FromMemory(look[l].kid) = a
             /\ UNCHANGED <<published, keys, setAge, attemptAge, outcome, moved>>
  <2>1. look[l] # NoLookup /\ FromMemory(look[l].kid) \in Answer \cup {"fetch"}
    BY <1>0, <1>5, MemoryAnswers DEF Recheck, At
  <2>2. PICK p : /\ look' = [look EXCEPT ![l].pc = p]
                 /\ p = "asking" \/ (p = FromMemory(look[l].kid) /\ p # "fetch")
    BY <1>5 DEF Recheck, Goto
  <2>3. p \in States
    BY <2>1, <2>2 DEF States, Downloading
  <2>4. p = a /\ look'[l].kid = look[l].kid /\ look[l].kid \in Kid
    BY <1>4, <2>1, <2>2, <2>3
  <2>5. p # "asking"
    BY <1>2, <2>4 DEF Downloading
  <2> QED
    BY <1>5, <2>2, <2>4, <2>5 DEF Recheck
<1>6. ~Serve(l)
  <2>1. ASSUME Serve(l) PROVE FALSE
    BY <1>2, <1>4, <2>1 DEF Serve, At, Goto, States, Downloading
  <2> QED
    BY <2>1
<1>7. ASSUME NEW failed \in BOOLEAN PROVE ~Finish(l, failed)
  <2>1. ASSUME Finish(l, failed) PROVE FALSE
    BY <1>2, <1>4, <2>1 DEF Finish, At, States, Downloading
  <2> QED
    BY <2>1
<1>8. ASSUME Store(l)
      PROVE  /\ look'[l].kid \in Kid /\ a \in {"Found", "Rejected"}
             /\ a = "Found" <=> look'[l].kid \in got
  <2>1. look[l] # NoLookup
    BY <1>8 DEF Store, At
  <2>2. PICK p : /\ look' = [look EXCEPT ![l].pc = p]
                 /\ p = IF look[l].kid \in got THEN "Found" ELSE "Rejected"
    BY <1>8 DEF Store, Goto
  <2>3. p \in States
    BY <2>2 DEF States, Answer
  <2>4. p = a /\ look'[l].kid = look[l].kid /\ look[l].kid \in Kid
    BY <1>4, <2>1, <2>2, <2>3
  <2> QED
    BY <2>2, <2>4
<1>9. ASSUME StoreFailure(l) PROVE look'[l].kid \in Kid /\ a = "Unavailable"
  <2>1. look[l] # NoLookup /\ look' = [look EXCEPT ![l].pc = "Unavailable"]
    BY <1>9 DEF StoreFailure, At, Goto
  <2>2. "Unavailable" \in States
    BY DEF States, Answer
  <2> QED
    BY <1>4, <2>1, <2>2
<1> QED
  BY <1>1, <1>3, <1>5, <1>6, <1>7, <1>8, <1>9, WhoMoves

\* One fetch runs at a time, and none starts within the interval of the end of the
\* last one that was not dropped, as a dropped one leaves no last_attempt: what
\* answer_from_memory and the fetching lock are for.
THEOREM FetchesAreSpaced == Spec => FetchesSpaced
<1> DEFINE Fits(l) ==
      Starts(l) => /\ endAge >= Interval
                   /\ \A m \in Lookup : look[m] = NoLookup \/ look[m].pc \notin Downloading
<1>1. KeySetInv /\ [Next]_vars => [\A l \in Lookup : Fits(l)]_vars
  <2> SUFFICES ASSUME KeySetInv, [Next]_vars, NEW l \in Lookup, Starts(l)
               PROVE  /\ endAge >= Interval
                      /\ \A m \in Lookup : look[m] = NoLookup \/ look[m].pc \notin Downloading
    OBVIOUS
  <2>0. TypeOK /\ OneFetch /\ Noted /\ look \in [Lookup -> LookupRecord \cup {NoLookup}]
            /\ turn \in Seq(Lookup)
    BY DEF KeySetInv, TypeOK
  <2>1. look'[l] # NoLookup /\ look'[l].pc = "asking" /\ look'[l] # look[l]
    BY DEF Starts, At
  <2>2. ASSUME NEW p \in States, look[l] # NoLookup, look' = [look EXCEPT ![l].pc = p]
        PROVE  p = "asking"
    BY <2>0, <2>1, <2>2, GotoKeeps
  <2>3. ~\E k \in Kid : Ask(l, k)
    <3>1. ASSUME NEW k \in Kid, Ask(l, k) PROVE FALSE
      <4>1. PICK p \in {"queued"} \cup Answer : look' = [look EXCEPT ![l] = [pc |-> p, kid |-> k]]
        BY <2>0, <3>1, MemoryAnswers DEF Ask
      <4>2. look'[l].pc = p
        BY <2>0, <4>1
      <4> QED
        BY <2>1, <4>2 DEF Answer
    <3> QED
      BY <3>1
  <2>4. ~Serve(l) /\ ~Store(l) /\ ~StoreFailure(l) /\ ~\E failed \in BOOLEAN : Finish(l, failed)
    <3>1. ASSUME Serve(l) \/ Store(l) \/ StoreFailure(l) \/ \E failed \in BOOLEAN : Finish(l, failed)
          PROVE  FALSE
      <4>1. look[l] # NoLookup
        BY <3>1 DEF Serve, Store, StoreFailure, Finish, At
      <4>2. PICK p \in {"served", "finished", "failed"} \cup Answer : look' = [look EXCEPT ![l].pc = p]
        BY <3>1 DEF Serve, Store, StoreFailure, Finish, Goto, Answer
      <4>3. p \in States
        BY DEF States, Downloading
      <4> QED
        BY <2>2, <4>1, <4>2, <4>3 DEF Answer
    <3> QED
      BY <3>1
  <2>5. Recheck(l)
    BY <2>1, <2>3, <2>4, WhoMoves
  <2>6. FromMemory(look[l].kid) = "fetch"
    <3>1. look[l] # NoLookup /\ FromMemory(look[l].kid) \in Answer \cup {"fetch"}
      BY <2>0, <2>5, MemoryAnswers DEF Recheck, At
    <3>2. ASSUME FromMemory(look[l].kid) # "fetch" PROVE FALSE
      <4>1. look' = [look EXCEPT ![l].pc = FromMemory(look[l].kid)]
        BY <2>5, <3>2 DEF Recheck, Goto
      <4>2. FromMemory(look[l].kid) \in Answer
        BY <3>1, <3>2
      <4>3. FromMemory(look[l].kid) = "asking"
        BY <2>2, <3>1, <4>1, <4>2 DEF States
      <4> QED
        BY <4>2, <4>3 DEF Answer
    <3> QED
      BY <3>2
  <2>7. endAge >= Interval
    BY <2>0, <2>6, MemoryAnswers DEF Noted
  <2>8. turn[1] = l /\ look[l].pc = "queued"
    BY <2>0, <2>5 DEF Recheck, At
  <2>9. ASSUME NEW m \in Lookup PROVE look[m].pc \notin Downloading
    BY <2>0, <2>8 DEF OneFetch, Downloading
  <2> QED
    BY <2>7, <2>9
<1> QED
  BY <1>1, KeySetInvariant, PTL DEF Spec, FetchesSpaced

\* A found key was published when the last good fetch was served and a refused
\* one was not, unless that fetch failed; and a lookup is told that the set is
\* unavailable only after a fetch that failed.
THEOREM AnswersReflectTheSet == Spec => AnswerReflectsSet
<1> DEFINE Fits(l) ==
      LET k == look[l].kid' IN
      /\ Answers(l, "Found") => k \in published \/ k \in moved'
      /\ Answers(l, "Rejected") => k \notin published \/ k \in moved' \/ outcome' = "failed"
      /\ Answers(l, "Unavailable") => outcome' = "failed"
<1>1. KeySetInv /\ [Next]_vars => [\A l \in Lookup : Fits(l)]_vars
  <2> SUFFICES ASSUME KeySetInv, [Next]_vars, NEW l \in Lookup PROVE Fits(l)
    OBVIOUS
  <2> DEFINE k == look'[l].kid
  <2>0. TypeOK /\ Noted /\ UpToRotation
    BY DEF KeySetInv
  <2>1. ASSUME NEW a \in Answer, Answers(l, a)
        PROVE  /\ k \in Kid
               /\ \/ /\ FromMemory(k) = a
                     /\ UNCHANGED <<published, keys, setAge, attemptAge, outcome, moved>>
                  \/ /\ Store(l) /\ a \in {"Found", "Rejected"}
                     /\ a = "Found" <=> k \in got
                  \/ StoreFailure(l) /\ a = "Unavailable"
    BY <2>1, WhereAnswersComeFrom
  <2>2. Store(l) => Current(got, gotMoved) /\ moved' = gotMoved
    BY <2>0 DEF Store, At, UpToRotation
  <2>3. StoreFailure(l) => outcome' = "failed"
    BY DEF StoreFailure
  <2>4. "Found" \in Answer /\ "Rejected" \in Answer /\ "Unavailable" \in Answer
    BY DEF Answer
  <2>5. ASSUME Answers(l, "Found") PROVE k \in published \/ k \in moved'
    <3>1. CASE FromMemory(k) = "Found" /\ UNCHANGED <<published, keys, setAge, attemptAge, outcome, moved>>
      <4>1. k \in keys
        BY <2>0, <3>1, MemoryAnswers
      <4> QED
        BY <2>0, <3>1, <4>1 DEF UpToRotation
    <3>2. CASE Store(l) /\ k \in got
      BY <2>2, <3>2 DEF Current
    <3> QED
      BY <2>1, <2>4, <2>5, <3>1, <3>2
  <2>6. ASSUME Answers(l, "Rejected") PROVE k \notin published \/ k \in moved'
    <3>1. CASE FromMemory(k) = "Rejected" /\ UNCHANGED <<published, keys, setAge, attemptAge, outcome, moved>>
      <4>1. setAge < Ttl /\ k \notin keys /\ k \in Kid
        BY <2>0, <2>1, <2>4, <2>6, <3>1, MemoryAnswers
      <4> QED
        BY <2>0, <3>1, <4>1 DEF UpToRotation, Current
    <3>2. CASE Store(l) /\ k \notin got
      BY <2>1, <2>2, <2>4, <2>6, <3>2 DEF Current
    <3> QED
      BY <2>1, <2>4, <2>6, <3>1, <3>2
  <2>7. ASSUME Answers(l, "Unavailable") PROVE outcome' = "failed"
    <3>1. CASE FromMemory(k) = "Unavailable" /\ UNCHANGED <<published, keys, setAge, attemptAge, outcome, moved>>
      <4>1. attemptAge < Interval /\ ~(setAge < Ttl)
        BY <2>0, <3>1, MemoryAnswers
      <4>2. attemptAge \in Nat /\ Interval \in Nat /\ Interval <= Ttl /\ Ttl \in Nat
            /\ Forever \in Nat /\ Ttl <= Forever
        BY <2>0, IntervalIsCut, ForeverIsLongest DEF TypeOK, Age
      <4>3. attemptAge < Ttl /\ attemptAge # Forever
        BY <4>1, <4>2
      <4>4. outcome # "ok" /\ outcome # "none"
        BY <2>0, <4>1, <4>3 DEF Noted
      <4> QED
        BY <2>0, <3>1, <4>4 DEF TypeOK
    <3> QED
      BY <2>1, <2>3, <2>4, <2>7, <3>1
  <2> QED
    BY <2>5, <2>6, <2>7
<1> QED
  BY <1>1, KeySetInvariant, PTL DEF Spec, AnswerReflectsSet
=============================================================================
