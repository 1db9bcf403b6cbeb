------------------------------- MODULE KeySet -------------------------------
(***************************************************************************)
(* GoogleKeySet of src/iam/key_set.rs: the signing keys behind one URL,    *)
(* cached for an hour, refetched when a lookup misses but never within the *)
(* refetch interval of the fetch before, one fetch at a time.              *)
(*                                                                         *)
(* Lookups run concurrently. The state lock is held for one step at a      *)
(* time; the fetching lock, a fair tokio Mutex, is held across the         *)
(* download. Time is kept as ages, which grow by one at a Tick and stop    *)
(* at Forever: no fetch yet and one long ago are the same to the code.     *)
(***************************************************************************)
EXTENDS Naturals, SequencesExt

CONSTANTS
    Kid,            \* key ids
    Lookup,         \* lookups that can be in progress at once
    Ttl,            \* KEY_SET_TTL, in ticks
    AskedInterval   \* intervals with_min_refetch_interval may be given

ASSUME KeySetAssumption ==
    /\ Ttl \in Nat \ {0}
    /\ AskedInterval \in SUBSET Nat /\ AskedInterval # {}
    /\ \E n \in AskedInterval \cup {Ttl} : \A m \in AskedInterval \cup {Ttl} : m <= n

VARIABLES
    asked,       \* the interval with_min_refetch_interval was given
    published,   \* the keys Google serves now
    keys,        \* FetchedKeys::keys
    setAge,      \* the age of fetched_at
    attemptAge,  \* the age of last_attempt
    turn,        \* the fetching lock: its holder, then those that wait for it
    look,        \* the lookups in progress
    got,         \* what the download in progress was served
    stamp,       \* the age of `finished`
    outcome,     \* history: how the last recorded fetch ended
    endAge,      \* history: the age of the end of the last fetch not dropped
    gotMoved,    \* history: keys Google changed since it served the download
    moved        \* history: keys Google changed since it served the cached set

vars == <<asked, published, keys, setAge, attemptAge, turn, look, got, stamp,
          outcome, endAge, gotMoved, moved>>

-----------------------------------------------------------------------------
Shorter(m, n) == IF m < n THEN m ELSE n

\* with_min_refetch_interval: cut to the time a set is reused for.
Interval == Shorter(asked, Ttl)

Forever ==
    CHOOSE n \in AskedInterval \cup {Ttl} : \A m \in AskedInterval \cup {Ttl} : m <= n

Age == 0..Forever

Older(a) == Shorter(a + 1, Forever)

Answer == {"Found", "Rejected", "Unavailable"}

Downloading == {"asking", "served", "finished", "failed"}

NoLookup == [pc |-> "idle"]

LookupRecord ==
    [pc : {"queued"} \cup Downloading, kid : Kid] \cup [pc : Answer, kid : Kid]

At(l, pc) == look[l] # NoLookup /\ look[l].pc = pc

Goto(l, pc) == look' = [look EXCEPT ![l].pc = pc]

\* Time passes, for every instant anyone remembers.
Tick ==
    /\ setAge' = Older(setAge)
    /\ attemptAge' = Older(attemptAge)
    /\ stamp' = IF \E l \in Lookup : At(l, "finished") \/ At(l, "failed") THEN Older(stamp) ELSE stamp
    /\ endAge' = Older(endAge)
    /\ UNCHANGED <<asked, published, keys, turn, look, got, outcome, gotMoved, moved>>

\* Google publishes or withdraws a key.
Rotate(k) ==
    /\ published' = IF k \in published THEN published \ {k} ELSE published \cup {k}
    /\ gotMoved' = IF \E l \in Lookup : At(l, "served") \/ At(l, "finished")
                   THEN gotMoved \cup {k} ELSE gotMoved
    /\ moved' = moved \cup {k}
    /\ UNCHANGED <<asked, keys, setAge, attemptAge, turn, look, got, stamp, outcome, endAge>>

-----------------------------------------------------------------------------
(* GoogleKeySet::key.                                                      *)

\* answer_from_memory: an answer, or "fetch" when one is needed and allowed.
FromMemory(k) ==
    LET coolingDown == attemptAge < Interval
        current == setAge < Ttl
    IN IF current /\ k \in keys THEN "Found"
       ELSE IF ~coolingDown THEN "fetch"
       ELSE IF current THEN "Rejected" ELSE "Unavailable"

\* A lookup starts: answered from memory, or it waits for its turn to fetch.
Ask(l, k) ==
    /\ look[l] = NoLookup
    /\ IF FromMemory(k) = "fetch"
       THEN /\ look' = [look EXCEPT ![l] = [pc |-> "queued", kid |-> k]]
            /\ turn' = Append(turn, l)
       ELSE /\ look' = [look EXCEPT ![l] = [pc |-> FromMemory(k), kid |-> k]]
            /\ UNCHANGED turn
    /\ UNCHANGED <<asked, published, keys, setAge, attemptAge, got, stamp, outcome, endAge, gotMoved, moved>>

\* Bug: whoever gets its turn fetches.
RecheckNothing(l) ==
    /\ turn # <<>> /\ Head(turn) = l
    /\ At(l, "queued")
    /\ Goto(l, "asking")
    /\ UNCHANGED <<asked, published, keys, setAge, attemptAge, turn, got, stamp, outcome, endAge, gotMoved, moved>>

\* Bug: an answer found on the second look leaves the lock held.
RecheckKeepsTurn(l) ==
    /\ turn # <<>> /\ Head(turn) = l
    /\ At(l, "queued")
    /\ Goto(l, IF FromMemory(look[l].kid) = "fetch" THEN "asking" ELSE FromMemory(look[l].kid))
    /\ UNCHANGED <<asked, published, keys, setAge, attemptAge, turn, got, stamp, outcome, endAge, gotMoved, moved>>

\* Its turn has come: whoever held the lock before may have fetched.
Recheck(l) ==
    /\ turn # <<>> /\ Head(turn) = l
    /\ At(l, "queued")
    /\ LET answer == FromMemory(look[l].kid) IN
       IF answer = "fetch"
       THEN Goto(l, "asking") /\ UNCHANGED turn
       ELSE Goto(l, answer) /\ turn' = Tail(turn)
    /\ UNCHANGED <<asked, published, keys, setAge, attemptAge, got, stamp, outcome, endAge, gotMoved, moved>>

\* Google answers the request with the keys of that moment.
Serve(l) ==
    /\ At(l, "asking")
    /\ Goto(l, "served")
    /\ got' = published
    /\ gotMoved' = {}
    /\ UNCHANGED <<asked, published, keys, setAge, attemptAge, turn, stamp, outcome, endAge, moved>>

\* download returns, with the set or with an error.
Finish(l, failed) ==
    /\ At(l, "served") \/ (failed /\ At(l, "asking"))
    /\ look' = [look EXCEPT ![l].pc = IF failed THEN "failed" ELSE "finished"]
    /\ stamp' = 0
    /\ UNCHANGED <<asked, published, keys, setAge, attemptAge, turn, got, outcome, endAge, gotMoved, moved>>

\* The locals of the fetch are gone.
FetchEnds ==
    /\ got' = {}
    /\ gotMoved' = {}
    /\ stamp' = 0

\* Bug: the set is added to the one before it.
StoreMerges(l) ==
    /\ At(l, "finished")
    /\ attemptAge' = stamp
    /\ keys' = keys \cup got
    /\ setAge' = stamp
    /\ outcome' = "ok"
    /\ endAge' = stamp
    /\ moved' = gotMoved
    /\ Goto(l, IF look[l].kid \in got THEN "Found" ELSE "Rejected")
    /\ turn' = Tail(turn)
    /\ FetchEnds
    /\ UNCHANGED <<asked, published>>

\* fetch: the set is kept, then the key looked up in it.
Store(l) ==
    /\ At(l, "finished")
    /\ attemptAge' = stamp
    /\ keys' = got
    /\ setAge' = stamp
    /\ outcome' = "ok"
    /\ endAge' = stamp
    /\ moved' = gotMoved
    /\ Goto(l, IF look[l].kid \in got THEN "Found" ELSE "Rejected")
    /\ turn' = Tail(turn)
    /\ FetchEnds
    /\ UNCHANGED <<asked, published>>

\* Bug: an error document is kept as if it were a set.
StoreErrorBody(l) ==
    /\ At(l, "failed")
    /\ attemptAge' = stamp
    /\ keys' = {"error"}
    /\ setAge' = stamp
    /\ outcome' = "failed"
    /\ endAge' = stamp
    /\ Goto(l, "Unavailable")
    /\ turn' = Tail(turn)
    /\ FetchEnds
    /\ UNCHANGED <<asked, published, moved>>

\* fetch: an error leaves the set alone, and the interval runs from it too.
StoreFailure(l) ==
    /\ At(l, "failed")
    /\ attemptAge' = stamp
    /\ outcome' = "failed"
    /\ endAge' = stamp
    /\ Goto(l, "Unavailable")
    /\ turn' = Tail(turn)
    /\ FetchEnds
    /\ UNCHANGED <<asked, published, keys, setAge, moved>>

\* The caller's future is dropped at an await, giving up the lock or its place.
DropLookup(l) ==
    /\ look[l] # NoLookup /\ look[l].pc \notin Answer
    /\ look' = [look EXCEPT ![l] = NoLookup]
    /\ \E n \in DOMAIN turn : turn[n] = l /\ turn' = RemoveAt(turn, n)
    /\ IF look[l].pc \in Downloading THEN FetchEnds ELSE UNCHANGED <<got, gotMoved, stamp>>
    /\ UNCHANGED <<asked, published, keys, setAge, attemptAge, outcome, endAge, moved>>

\* The caller has its answer.
Return(l) ==
    /\ look[l] # NoLookup /\ look[l].pc \in Answer
    /\ look' = [look EXCEPT ![l] = NoLookup]
    /\ UNCHANGED <<asked, published, keys, setAge, attemptAge, turn, got, stamp, outcome, endAge, gotMoved, moved>>

-----------------------------------------------------------------------------
Init ==
    /\ asked \in AskedInterval
    /\ published \in SUBSET Kid
    /\ keys = {}
    /\ setAge = Forever
    /\ attemptAge = Forever
    /\ turn = <<>>
    /\ look = [l \in Lookup |-> NoLookup]
    /\ got = {}
    /\ stamp = 0
    /\ outcome = "none"
    /\ endAge = Forever
    /\ gotMoved = {}
    /\ moved = {}

LookupStep(l) ==
    \/ Recheck(l) \/ Store(l) \/ StoreFailure(l)

Next ==
    \/ Tick
    \/ \E k \in Kid : Rotate(k)
    \/ \E l \in Lookup :
          \/ \E k \in Kid : Ask(l, k)
          \/ LookupStep(l)
          \/ Serve(l)
          \/ \E failed \in BOOLEAN : Finish(l, failed)
          \/ DropLookup(l)
          \/ Return(l)

Spec == Init /\ [][Next]_vars

\* A woken lookup is polled and a fair lock handed on. How long a download
\* takes is up to the host's client.
FairSpec == Spec /\ \A l \in Lookup : WF_vars(LookupStep(l))

-----------------------------------------------------------------------------
(* Properties.                                                             *)

TypeOK ==
    /\ asked \in AskedInterval
    /\ published \in SUBSET Kid
    /\ keys \in SUBSET Kid
    /\ setAge \in Age
    /\ attemptAge \in Age
    /\ turn \in Seq(Lookup)
    /\ look \in [Lookup -> LookupRecord \cup {NoLookup}]
    /\ got \in SUBSET Kid
    /\ stamp \in Age
    /\ outcome \in {"none", "ok", "failed"}
    /\ endAge \in Age
    /\ gotMoved \in SUBSET Kid
    /\ moved \in SUBSET Kid

Starts(l) == ~At(l, "asking") /\ At(l, "asking")'

Answers(l, a) == ~At(l, a) /\ At(l, a)'

\* MIN_REFETCH_INTERVAL, "The least time between two fetches of one key set":
\* however many lookups miss at once, one fetch runs at a time and none starts
\* within the interval of the end of the last one that was not dropped.
FetchesSpaced ==
    [][\A l \in Lookup : Starts(l) =>
          /\ endAge >= Interval
          /\ \A m \in Lookup : look[m] = NoLookup \/ look[m].pc \notin Downloading]_vars

\* An answer is what Google said when the last good fetch was served: a key
\* that is found was published then, and one that is refused was not, unless
\* the last fetch failed; and a lookup is told that the set is unavailable only
\* when that fetch failed, never while a good set has merely grown old.
AnswerReflectsSet ==
    [][\A l \in Lookup :
          LET k == look[l].kid' IN
          /\ Answers(l, "Found") => k \in published \/ k \in moved'
          /\ Answers(l, "Rejected") =>
                k \notin published \/ k \in moved' \/ outcome' = "failed"
          /\ Answers(l, "Unavailable") => outcome' = "failed"]_vars

\* Unless a download hangs, every lookup that waits for its turn or fetches is
\* answered or dropped.
LookupsAnswered ==
    \A l \in Lookup :
        []<>(\A m \in Lookup : ~At(m, "asking") /\ ~At(m, "served")) =>
            []<>(look[l] = NoLookup \/ look[l].pc \in Answer)
=============================================================================
