----------------------- MODULE ErrorDispatcherProofs -----------------------
(***************************************************************************)
(* Theorems about ErrorDispatcher, for any events, keys, windows and rate: *)
(* no minute sees more Slack digests than the limit nor more than one      *)
(* e-mail above it, and what last_notified suppresses is exactly what a    *)
(* digest carried.                                                         *)
(***************************************************************************)
EXTENDS ErrorDispatcher, FiniteSetTheorems, TLAPS

Digest == [age : Age, keys : SUBSET Key]

\* The digest whose post is awaited is the last one, and no digest is younger.
Pending ==
    pc = "sending" =>
        /\ digests # <<>>
        /\ digests[Len(digests)].age = stamp
        /\ digests[Len(digests)].keys = entries
        /\ \A n \in DOMAIN digests : stamp <= digests[n].age

\* Digests whose bookkeeping is done.
Booked == {n \in DOMAIN digests : pc = "sending" => n # Len(digests)}

\* recent_sends remembers every booked digest less than a minute old, and is
\* never longer than the limit: shorter while a post is awaited.
Counted ==
    /\ IsFiniteSet(DOMAIN recentSends)
    /\ DOMAIN recentSends \subseteq Booked
    /\ \A n \in DOMAIN recentSends : recentSends[n] = digests[n].age
    /\ \A n \in Booked : digests[n].age < Minute => n \in DOMAIN recentSends
    /\ Cardinality(DOMAIN recentSends) <= MaxMessages
    /\ pc = "sending" => Cardinality(DOMAIN recentSends) < MaxMessages

\* last_notified is the age of the last booked digest that carried the key.
Remembered ==
    /\ \A n \in Booked : \A k \in digests[n].keys : lastNotified[k] <= digests[n].age
    /\ \A k \in Key : \/ lastNotified[k] = Forever
                      \/ \E n \in Booked : k \in digests[n].keys /\ digests[n].age = lastNotified[k]

\* Every booked digest was mailed, and no later one was started before.
Mailed ==
    /\ DOMAIN mails = Booked
    /\ \A n \in DOMAIN mails, m \in DOMAIN digests : n < m => digests[m].age <= mails[n]

\* The inductive invariant.
DispatcherInv == TypeOK /\ Pending /\ Counted /\ Remembered /\ Mailed
-----------------------------------------------------------------------------
(* Ages and the digests, which only grow older.                            *)

\* Older keeps ages ages, in their order, and forgets none that matters.
LEMMA OlderIsAge ==
    /\ Forever \in Nat /\ 0 \in Age /\ Age \subseteq Nat
    /\ Minute <= Forever /\ DedupWindow <= Forever
    /\ Older(Forever) = Forever
    /\ \A a \in Age : Older(a) \in Age /\ a <= Older(a)
    /\ \A a, b \in Age : a <= b => Older(a) <= Older(b)
BY DispatcherAssumption DEF Forever, Larger, Age, Older

\* A tick ages every digest and changes nothing else of it.
LEMMA DigestsAge ==
    ASSUME TypeOK, Tick
    PROVE  /\ digests' \in Seq(Digest) /\ DOMAIN digests' = DOMAIN digests /\ Len(digests') = Len(digests)
           /\ \A n \in DOMAIN digests : /\ digests'[n].age = Older(digests[n].age)
                                        /\ digests'[n].keys = digests[n].keys
<1>1. digests \in Seq(Digest) /\ DOMAIN digests = 1 .. Len(digests) /\ Len(digests) \in Nat
  BY DEF TypeOK, Digest
<1>2. digests' = [n \in 1 .. Len(digests) |-> [digests[n] EXCEPT !.age = Older(@)]]
  BY <1>1 DEF Tick
<1>3. ASSUME NEW d \in Digest
      PROVE  /\ [d EXCEPT !.age = Older(@)] \in Digest
             /\ [d EXCEPT !.age = Older(@)].age = Older(d.age)
             /\ [d EXCEPT !.age = Older(@)].keys = d.keys
  <2>1. Older(d.age) \in Age
    BY OlderIsAge DEF Digest
  <2> QED
    BY <2>1 DEF Digest
<1>4. \A n \in 1 .. Len(digests) : digests[n] \in Digest
  BY <1>1
<1>5. \A n \in 1 .. Len(digests) :
          /\ digests'[n] \in Digest
          /\ digests'[n].age = Older(digests[n].age) /\ digests'[n].keys = digests[n].keys
  BY <1>2, <1>3, <1>4
<1>6. digests' \in [1 .. Len(digests) -> Digest]
  BY <1>2, <1>5
<1>7. digests' \in Seq(Digest) /\ Len(digests') = Len(digests) /\ DOMAIN digests' = 1 .. Len(digests)
  BY <1>1, <1>6
<1> QED
  BY <1>1, <1>5, <1>7
-----------------------------------------------------------------------------
(* The steps.                                                              *)

\* The steps that touch neither the digests nor what is remembered of them.
Aside ==
    \/ \E e \in Event : OnEvent(e)
    \/ DropLayer \/ First \/ ClosedIdle \/ CheckWindow \/ Collect \/ ClosedInWindow
    \/ WindowElapsed \/ AllDuplicates \/ UNCHANGED vars

\* None of them starts or ends a post.
LEMMA AsideKeeps ==
    ASSUME Aside
    PROVE  /\ UNCHANGED <<entries, stamp, lastNotified, recentSends, digests, mails>>
           /\ pc' = "sending" <=> pc = "sending"
BY DEF Aside, OnEvent, DropLayer, First, ClosedIdle, CheckWindow, Collect, ClosedInWindow,
       WindowElapsed, AllDuplicates, vars

\* Every step is one of these.
LEMMA Steps ==
    ASSUME [Next]_vars
    PROVE  Aside \/ Tick \/ RateLimited \/ SendDigest \/ Bookkeep
BY DEF Next, Dispatch, Aside

\* What becomes of a batch is a fate.
LEMMA DisposedIsFate ==
    ASSUME TypeOK, NEW f \in Fate, Disposed(f)
    PROVE  fate' \in [Event -> Fate]
<1>1. "duplicate" \in Fate
  BY DEF Fate
<1> QED
  BY <1>1 DEF Disposed, TypeOK

\* Every step keeps the types.
LEMMA TypeStep == TypeOK /\ Pending /\ [Next]_vars => TypeOK'
<1> SUFFICES ASSUME TypeOK, Pending, [Next]_vars PROVE TypeOK'
  OBVIOUS
<1>0. /\ queue \in Seq(Event) /\ batch \in SUBSET Event /\ fate \in [Event -> Fate]
      /\ digests \in Seq(Digest) /\ left \in 0 .. BatchWindow /\ BatchWindow \in Nat
  BY DispatcherAssumption DEF TypeOK, Digest
<1>1. CASE Tick
  <2>1. left' \in 0 .. BatchWindow
    BY <1>0, <1>1 DEF Tick, LessTime
  <2>2. stamp' \in Age /\ lastNotified' \in [Key -> Age]
    BY <1>1, OlderIsAge DEF Tick, TypeOK
  <2>3. digests' \in Seq([age : Age, keys : SUBSET Key]) /\ DOMAIN digests' = DOMAIN digests
    BY <1>1, DigestsAge DEF Digest
  <2>4. /\ recentSends' \in [DOMAIN recentSends' -> Age]
        /\ DOMAIN recentSends' \subseteq DOMAIN digests'
    BY <1>1, <2>3, OlderIsAge DEF Tick, TypeOK
  <2>5. /\ mails' \in [DOMAIN mails' -> Age]
        /\ DOMAIN mails' \subseteq DOMAIN digests'
    BY <1>1, <2>3, OlderIsAge DEF Tick, TypeOK
  <2> QED
    BY <1>1, <2>1, <2>2, <2>3, <2>4, <2>5 DEF Tick, TypeOK
<1>2. ASSUME NEW e \in Event, OnEvent(e) PROVE TypeOK'
  BY <1>2 DEF OnEvent, TypeOK, Fate
<1>3. ASSUME Receive PROVE batch' \in SUBSET Event /\ queue' \in Seq(Event)
  BY <1>0, <1>3 DEF Receive
<1>4. CASE First
  BY <1>0, <1>3, <1>4 DEF First, TypeOK
<1>5. CASE Collect
  BY <1>3, <1>5 DEF Collect, TypeOK
<1>6. CASE ClosedIdle \/ CheckWindow \/ ClosedInWindow \/ WindowElapsed \/ DropLayer
  BY <1>6 DEF ClosedIdle, CheckWindow, ClosedInWindow, WindowElapsed, DropLayer, TypeOK
<1>7. CASE AllDuplicates
  <2>1. fate' \in [Event -> Fate]
    BY <1>7, DisposedIsFate DEF AllDuplicates, Fate
  <2> QED
    BY <1>7, <2>1 DEF AllDuplicates, TypeOK
<1>8. ASSUME Prune, DOMAIN digests \subseteq DOMAIN digests'
      PROVE  /\ recentSends' \in [DOMAIN recentSends' -> Age]
             /\ DOMAIN recentSends' \subseteq DOMAIN digests'
  BY <1>8 DEF Prune, Retained, TypeOK
<1>9. CASE RateLimited
  <2>1. fate' \in [Event -> Fate]
    BY <1>9, DisposedIsFate DEF RateLimited, Fate
  <2>2. /\ recentSends' \in [DOMAIN recentSends' -> Age]
        /\ DOMAIN recentSends' \subseteq DOMAIN digests'
    BY <1>8, <1>9 DEF RateLimited
  <2> QED
    BY <1>9, <2>1, <2>2 DEF RateLimited, TypeOK
<1>10. CASE SendDigest
  <2>1. fate' \in [Event -> Fate]
    BY <1>10, DisposedIsFate DEF SendDigest, Fate
  <2>2. Fresh \in SUBSET Key
    BY <1>0, DispatcherAssumption DEF Fresh, Keys
  <2>3. PICK d : d = [age |-> 0, keys |-> Fresh]
    OBVIOUS
  <2>4. d \in Digest /\ digests' = Append(digests, d)
    BY <1>10, <2>2, <2>3, OlderIsAge DEF SendDigest, Digest
  <2>5. digests' \in Seq(Digest) /\ DOMAIN digests \subseteq DOMAIN digests'
    BY <1>0, <2>4
  <2>6. /\ recentSends' \in [DOMAIN recentSends' -> Age]
        /\ DOMAIN recentSends' \subseteq DOMAIN digests'
    BY <1>8, <1>10, <2>5 DEF SendDigest
  <2>7. entries' \in SUBSET Key /\ stamp' \in Age
    BY <1>10, <2>2, OlderIsAge DEF SendDigest
  <2> QED
    BY <1>10, <2>1, <2>5, <2>6, <2>7 DEF SendDigest, TypeOK, Digest
<1>11. CASE Bookkeep
  <2>1. Len(digests) \in DOMAIN digests
    BY <1>0, <1>11 DEF Bookkeep, Pending
  <2>2. lastNotified' \in [Key -> Age]
    BY <1>11 DEF Bookkeep, TypeOK
  <2>3. /\ recentSends' \in [DOMAIN recentSends' -> Age]
        /\ DOMAIN recentSends' \subseteq DOMAIN digests
    BY <1>11, <2>1 DEF Bookkeep, Noted, TypeOK
  <2>4. mails' \in [DOMAIN mails' -> Age] /\ DOMAIN mails' \subseteq DOMAIN digests
    BY <1>11, <2>1, OlderIsAge DEF Bookkeep, Noted, TypeOK
  <2> QED
    BY <1>11, <2>2, <2>3, <2>4 DEF Bookkeep, TypeOK
<1>12. CASE UNCHANGED vars
  BY <1>12 DEF vars, TypeOK
<1> QED
  BY <1>1, <1>2, <1>4, <1>5, <1>6, <1>7, <1>9, <1>10, <1>11, <1>12 DEF Next, Dispatch

\* A post awaited stays that of the last digest, the youngest.
LEMMA PendingStep == TypeOK /\ Pending /\ [Next]_vars => Pending'
<1> SUFFICES ASSUME TypeOK, Pending, [Next]_vars PROVE Pending'
  OBVIOUS
<1>0. /\ digests \in Seq(Digest) /\ Len(digests) \in Nat /\ DOMAIN digests = 1 .. Len(digests)
      /\ stamp \in Age
  BY DEF TypeOK, Digest
<1>1. CASE Aside
  BY <1>1, AsideKeeps DEF Pending
<1>2. CASE Tick
  <2> SUFFICES ASSUME pc = "sending"
               PROVE  /\ digests' # <<>>
                      /\ digests'[Len(digests')].age = stamp'
                      /\ digests'[Len(digests')].keys = entries'
                      /\ \A n \in DOMAIN digests' : stamp' <= digests'[n].age
    BY <1>2 DEF Tick, Pending
  <2>1. digests # <<>> /\ Len(digests) \in DOMAIN digests
    BY <1>0 DEF Pending
  <2>2. stamp' = Older(stamp) /\ entries' = entries
    BY <1>2 DEF Tick
  <2>3. /\ DOMAIN digests' = DOMAIN digests /\ Len(digests') = Len(digests)
        /\ \A n \in DOMAIN digests : /\ digests'[n].age = Older(digests[n].age)
                                     /\ digests'[n].keys = digests[n].keys
    BY <1>2, DigestsAge
  <2>4. \A n \in DOMAIN digests : digests[n].age \in Age /\ stamp <= digests[n].age
    <3>1. \A n \in DOMAIN digests : digests[n] \in Digest
      BY <1>0
    <3> QED
      BY <3>1 DEF Pending, Digest
  <2>5. \A n \in DOMAIN digests : Older(stamp) <= Older(digests[n].age)
    BY <1>0, <2>4, OlderIsAge
  <2> QED
    BY <2>1, <2>2, <2>3, <2>5 DEF Pending
<1>3. CASE RateLimited \/ Bookkeep
  BY <1>3 DEF RateLimited, Bookkeep, Pending
<1>4. CASE SendDigest
  <2>1. PICK d : d = [age |-> 0, keys |-> Fresh]
    OBVIOUS
  <2>2. Fresh \in SUBSET Key
    BY DispatcherAssumption DEF Fresh, Keys, TypeOK
  <2>3. d \in Digest /\ d.age = 0 /\ d.keys = Fresh
    BY <2>1, <2>2, OlderIsAge DEF Digest
  <2>4. digests' = Append(digests, d) /\ stamp' = 0 /\ entries' = Fresh
    BY <1>4, <2>1 DEF SendDigest
  <2>5. /\ digests' \in Seq(Digest) /\ Len(digests') = Len(digests) + 1 /\ digests' # <<>>
        /\ digests'[Len(digests')] = d
    BY <1>0, <2>3, <2>4
  <2>6. \A n \in DOMAIN digests' : digests'[n].age \in Nat
    <3>1. \A n \in DOMAIN digests' : digests'[n] \in Digest
      BY <2>5
    <3> QED
      BY <3>1, OlderIsAge DEF Digest
  <2> QED
    BY <2>3, <2>4, <2>5, <2>6 DEF Pending
<1> QED
  BY <1>1, <1>2, <1>3, <1>4, Steps

\* After a digest goes out, the booked ones are those there were before it.
LEMMA SendIsNotBooked ==
    ASSUME TypeOK, SendDigest
    PROVE  /\ Booked' = DOMAIN digests /\ Booked = DOMAIN digests
           /\ DOMAIN digests' = DOMAIN digests \cup {Len(digests')}
           /\ Len(digests') \notin DOMAIN digests
           /\ \A n \in DOMAIN digests : digests'[n] = digests[n]
           /\ digests'[Len(digests')].keys = Fresh
<1>0. digests \in Seq(Digest) /\ Len(digests) \in Nat /\ DOMAIN digests = 1 .. Len(digests)
  BY DEF TypeOK, Digest
<1>1. PICK d : d = [age |-> 0, keys |-> Fresh]
  OBVIOUS
<1>2. Fresh \in SUBSET Key
  BY DispatcherAssumption DEF Fresh, Keys, TypeOK
<1>3. d \in Digest /\ d.keys = Fresh
  BY <1>1, <1>2, OlderIsAge DEF Digest
<1>4. digests' = Append(digests, d) /\ pc = "dispatch" /\ pc' = "sending"
  BY <1>1 DEF SendDigest
<1>5. /\ Len(digests') = Len(digests) + 1 /\ DOMAIN digests' = 1 .. Len(digests) + 1
      /\ \A n \in 1 .. Len(digests) : digests'[n] = digests[n]
      /\ digests'[Len(digests) + 1] = d
  BY <1>0, <1>3, <1>4
<1>6. Booked = DOMAIN digests
  BY <1>4 DEF Booked
<1>7. Booked' = DOMAIN digests
  BY <1>0, <1>4, <1>5 DEF Booked
<1> QED
  BY <1>0, <1>3, <1>5, <1>6, <1>7

\* The bookkeeping books the last digest.
LEMMA BookkeepBooks ==
    ASSUME TypeOK, Pending, Bookkeep
    PROVE  /\ Booked' = DOMAIN digests /\ digests' = digests
           /\ DOMAIN digests = Booked \cup {Len(digests)} /\ Len(digests) \notin Booked
           /\ digests[Len(digests)].age = stamp /\ digests[Len(digests)].keys = entries
<1>0. digests \in Seq(Digest) /\ Len(digests) \in Nat /\ DOMAIN digests = 1 .. Len(digests)
  BY DEF TypeOK, Digest
<1>1. pc = "sending" /\ pc' = "idle" /\ digests' = digests
  BY DEF Bookkeep
<1>2. Len(digests) \in DOMAIN digests
  BY <1>0, <1>1 DEF Pending
<1> QED
  BY <1>1, <1>2 DEF Booked, Pending

\* What a prune keeps is counted right, whatever the digests are then.
LEMMA PruneCounts ==
    ASSUME TypeOK, Counted, Prune
    PROVE  /\ DOMAIN recentSends' = Retained /\ Retained \subseteq DOMAIN recentSends
           /\ IsFiniteSet(Retained) /\ Cardinality(Retained) <= MaxMessages
           /\ \A n \in Retained : recentSends'[n] = digests[n].age
           /\ \A n \in Booked : digests[n].age < Minute => n \in Retained
<1>1. DOMAIN recentSends' = Retained /\ Retained \subseteq DOMAIN recentSends
  BY DEF Prune, Retained
<1>2. IsFiniteSet(DOMAIN recentSends) /\ Cardinality(DOMAIN recentSends) <= MaxMessages
  BY DEF Counted
<1>3. /\ IsFiniteSet(Retained) /\ Cardinality(Retained) <= Cardinality(DOMAIN recentSends)
      /\ Cardinality(Retained) \in Nat /\ Cardinality(DOMAIN recentSends) \in Nat
  BY <1>1, <1>2, FS_Subset, FS_CardinalityType
<1>4. Cardinality(Retained) <= MaxMessages
  BY <1>2, <1>3, DispatcherAssumption
<1>5. \A n \in Retained : recentSends'[n] = digests[n].age
  BY DEF Prune, Retained, Counted
<1>6. \A n \in Booked : digests[n].age < Minute => n \in Retained
  BY DEF Counted, Retained
<1> QED
  BY <1>1, <1>3, <1>4, <1>5, <1>6

\* Every step keeps recent_sends a count of the digests of the last minute.
LEMMA CountedStep == TypeOK /\ Pending /\ Counted /\ [Next]_vars => Counted'
<1> SUFFICES ASSUME TypeOK, Pending, Counted, [Next]_vars PROVE Counted'
  OBVIOUS
<1> digests \in Seq(Digest)
  BY DEF TypeOK, Digest
<1>0. \A n \in DOMAIN digests : digests[n] \in Digest
  OBVIOUS
<1>1. CASE Aside
  <2>1. Booked' = Booked
    BY <1>1, AsideKeeps DEF Booked
  <2> QED
    BY <1>1, <2>1, AsideKeeps DEF Counted
<1>2. CASE Tick
  <2>1. /\ DOMAIN digests' = DOMAIN digests /\ Len(digests') = Len(digests)
        /\ \A n \in DOMAIN digests : digests'[n].age = Older(digests[n].age)
    BY <1>2, DigestsAge
  <2>2. pc' = pc /\ recentSends' = [n \in DOMAIN recentSends |-> Older(recentSends[n])]
    BY <1>2 DEF Tick
  <2>3. Booked' = Booked /\ Booked \subseteq DOMAIN digests
    BY <2>1, <2>2 DEF Booked
  <2>4. ASSUME NEW n \in Booked, Older(digests[n].age) < Minute PROVE n \in DOMAIN recentSends
    <3>1. digests[n].age \in Age
      BY <1>0, <2>3 DEF Digest
    <3>2. digests[n].age < Minute
      <4>1. \A a \in Age : Older(a) < Minute => a < Minute
        BY DispatcherAssumption DEF Age, Older, Forever, Larger
      <4> QED
        BY <2>4, <3>1, <4>1
    <3> QED
      BY <3>2 DEF Counted
  <2>5. \A n \in DOMAIN recentSends : recentSends'[n] = digests'[n].age
    BY <2>1, <2>2, <2>3 DEF Counted
  <2> QED
    BY <2>1, <2>2, <2>3, <2>4, <2>5 DEF Counted
<1>3. CASE RateLimited
  <2>1. Prune /\ digests' = digests /\ pc = "dispatch" /\ pc' = "idle"
    BY <1>3 DEF RateLimited
  <2>2. Booked' = Booked /\ DOMAIN recentSends \subseteq Booked
    BY <2>1 DEF Booked, Counted
  <2> QED
    BY <2>1, <2>2, PruneCounts DEF Counted
<1>4. CASE SendDigest
  <2>1. Prune /\ Cardinality(Retained) < MaxMessages
    BY <1>4 DEF SendDigest, UnderRateLimit
  <2>2. /\ Booked' = Booked /\ DOMAIN recentSends \subseteq Booked
        /\ \A n \in Booked : digests'[n] = digests[n]
    BY <1>4, SendIsNotBooked DEF Counted
  <2> QED
    BY <2>1, <2>2, PruneCounts DEF Counted
<1>5. CASE Bookkeep
  <2> DEFINE c == Len(digests)
             R == DOMAIN recentSends
  <2>1. /\ Booked' = Booked \cup {c} /\ c \notin Booked /\ digests' = digests
        /\ digests[c].age = stamp
    BY <1>5, BookkeepBooks
  <2>2. /\ recentSends' = [n \in R \cup {c} |-> IF n = c THEN stamp ELSE recentSends[n]]
        /\ pc = "sending" /\ pc' = "idle"
    BY <1>5 DEF Bookkeep, Noted
  <2>3. DOMAIN recentSends' = R \cup {c}
    BY <2>2
  <2>4. /\ IsFiniteSet(R) /\ Cardinality(R) < MaxMessages /\ R \subseteq Booked
        /\ Cardinality(R) \in Nat
    BY <2>2, FS_CardinalityType DEF Counted
  <2>5. IsFiniteSet(R \cup {c}) /\ Cardinality(R \cup {c}) = Cardinality(R) + 1
    BY <2>1, <2>4, FS_AddElement
  <2>6. Cardinality(R \cup {c}) <= MaxMessages
    BY <2>4, <2>5, DispatcherAssumption
  <2>7. \A n \in R \cup {c} : recentSends'[n] = digests'[n].age
    BY <2>1, <2>2 DEF Counted
  <2>8. \A n \in Booked \cup {c} : digests'[n].age < Minute => n \in R \cup {c}
    BY <2>1 DEF Counted
  <2> QED
    BY <2>1, <2>2, <2>3, <2>4, <2>5, <2>6, <2>7, <2>8 DEF Counted
<1> QED
  BY <1>1, <1>2, <1>3, <1>4, <1>5, Steps

\* Every step keeps last_notified the age of the last digest of its key.
LEMMA RememberedStep == TypeOK /\ Pending /\ Remembered /\ [Next]_vars => Remembered'
<1> SUFFICES ASSUME TypeOK, Pending, Remembered, [Next]_vars PROVE Remembered'
  OBVIOUS
<1>0. digests \in Seq(Digest) /\ lastNotified \in [Key -> Age] /\ stamp \in Age
  BY DEF TypeOK, Digest
<1>1. \A n \in DOMAIN digests : digests[n].age \in Age /\ digests[n].keys \in SUBSET Key
  <2>1. \A n \in DOMAIN digests : digests[n] \in Digest
    BY <1>0
  <2> QED
    BY <2>1 DEF Digest
<1>2. CASE Aside
  <2>1. Booked' = Booked
    BY <1>2, AsideKeeps DEF Booked
  <2> QED
    BY <1>2, <2>1, AsideKeeps DEF Remembered
<1>3. CASE Tick
  <2>1. /\ DOMAIN digests' = DOMAIN digests /\ Len(digests') = Len(digests)
        /\ \A n \in DOMAIN digests : /\ digests'[n].age = Older(digests[n].age)
                                     /\ digests'[n].keys = digests[n].keys
    BY <1>3, DigestsAge
  <2>2. pc' = pc /\ \A k \in Key : lastNotified'[k] = Older(lastNotified[k])
    BY <1>3 DEF Tick
  <2>3. Booked' = Booked /\ Booked \subseteq DOMAIN digests
    BY <2>1, <2>2 DEF Booked
  <2>4. ASSUME NEW n \in Booked, NEW k \in digests'[n].keys
        PROVE  lastNotified'[k] <= digests'[n].age
    <3>1. k \in Key /\ k \in digests[n].keys /\ digests[n].age \in Age /\ lastNotified[k] \in Age
      BY <1>0, <1>1, <2>1, <2>3, <2>4
    <3>2. lastNotified[k] <= digests[n].age
      BY <3>1 DEF Remembered
    <3>3. Older(lastNotified[k]) <= Older(digests[n].age)
      BY <3>1, <3>2, OlderIsAge
    <3> QED
      BY <2>1, <2>2, <2>3, <3>1, <3>3
  <2>5. ASSUME NEW k \in Key
        PROVE  \/ lastNotified'[k] = Forever
               \/ \E n \in Booked : k \in digests'[n].keys /\ digests'[n].age = lastNotified'[k]
    <3>1. CASE lastNotified[k] = Forever
      BY <2>2, <3>1, OlderIsAge
    <3>2. CASE \E n \in Booked : k \in digests[n].keys /\ digests[n].age = lastNotified[k]
      BY <2>1, <2>2, <2>3, <3>2
    <3> QED
      BY <3>1, <3>2 DEF Remembered
  <2> QED
    BY <2>3, <2>4, <2>5 DEF Remembered
<1>4. CASE RateLimited
  <2>1. UNCHANGED <<digests, lastNotified>> /\ pc = "dispatch" /\ pc' = "idle"
    BY <1>4 DEF RateLimited
  <2>2. Booked' = Booked
    BY <2>1 DEF Booked
  <2> QED
    BY <2>1, <2>2 DEF Remembered
<1>5. CASE SendDigest
  <2>1. Booked' = Booked /\ \A n \in Booked : digests'[n] = digests[n]
    BY <1>5, SendIsNotBooked
  <2>2. lastNotified' = lastNotified
    BY <1>5 DEF SendDigest
  <2> QED
    BY <2>1, <2>2 DEF Remembered
<1>6. CASE Bookkeep
  <2> DEFINE c == Len(digests)
  <2>1. /\ Booked' = Booked \cup {c} /\ digests' = digests
        /\ DOMAIN digests = Booked \cup {c}
        /\ digests[c].age = stamp /\ digests[c].keys = entries
    BY <1>6, BookkeepBooks
  <2>2. \A k \in Key : lastNotified'[k] = IF k \in entries THEN stamp ELSE lastNotified[k]
    BY <1>6 DEF Bookkeep
  <2>3. \A n \in DOMAIN digests : stamp <= digests[n].age
    BY <1>6 DEF Bookkeep, Pending
  <2>4. ASSUME NEW n \in Booked', NEW k \in digests'[n].keys
        PROVE  lastNotified'[k] <= digests'[n].age
    <3>1. n \in DOMAIN digests /\ k \in Key /\ k \in digests[n].keys /\ digests' = digests
      BY <1>1, <2>1, <2>4
    <3>2. CASE k \in entries
      BY <2>2, <2>3, <3>1, <3>2
    <3>3. CASE k \notin entries
      <4>1. n \in Booked
        BY <2>1, <3>1, <3>3
      <4> QED
        BY <2>2, <3>1, <3>3, <4>1 DEF Remembered
    <3> QED
      BY <3>2, <3>3
  <2>5. ASSUME NEW k \in Key
        PROVE  \/ lastNotified'[k] = Forever
               \/ \E n \in Booked' : k \in digests'[n].keys /\ digests'[n].age = lastNotified'[k]
    <3>1. CASE k \in entries
      BY <2>1, <2>2, <3>1
    <3>2. CASE k \notin entries
      BY <2>1, <2>2, <3>2 DEF Remembered
    <3> QED
      BY <3>1, <3>2
  <2> QED
    BY <2>4, <2>5 DEF Remembered
<1> QED
  BY <1>2, <1>3, <1>4, <1>5, <1>6, Steps

\* Every step keeps the e-mails before the digests that follow them.
LEMMA MailedStep == TypeOK /\ Pending /\ Mailed /\ [Next]_vars => Mailed'
<1> SUFFICES ASSUME TypeOK, Pending, Mailed, [Next]_vars PROVE Mailed'
  OBVIOUS
<1>0. /\ digests \in Seq(Digest) /\ Len(digests) \in Nat /\ DOMAIN digests = 1 .. Len(digests)
      /\ mails \in [DOMAIN mails -> Age] /\ DOMAIN mails \subseteq DOMAIN digests
  BY DEF TypeOK, Digest
<1>1. \A n \in DOMAIN digests : digests[n].age \in Age
  <2>1. \A n \in DOMAIN digests : digests[n] \in Digest
    BY <1>0
  <2> QED
    BY <2>1 DEF Digest
<1>2. CASE Aside
  <2>1. Booked' = Booked
    BY <1>2, AsideKeeps DEF Booked
  <2> QED
    BY <1>2, <2>1, AsideKeeps DEF Mailed
<1>3. CASE Tick
  <2>1. /\ DOMAIN digests' = DOMAIN digests /\ Len(digests') = Len(digests)
        /\ \A n \in DOMAIN digests : digests'[n].age = Older(digests[n].age)
    BY <1>3, DigestsAge
  <2>2. /\ pc' = pc /\ DOMAIN mails' = DOMAIN mails
        /\ \A n \in DOMAIN mails : mails'[n] = Older(mails[n])
    BY <1>3 DEF Tick
  <2>3. Booked' = Booked
    BY <2>1, <2>2 DEF Booked
  <2>4. ASSUME NEW n \in DOMAIN mails, NEW m \in DOMAIN digests, n < m
        PROVE  digests'[m].age <= mails'[n]
    <3>1. digests[m].age \in Age /\ mails[n] \in Age /\ digests[m].age <= mails[n]
      BY <1>0, <1>1, <2>4 DEF Mailed
    <3>2. Older(digests[m].age) <= Older(mails[n])
      BY <3>1, OlderIsAge
    <3> QED
      BY <2>1, <2>2, <3>2
  <2> QED
    BY <2>1, <2>2, <2>3, <2>4 DEF Mailed
<1>4. CASE RateLimited
  <2>1. UNCHANGED <<digests, mails>> /\ pc = "dispatch" /\ pc' = "idle"
    BY <1>4 DEF RateLimited
  <2>2. Booked' = Booked
    BY <2>1 DEF Booked
  <2> QED
    BY <2>1, <2>2 DEF Mailed
<1>5. CASE SendDigest
  <2>1. /\ Booked' = Booked /\ DOMAIN digests' = DOMAIN digests \cup {Len(digests')}
        /\ \A n \in DOMAIN digests : digests'[n] = digests[n]
    BY <1>5, SendIsNotBooked
  <2>2. digests'[Len(digests')].age = 0 /\ mails' = mails
    <3>1. PICK d : d = [age |-> 0, keys |-> Fresh]
      OBVIOUS
    <3>2. digests' = Append(digests, d) /\ mails' = mails
      BY <1>5, <3>1 DEF SendDigest
    <3>3. digests'[Len(digests')] = d
      BY <1>0, <3>2
    <3> QED
      BY <3>1, <3>2, <3>3
  <2>3. ASSUME NEW n \in DOMAIN mails, NEW m \in DOMAIN digests', n < m
        PROVE  digests'[m].age <= mails[n]
    <3>1. CASE m \in DOMAIN digests
      BY <2>1, <2>3, <3>1 DEF Mailed
    <3>2. CASE m = Len(digests')
      BY <1>0, <2>2, <3>2, OlderIsAge
    <3> QED
      BY <2>1, <3>1, <3>2
  <2> QED
    BY <2>1, <2>2, <2>3 DEF Mailed
<1>6. CASE Bookkeep
  <2>1. /\ Booked' = Booked \cup {Len(digests)} /\ digests' = digests /\ Len(digests) \notin Booked
    BY <1>6, BookkeepBooks
  <2>2. /\ DOMAIN mails' = DOMAIN mails \cup {Len(digests)}
        /\ \A n \in DOMAIN mails : n # Len(digests) => mails'[n] = mails[n]
    BY <1>6 DEF Bookkeep, Noted
  <2>3. ASSUME NEW n \in DOMAIN mails', NEW m \in DOMAIN digests, n < m
        PROVE  digests[m].age <= mails'[n]
    <3>1. n # Len(digests)
      BY <1>0, <2>3
    <3> QED
      BY <2>2, <2>3, <3>1 DEF Mailed
  <2> QED
    BY <2>1, <2>2, <2>3 DEF Mailed
<1> QED
  BY <1>2, <1>3, <1>4, <1>5, <1>6, Steps
-----------------------------------------------------------------------------
\* The dispatcher's bookkeeping always agrees with the digests it sent: see
\* DispatcherInv.
THEOREM DispatcherInvariant == Spec => []DispatcherInv
<1>1. Init => DispatcherInv
  <2> SUFFICES ASSUME Init PROVE DispatcherInv
    OBVIOUS
  <2>1. Forever \in Age /\ DOMAIN digests = {} /\ DOMAIN recentSends = {} /\ DOMAIN mails = {}
    BY OlderIsAge DEF Init, Age
  <2>2. TypeOK
    BY <2>1, DispatcherAssumption DEF Init, TypeOK, Fate
  <2>3. Pending /\ Remembered /\ Mailed
    BY <2>1 DEF Init, Pending, Remembered, Mailed, Booked
  <2>4. IsFiniteSet(DOMAIN recentSends) /\ Cardinality(DOMAIN recentSends) = 0
    BY <2>1, FS_EmptySet
  <2>5. Counted
    BY <2>1, <2>4, DispatcherAssumption DEF Init, Counted, Booked
  <2> QED
    BY <2>2, <2>3, <2>5 DEF DispatcherInv
<1>2. DispatcherInv /\ [Next]_vars => DispatcherInv'
  BY TypeStep, PendingStep, CountedStep, RememberedStep, MailedStep DEF DispatcherInv
<1> QED
  BY <1>1, <1>2, PTL DEF Spec

\* The digests of the last minute are in recent_sends, or the one whose post is awaited.
LEMMA PostsWithinLimit ==
    ASSUME DispatcherInv, NEW N, N = {n \in DOMAIN digests : digests[n].age < Minute}
    PROVE  IsFiniteSet(N) /\ Cardinality(N) <= MaxMessages
<1> DEFINE R == DOMAIN recentSends
           c == Len(digests)
<1>0. TypeOK /\ Counted
  BY DEF DispatcherInv
<1>1. /\ IsFiniteSet(R) /\ Cardinality(R) \in Nat /\ Cardinality(R) <= MaxMessages
      /\ R \subseteq Booked /\ MaxMessages \in Nat
  BY <1>0, FS_CardinalityType, DispatcherAssumption DEF Counted
<1>2. CASE pc # "sending"
  <2>1. N \subseteq R
    BY <1>0, <1>2 DEF Booked, Counted
  <2>2. IsFiniteSet(N) /\ Cardinality(N) <= Cardinality(R) /\ Cardinality(N) \in Nat
    BY <1>1, <2>1, FS_Subset, FS_CardinalityType
  <2> QED
    BY <1>1, <2>2
<1>3. CASE pc = "sending"
  <2>1. N \subseteq R \cup {c} /\ c \notin R
    BY <1>0, <1>1, <1>3 DEF Booked, Counted
  <2>2. IsFiniteSet(R \cup {c}) /\ Cardinality(R \cup {c}) = Cardinality(R) + 1
    BY <1>1, <2>1, FS_AddElement
  <2>3. IsFiniteSet(N) /\ Cardinality(N) <= Cardinality(R \cup {c}) /\ Cardinality(N) \in Nat
    BY <2>1, <2>2, FS_Subset, FS_CardinalityType
  <2>4. Cardinality(R) < MaxMessages
    BY <1>0, <1>3 DEF Counted
  <2> QED
    BY <1>1, <2>2, <2>3, <2>4
<1> QED
  BY <1>2, <1>3

\* The e-mails of the last minute, all but the last, are followed by digests of the
\* last minute, each by its own.
LEMMA MailsWithinLimit ==
    ASSUME DispatcherInv, NEW M, M = {n \in DOMAIN mails : mails[n] < Minute}
    PROVE  Cardinality(M) <= MaxMessages + 1
<1> DEFINE c == Len(digests)
           P == M \ {c}
           N == {n \in DOMAIN digests : digests[n].age < Minute}
           next == [n \in P |-> n + 1]
<1>0. /\ TypeOK /\ Mailed /\ digests \in Seq(Digest)
      /\ c \in Nat /\ DOMAIN digests = 1 .. c /\ DOMAIN mails \subseteq 1 .. c
      /\ mails \in [DOMAIN mails -> Age]
  BY DEF DispatcherInv, TypeOK, Digest
<1>1. IsFiniteSet(N) /\ Cardinality(N) <= MaxMessages
  BY PostsWithinLimit
<1>2. ASSUME NEW n \in P PROVE n \in Nat /\ n + 1 \in N
  <2>1. n \in DOMAIN mails /\ mails[n] < Minute /\ n \in 1 .. c /\ n # c
    BY <1>0
  <2>2. n + 1 \in DOMAIN digests /\ n < n + 1
    BY <1>0, <2>1
  <2>3. digests[n + 1] \in Digest
    BY <1>0, <2>2
  <2>4. digests[n + 1].age \in Nat /\ mails[n] \in Nat
    BY <1>0, <2>1, <2>3, OlderIsAge DEF Digest
  <2>5. digests[n + 1].age <= mails[n]
    BY <1>0, <2>1, <2>2 DEF Mailed
  <2>6. digests[n + 1].age < Minute
    BY <2>1, <2>4, <2>5, DispatcherAssumption
  <2> QED
    BY <2>1, <2>2, <2>6
<1>3. next \in Injection(P, N)
  <2>1. next \in [P -> N]
    BY <1>2
  <2>2. \A a, b \in P : next[a] = next[b] => a = b
    BY <1>2
  <2> QED
    BY <2>1, <2>2 DEF Injection, IsInjective
<1>4. IsFiniteSet(P) /\ Cardinality(P) <= Cardinality(N)
  BY <1>1, <1>3, FS_Injection
<1>5. IsFiniteSet(P \cup {c}) /\ Cardinality(P \cup {c}) = Cardinality(P) + 1
  BY <1>4, FS_AddElement
<1>6. Cardinality(M) <= Cardinality(P \cup {c})
  BY <1>5, FS_Subset
<1>7. /\ Cardinality(M) \in Nat /\ Cardinality(P) \in Nat /\ Cardinality(N) \in Nat
      /\ MaxMessages \in Nat
  BY <1>1, <1>4, <1>5, FS_Subset, FS_CardinalityType, DispatcherAssumption
<1> QED
  BY <1>1, <1>4, <1>5, <1>6, <1>7

\* However long the Slack posts take and however the batches fall, no minute sees more
\* posts start than max_messages_per_minute, nor more than one e-mail above it, though
\* an e-mail goes out any time after the instant it is booked under.
THEOREM RateLimitHolds == Spec => []WithinRateLimit
<1>1. DispatcherInv => WithinRateLimit
  <2> SUFFICES ASSUME DispatcherInv PROVE WithinRateLimit
    OBVIOUS
  <2>1. TypeOK
    BY DEF DispatcherInv
  <2>2. Cardinality({n \in DOMAIN digests : digests[n].age < Minute}) <= MaxMessages
    BY PostsWithinLimit
  <2>3. Cardinality({n \in DOMAIN mails : mails[n] < Minute}) <= MaxMessages + 1
    BY MailsWithinLimit
  <2> QED
    BY <2>1, <2>2, <2>3 DEF WithinRateLimit
<1> QED
  BY <1>1, DispatcherInvariant, PTL

\* No key is in two digests within the dedup window, and only an event whose key
\* a digest carried within it is suppressed.
THEOREM DedupHolds == Spec => DedupIsExact
<1> DEFINE Fits ==
      /\ \A n \in DOMAIN digests' \ DOMAIN digests, m \in DOMAIN digests :
            digests'[n].keys \cap digests[m].keys # {} => digests[m].age >= DedupWindow
      /\ \A e \in Event :
            fate[e] # "duplicate" /\ fate'[e] = "duplicate" =>
                \E n \in DOMAIN digests :
                    KeyOf[e] \in digests[n].keys /\ digests[n].age < DedupWindow
<1>1. DispatcherInv /\ [Next]_vars => [Fits]_vars
  <2> SUFFICES ASSUME DispatcherInv, [Next]_vars PROVE Fits
    OBVIOUS
  <2>0. /\ TypeOK /\ Remembered /\ digests \in Seq(Digest)
        /\ lastNotified \in [Key -> Age] /\ batch \in SUBSET Event /\ fate \in [Event -> Fate]
    BY DEF DispatcherInv, TypeOK, Digest
  <2>1. \A n \in DOMAIN digests : digests[n] \in Digest
    BY <2>0
  <2>2. \A n \in DOMAIN digests : digests[n].age \in Nat /\ digests[n].keys \subseteq Key
    BY <2>1, OlderIsAge DEF Digest
  <2>3. \A k \in Key : lastNotified[k] \in Nat
    BY <2>0, OlderIsAge
  <2>4. ASSUME NEW n \in DOMAIN digests' \ DOMAIN digests, NEW m \in DOMAIN digests,
               digests'[n].keys \cap digests[m].keys # {}
        PROVE  digests[m].age >= DedupWindow
    <3>1. SendDigest
      <4>1. CASE Aside
        BY <2>4, <4>1, AsideKeeps
      <4>2. CASE Tick
        BY <2>0, <2>4, <4>2, DigestsAge
      <4>3. CASE RateLimited \/ Bookkeep
        BY <2>4, <4>3 DEF RateLimited, Bookkeep
      <4> QED
        BY <4>1, <4>2, <4>3, Steps
    <3>2. n = Len(digests') /\ digests'[n].keys = Fresh /\ m \in Booked
      BY <2>0, <2>4, <3>1, SendIsNotBooked
    <3>3. PICK k \in Fresh : k \in digests[m].keys
      BY <2>4, <3>2
    <3>4. lastNotified[k] >= DedupWindow /\ k \in Key
      BY <2>2, <3>3 DEF Fresh
    <3>5. lastNotified[k] <= digests[m].age
      BY <2>0, <3>2, <3>3 DEF Remembered
    <3> QED
      BY <2>2, <2>3, <3>4, <3>5, DispatcherAssumption
  <2>5. ASSUME NEW e \in Event, fate[e] # "duplicate", fate'[e] = "duplicate"
        PROVE  \E n \in DOMAIN digests : KeyOf[e] \in digests[n].keys /\ digests[n].age < DedupWindow
    <3>1. \/ AllDuplicates /\ Fresh = {}
          \/ Disposed("limited") \/ Disposed("digest")
      BY <2>0, <2>5 DEF Next, Dispatch, Tick, OnEvent, DropLayer, First, ClosedIdle, CheckWindow, Collect,
         ClosedInWindow, WindowElapsed, AllDuplicates, RateLimited, SendDigest, Bookkeep, vars
    <3>2. e \in batch /\ KeyOf[e] \notin Fresh
      BY <2>5, <3>1 DEF AllDuplicates, Disposed
    <3>3. KeyOf[e] \in Key /\ KeyOf[e] \in Keys(batch)
      BY <2>0, <3>2, DispatcherAssumption DEF Keys
    <3>4. lastNotified[KeyOf[e]] < DedupWindow
      BY <2>3, <3>2, <3>3, DispatcherAssumption DEF Fresh
    <3>5. lastNotified[KeyOf[e]] # Forever
      BY <2>3, <3>3, <3>4, OlderIsAge, DispatcherAssumption
    <3>6. PICK n \in Booked : KeyOf[e] \in digests[n].keys /\ digests[n].age = lastNotified[KeyOf[e]]
      BY <2>0, <3>3, <3>5 DEF Remembered
    <3> QED
      BY <3>4, <3>6 DEF Booked
  <2> QED
    BY <2>4, <2>5
<1> QED
  BY <1>1, DispatcherInvariant, PTL DEF Spec, DedupIsExact
=============================================================================
