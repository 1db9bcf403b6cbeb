--------------------------- MODULE OutboundProofs ---------------------------
(***************************************************************************)
(* Theorems about what the process sends out: calls to other services with *)
(* their shared token (ServiceClient), and guarded fetches (GuardedFetch), *)
(* for any calls, tokens, URLs, policies and limits.                       *)
(***************************************************************************)
EXTENDS Outbound, SequenceTheorems, FiniteSetTheorems, TLAPS

-----------------------------------------------------------------------------
(* The shared token.                                                       *)

AskRecord == [pc : {"idle", "fetching", "minted", "got", "failed"}, tok : Nat]

TokenTypes ==
    /\ minted \in Nat /\ minted <= MaxMints
    /\ age \in [S!Tokens -> 0..Life]
    /\ cached \in [tok : Nat, since : 0..RefreshAfter] /\ cached.tok <= minted
    /\ ask \in [Callers -> AskRecord]
    /\ \A c \in Callers : ask[c].tok <= minted

\* A token on its way to caller c is younger than an answer may take, and if a
\* later one is cached, that was stored since the former was minted.
OnItsWay(c) ==
    ask[c].pc = "minted" =>
        /\ ask[c].tok # S!NoToken
        /\ age[ask[c].tok] <= MaxDelay
        /\ cached.tok > ask[c].tok => cached.since <= age[ask[c].tok]

\* The cached token was minted no longer than an answer takes before it was stored.
CachedInTime == S!Fresh => age[cached.tok] <= cached.since + MaxDelay

TokenInv ==
    /\ TokenTypes
    /\ \A k \in S!Tokens : k > minted => age[k] = 0
    /\ \A c \in Callers : OnItsWay(c)
    /\ CachedInTime

\* One step of the token source.
TokenNext ==
    \/ \E c \in Callers : S!Lookup(c) \/ S!Mint(c) \/ S!FetchFails(c) \/ S!Store(c) \/ S!AskAgain(c)
    \/ S!TokenTick
    \/ UNCHANGED S!tokenVars
-----------------------------------------------------------------------------
(* The calls.                                                              *)

SentRecord == [id : Nat, tok : Nat, old : Nat]

Errors == {Absent, "unsendable", "identity", "closed", "failed"}

CallRecord ==
    [pc : {"new", "token", "flying", "again", "over"}, sendable : BOOLEAN, resent : BOOLEAN,
     id : Nat, error : Errors]

ServiceTypes ==
    /\ call \in [Callers -> CallRecord]
    /\ sent \in [Callers -> Seq(SentRecord)]
    /\ took \in [Callers -> Nat]
    /\ ids \in Nat

\* How many requests a call has made, and whether one of them is its last.
Attempts(c) ==
    /\ call[c].resent => c \in Gets
    /\ Len(sent[c]) <= IF call[c].resent THEN 2 ELSE 1
    /\ call[c].pc \in {"new", "token", "again"} => Len(sent[c]) = IF call[c].resent THEN 1 ELSE 0
    /\ call[c].pc = "flying" => Len(sent[c]) = IF call[c].resent THEN 2 ELSE 1
    /\ took[c] <= Len(sent[c])
    /\ call[c].pc = "flying" => took[c] < Len(sent[c])

\* Its id is its last request's, from the moment it goes out.
LastId(c) ==
    /\ call[c].id <= ids
    /\ \/ call[c].pc = "flying"
       \/ call[c].pc = "over" /\ call[c].error \notin {"unsendable", "identity"}
       => sent[c] # <<>> /\ call[c].id = sent[c][Len(sent[c])].id

\* Requests carry ids of their own, and tokens that were alive.
Requests(c) ==
    \A i \in DOMAIN sent[c] : sent[c][i].id <= ids /\ sent[c][i].old < Life

DistinctIds ==
    \A c, d \in Callers : \A i \in DOMAIN sent[c], j \in DOMAIN sent[d] :
        sent[c][i].id = sent[d][j].id => c = d /\ i = j

CallInv ==
    /\ ServiceTypes
    /\ \A c \in Callers : Attempts(c) /\ LastId(c) /\ Requests(c)
    /\ DistinctIds

ServiceInv == TokenInv /\ CallInv
-----------------------------------------------------------------------------
(* Proofs about the token.                                                 *)

\* What is fresh in the cache is not the absence of a token.
LEMMA TokenNumbers ==
    ASSUME TokensOutlive, TokenTypes
    PROVE  /\ \A n \in Nat : n # S!NoToken /\ n <= minted => n \in S!Tokens
           /\ S!NoToken = 0 /\ S!NoToken \notin S!Tokens
BY DEF TokensOutlive, TokenTypes, S!Tokens, S!NoToken

\* A caller that asks, waits, fails or is done changes only its own record.
LEMMA AskKeeps ==
    ASSUME TokensOutlive, TokenInv, NEW c \in Callers, NEW r \in AskRecord,
           ask' = [ask EXCEPT ![c] = r], r.pc # "minted", r.tok <= minted,
           UNCHANGED <<minted, age, cached>>
    PROVE  TokenInv'
<1>1. ask' \in [Callers -> AskRecord] /\ \A d \in Callers : ask'[d] = IF d = c THEN r ELSE ask[d]
  BY DEF TokenInv, TokenTypes
<1>2. TokenTypes'
  BY <1>1 DEF TokenInv, TokenTypes
<1>3. \A d \in Callers : OnItsWay(d)'
  BY <1>1 DEF TokenInv, OnItsWay
<1>4. CachedInTime'
  BY DEF TokenInv, CachedInTime, S!Fresh
<1> QED
  BY <1>2, <1>3, <1>4 DEF TokenInv

\* A token stored is later than the one it replaces.
LEMMA StoredIsLater ==
    ASSUME TokensOutlive, TokenInv, NEW c \in Callers, ask[c].pc = "minted", ~S!Fresh
    PROVE  cached.tok <= ask[c].tok
<1>1. ask[c].tok \in S!Tokens /\ cached.tok \in Nat /\ cached.since \in Nat /\ ask[c].tok \in Nat
  <2>1. ask[c] \in AskRecord /\ ask[c].tok <= minted /\ ask[c].tok # S!NoToken
    BY DEF TokenInv, TokenTypes, OnItsWay
  <2> QED
    BY <2>1, TokenNumbers DEF TokenInv, TokenTypes, AskRecord, TokensOutlive
<1>2. age[ask[c].tok] \in Nat /\ age[ask[c].tok] <= MaxDelay
  BY <1>1 DEF TokenInv, TokenTypes, OnItsWay, TokensOutlive
<1>3. cached.tok > ask[c].tok => cached.since <= age[ask[c].tok]
  BY DEF TokenInv, OnItsWay
<1>4. cached.tok = 0 \/ cached.since >= RefreshAfter
  BY <1>1 DEF S!Fresh, S!NoToken, TokensOutlive
<1>5. ASSUME cached.tok > ask[c].tok PROVE FALSE
  BY <1>1, <1>2, <1>3, <1>4, <1>5 DEF TokensOutlive, S!Tokens
<1> QED
  BY <1>1, <1>5

\* Every step of the token source keeps its invariant.
LEMMA TokenStep ==
    ASSUME TokensOutlive, TokenInv, TokenNext
    PROVE  TokenInv' /\ cached'.tok >= cached.tok
<1>0. /\ TokenTypes /\ minted \in Nat /\ cached.tok \in Nat /\ cached.since \in Nat
      /\ cached.tok <= minted /\ ask \in [Callers -> AskRecord]
      /\ \A c \in Callers : ask[c].tok \in Nat /\ ask[c].tok <= minted
  <2>1. TokenTypes /\ ask \in [Callers -> AskRecord] /\ \A c \in Callers : ask[c] \in AskRecord
    BY DEF TokenInv, TokenTypes
  <2> QED
    BY <2>1 DEF TokenTypes, AskRecord, TokensOutlive
<1>1. ASSUME NEW c \in Callers, S!Lookup(c) PROVE TokenInv' /\ cached'.tok >= cached.tok
  <2>1. PICK r : /\ ask' = [ask EXCEPT ![c] = r]
                 /\ \/ r = [pc |-> "got", tok |-> cached.tok]
                    \/ r = [pc |-> "fetching", tok |-> S!NoToken]
    BY <1>1 DEF S!Lookup, S!Got
  <2>2. r \in AskRecord /\ r.pc # "minted" /\ r.tok <= minted
    BY <1>0, <2>1 DEF AskRecord, S!NoToken
  <2>3. UNCHANGED <<minted, age, cached>> /\ cached' = cached
    BY <1>1 DEF S!Lookup
  <2>4. TokenInv'
    BY <2>1, <2>2, <2>3, AskKeeps
  <2> QED
    BY <1>0, <2>3, <2>4
<1>2. ASSUME NEW c \in Callers, S!FetchFails(c) \/ S!AskAgain(c)
      PROVE  TokenInv' /\ cached'.tok >= cached.tok
  <2>1. PICK r : /\ ask' = [ask EXCEPT ![c] = r]
                 /\ \/ r = [pc |-> "failed", tok |-> S!NoToken]
                    \/ r = [pc |-> "idle", tok |-> S!NoToken]
    BY <1>2 DEF S!FetchFails, S!AskAgain
  <2>2. r \in AskRecord /\ r.pc # "minted" /\ r.tok <= minted
    BY <1>0, <2>1 DEF AskRecord, S!NoToken
  <2>3. UNCHANGED <<minted, age, cached>> /\ cached' = cached
    BY <1>2 DEF S!FetchFails, S!AskAgain
  <2>4. TokenInv'
    BY <2>1, <2>2, <2>3, AskKeeps
  <2> QED
    BY <1>0, <2>3, <2>4
<1>3. ASSUME NEW c \in Callers, S!Mint(c) PROVE TokenInv' /\ cached'.tok >= cached.tok
  <2>1. PICK r : r = [pc |-> "minted", tok |-> minted + 1]
    OBVIOUS
  <2>2. r \in AskRecord /\ r.pc = "minted" /\ r.tok = minted + 1
    BY <1>0, <2>1 DEF AskRecord
  <2>3. /\ minted' = minted + 1 /\ minted < MaxMints /\ UNCHANGED <<age, cached>>
        /\ ask' = [ask EXCEPT ![c] = r]
    BY <1>3, <2>1 DEF S!Mint
  <2>4. \A d \in Callers : ask'[d] = IF d = c THEN r ELSE ask[d]
    BY <1>0, <2>3
  <2>5. minted + 1 \in S!Tokens /\ age[minted + 1] = 0
    BY <1>0, <2>3 DEF TokenInv, S!Tokens, TokensOutlive
  <2>6. TokenTypes'
    BY <1>0, <2>2, <2>3, <2>4 DEF TokenTypes, TokensOutlive
  <2>7. ASSUME NEW d \in Callers PROVE OnItsWay(d)'
    <3>1. CASE d = c
      BY <1>0, <2>2, <2>3, <2>4, <2>5, <3>1 DEF OnItsWay, S!NoToken, TokensOutlive
    <3>2. CASE d # c
      BY <2>3, <2>4, <3>2 DEF TokenInv, OnItsWay
    <3> QED
      BY <3>1, <3>2
  <2>8. \A k \in S!Tokens : k > minted' => age'[k] = 0
    BY <1>0, <2>3 DEF TokenInv, S!Tokens
  <2>9. CachedInTime'
    BY <2>3 DEF TokenInv, CachedInTime, S!Fresh
  <2> QED
    BY <1>0, <2>3, <2>6, <2>7, <2>8, <2>9 DEF TokenInv
<1>4. ASSUME NEW c \in Callers, S!Store(c) PROVE TokenInv' /\ cached'.tok >= cached.tok
  <2>1. CASE S!Fresh
    <3>1. PICK r : r = [pc |-> "got", tok |-> cached.tok]
      OBVIOUS
    <3>2. r \in AskRecord /\ r.pc # "minted" /\ r.tok <= minted
      BY <1>0, <3>1 DEF AskRecord
    <3>3. ask' = [ask EXCEPT ![c] = r] /\ UNCHANGED <<minted, age, cached>>
      BY <1>4, <2>1, <3>1 DEF S!Store, S!Got
    <3>4. TokenInv'
      BY <3>2, <3>3, AskKeeps
    <3> QED
      BY <1>0, <3>3, <3>4
  <2>2. CASE ~S!Fresh
    <3>1. PICK t : t = ask[c].tok
      OBVIOUS
    <3>2. PICK r : r = [pc |-> "got", tok |-> t]
      OBVIOUS
    <3>3. /\ ask' = [ask EXCEPT ![c] = r] /\ cached' = [tok |-> t, since |-> 0]
          /\ UNCHANGED <<minted, age>> /\ ask[c].pc = "minted"
      BY <1>4, <2>2, <3>1, <3>2 DEF S!Store, S!Got
    <3>4. t \in Nat /\ t <= minted /\ t # S!NoToken /\ t \in S!Tokens
      BY <1>0, <3>1, <3>3, TokenNumbers DEF TokenInv, OnItsWay
    <3>5. r \in AskRecord /\ r.pc # "minted" /\ r.tok = t
      BY <3>2, <3>4 DEF AskRecord
    <3>6. \A d \in Callers : ask'[d] = IF d = c THEN r ELSE ask[d]
      BY <1>0, <3>3
    <3>7. cached'.tok = t /\ cached'.since = 0
      BY <3>3
    <3>8. TokenTypes'
      BY <1>0, <3>3, <3>4, <3>5, <3>6 DEF TokenTypes, TokensOutlive
    <3>9. ASSUME NEW d \in Callers PROVE OnItsWay(d)'
      <4> SUFFICES ASSUME ask'[d].pc = "minted"
                   PROVE  /\ ask'[d].tok # S!NoToken
                          /\ age'[ask'[d].tok] <= MaxDelay
                          /\ cached'.tok > ask'[d].tok => cached'.since <= age'[ask'[d].tok]
        BY DEF OnItsWay
      <4>1. ask'[d] = ask[d] /\ ask[d].pc = "minted"
        BY <3>5, <3>6
      <4>2. ask[d].tok # S!NoToken /\ age[ask[d].tok] <= MaxDelay /\ ask[d].tok \in S!Tokens
        BY <1>0, <4>1, TokenNumbers DEF TokenInv, OnItsWay
      <4>3. 0 <= age[ask[d].tok]
        BY <1>0, <4>2 DEF TokenTypes, TokensOutlive
      <4> QED
        BY <3>3, <3>7, <4>1, <4>2, <4>3
    <3>10. age[t] <= MaxDelay
      BY <3>1, <3>3 DEF TokenInv, OnItsWay
    <3>11. CachedInTime'
      BY <3>3, <3>7, <3>10 DEF CachedInTime, TokensOutlive
    <3>12. cached.tok <= t
      BY <2>2, <3>1, <3>3, StoredIsLater
    <3> QED
      BY <1>0, <3>3, <3>4, <3>7, <3>8, <3>9, <3>11, <3>12 DEF TokenInv
  <2> QED
    BY <2>1, <2>2
<1>5. ASSUME S!TokenTick PROVE TokenInv' /\ cached'.tok >= cached.tok
  <2>1. /\ UNCHANGED <<minted, ask>>
        /\ age' = [k \in S!Tokens |-> IF k <= minted /\ age[k] < Life THEN age[k] + 1 ELSE age[k]]
        /\ cached' = [cached EXCEPT !.since = IF @ < RefreshAfter THEN @ + 1 ELSE @]
        /\ \A c \in Callers : ask[c].pc = "minted" => age[ask[c].tok] < MaxDelay
    BY <1>5 DEF S!TokenTick
  <2>2. \A k \in S!Tokens : age[k] \in Nat /\ age[k] <= Life
    BY <1>0 DEF TokenTypes, TokensOutlive
  <2>3. \A k \in S!Tokens : k <= minted =>
            age'[k] \in Nat /\ age'[k] <= age[k] + 1 /\ (age[k] < Life => age'[k] = age[k] + 1)
    BY <2>1, <2>2 DEF TokensOutlive
  <2>4. /\ cached' \in [tok : Nat, since : 0..RefreshAfter] /\ cached'.tok = cached.tok
        /\ cached'.since = IF cached.since < RefreshAfter THEN cached.since + 1 ELSE cached.since
    <3>1. cached \in [tok : Nat, since : 0..RefreshAfter]
      BY <1>0 DEF TokenTypes
    <3>2. PICK n : n = IF cached.since < RefreshAfter THEN cached.since + 1 ELSE cached.since
      OBVIOUS
    <3>3. n \in 0..RefreshAfter
      BY <3>1, <3>2 DEF TokensOutlive
    <3>4. cached' = [cached EXCEPT !.since = n]
      BY <2>1, <3>2
    <3> QED
      BY <3>1, <3>2, <3>3, <3>4
  <2>5. age' \in [S!Tokens -> 0..Life]
    BY <2>1, <2>2 DEF TokensOutlive
  <2>6. TokenTypes'
    BY <1>0, <2>1, <2>4, <2>5 DEF TokenTypes
  <2>7. ASSUME NEW c \in Callers PROVE OnItsWay(c)'
    <3> SUFFICES ASSUME ask[c].pc = "minted"
                 PROVE  /\ ask[c].tok # S!NoToken
                        /\ age'[ask[c].tok] <= MaxDelay
                        /\ cached'.tok > ask[c].tok => cached'.since <= age'[ask[c].tok]
      BY <2>1 DEF OnItsWay
    <3>1. /\ ask[c].tok # S!NoToken /\ age[ask[c].tok] < MaxDelay /\ ask[c].tok \in S!Tokens
          /\ ask[c].tok <= minted
          /\ cached.tok > ask[c].tok => cached.since <= age[ask[c].tok]
      BY <1>0, <2>1, TokenNumbers DEF TokenInv, OnItsWay
    <3>2. age[ask[c].tok] \in Nat /\ age'[ask[c].tok] = age[ask[c].tok] + 1
      BY <2>2, <2>3, <3>1 DEF TokensOutlive
    <3> QED
      BY <1>0, <2>4, <3>1, <3>2 DEF TokensOutlive
  <2>8. \A k \in S!Tokens : k > minted' => age'[k] = 0
    BY <1>0, <2>1 DEF TokenInv, S!Tokens, TokensOutlive
  <2>9. CachedInTime'
    <3> SUFFICES ASSUME cached'.tok # S!NoToken, cached'.since < RefreshAfter
                 PROVE  age'[cached'.tok] <= cached'.since + MaxDelay
      BY DEF CachedInTime, S!Fresh
    <3>1. cached.tok \in S!Tokens /\ cached.since < RefreshAfter /\ cached'.since = cached.since + 1
      BY <1>0, <2>4, TokenNumbers DEF TokensOutlive
    <3>2. age[cached.tok] <= cached.since + MaxDelay
      BY <2>4, <3>1 DEF TokenInv, CachedInTime, S!Fresh
    <3>3. age'[cached.tok] <= age[cached.tok] + 1 /\ age'[cached.tok] \in Nat /\ age[cached.tok] \in Nat
      BY <1>0, <2>2, <2>3, <3>1
    <3> QED
      BY <1>0, <2>4, <3>1, <3>2, <3>3 DEF TokensOutlive
  <2> QED
    BY <1>0, <2>4, <2>6, <2>7, <2>8, <2>9 DEF TokenInv
<1>6. ASSUME UNCHANGED S!tokenVars PROVE TokenInv' /\ cached'.tok >= cached.tok
  BY <1>0, <1>6 DEF S!tokenVars, TokenInv, TokenTypes, OnItsWay, CachedInTime, S!Fresh
<1> QED
  BY <1>1, <1>2, <1>3, <1>4, <1>5, <1>6 DEF TokenNext
-----------------------------------------------------------------------------
(* Proofs about the calls.                                                 *)

\* What is alive may be sent: no token at all, or one that has not expired.
Alive(tok) == tok = S!NoToken \/ (tok \in S!Tokens /\ age[tok] < Life)

\* A token that has just been handed to a caller is alive.
LEMMA HandedAlive ==
    ASSUME TokensOutlive, TokenInv, NEW c \in Callers, S!Lookup(c) \/ S!Store(c),
           ask'[c].pc = "got"
    PROVE  ask'[c].tok \in Nat /\ Alive(ask'[c].tok)
<1>1. ask \in [Callers -> AskRecord] /\ ask[c] \in AskRecord /\ ask[c].tok \in Nat /\ ask[c].tok <= minted
  <2>1. ask \in [Callers -> AskRecord] /\ ask[c] \in AskRecord /\ ask[c].tok <= minted
    BY DEF TokenInv, TokenTypes
  <2> QED
    BY <2>1 DEF AskRecord
<1>2. cached.tok \in Nat /\ cached.tok <= minted /\ cached.since \in Nat /\ TokenTypes
  BY DEF TokenInv, TokenTypes, TokensOutlive
<1>3. CASE S!Fresh
  <2>1. ask' = [ask EXCEPT ![c] = [pc |-> "got", tok |-> cached.tok]]
    BY <1>3 DEF S!Lookup, S!Store, S!Got
  <2>2. ask'[c].tok = cached.tok
    BY <1>1, <2>1
  <2>3. cached.tok # S!NoToken /\ cached.since < RefreshAfter /\ age[cached.tok] <= cached.since + MaxDelay
    BY <1>3 DEF TokenInv, CachedInTime, S!Fresh
  <2>4. cached.tok \in S!Tokens
    BY <1>2, <2>3, TokenNumbers
  <2>5. age[cached.tok] \in Nat
    BY <1>2, <2>4 DEF TokenTypes, TokensOutlive
  <2>6. age[cached.tok] < Life
    BY <1>2, <2>3, <2>5 DEF TokensOutlive
  <2> QED
    BY <1>2, <2>2, <2>4, <2>6 DEF Alive
<1>4. CASE ~S!Fresh
  <2>1. CASE S!Lookup(c)
    <3>1. ask'[c] = [pc |-> "fetching", tok |-> S!NoToken]
      BY <1>1, <1>4, <2>1 DEF S!Lookup
    <3> QED
      BY <3>1
  <2>2. CASE S!Store(c)
    <3>1. ask'[c].tok = ask[c].tok /\ ask[c].pc = "minted"
      BY <1>1, <1>4, <2>2 DEF S!Store, S!Got
    <3>2. ask[c].tok # S!NoToken /\ age[ask[c].tok] <= MaxDelay
      BY <3>1 DEF TokenInv, OnItsWay
    <3>3. ask[c].tok \in S!Tokens
      BY <1>1, <1>2, <3>2, TokenNumbers
    <3>4. age[ask[c].tok] \in Nat
      BY <1>2, <3>3 DEF TokenTypes, TokensOutlive
    <3>5. age[ask[c].tok] < Life
      BY <3>2, <3>4 DEF TokensOutlive
    <3> QED
      BY <1>1, <3>1, <3>3, <3>5 DEF Alive
  <2> QED
    BY <2>1, <2>2
<1> QED
  BY <1>3, <1>4

\* A step that sends nothing keeps what holds of the other calls.
LEMMA CallKeeps ==
    ASSUME CallInv, NEW c \in Callers, NEW r \in CallRecord, NEW n \in Nat,
           call' = [call EXCEPT ![c] = r], took' = [took EXCEPT ![c] = n],
           sent' = sent, ids' \in Nat, ids <= ids',
           Attempts(c)', LastId(c)'
    PROVE  CallInv'
<1>1. /\ call \in [Callers -> CallRecord] /\ took \in [Callers -> Nat] /\ ids \in Nat
      /\ sent \in [Callers -> Seq(SentRecord)]
  BY DEF CallInv, ServiceTypes
<1>2. \A d \in Callers : d # c => call'[d] = call[d] /\ took'[d] = took[d]
  BY <1>1
<1>3. ServiceTypes'
  BY <1>1 DEF ServiceTypes
<1>4. ASSUME NEW d \in Callers PROVE Attempts(d)'
  <2>1. CASE d # c
    BY <1>2, <2>1 DEF CallInv, Attempts
  <2> QED
    BY <2>1
<1>5. ASSUME NEW d \in Callers PROVE LastId(d)'
  <2>1. CASE d # c
    <3>1. call'[d] = call[d] /\ LastId(d)
      BY <1>2, <2>1 DEF CallInv
    <3>2. call[d].id \in Nat
      <4>1. call[d] \in CallRecord
        BY <1>1
      <4> QED
        BY <4>1 DEF CallRecord
    <3>3. call[d].id <= ids'
      BY <1>1, <3>1, <3>2 DEF LastId
    <3> QED
      BY <3>1, <3>3 DEF LastId
  <2> QED
    BY <2>1
<1>6. ASSUME NEW d \in Callers PROVE Requests(d)'
  <2> SUFFICES ASSUME NEW i \in DOMAIN sent[d]
               PROVE  sent[d][i].id <= ids' /\ sent[d][i].old < Life
    BY DEF Requests
  <2>1. sent[d][i] \in SentRecord
    BY <1>1
  <2>2. sent[d][i].id \in Nat /\ sent[d][i].id <= ids /\ sent[d][i].old < Life
    BY <2>1 DEF CallInv, Requests, SentRecord
  <2> QED
    BY <1>1, <2>2
<1>7. DistinctIds'
  BY DEF CallInv, DistinctIds
<1> QED
  BY <1>3, <1>4, <1>5, <1>6, <1>7 DEF CallInv

\* A request that goes out is its call's last, under an id nothing has had.
LEMMA ExecuteKeeps ==
    ASSUME TokensOutlive, TokenInv, CallInv, NEW c \in Callers, NEW tok \in Nat, Alive(tok),
           call[c].pc \in {"new", "again", "token"}, S!Execute(c, tok)
    PROVE  CallInv'
<1>1. /\ call \in [Callers -> CallRecord] /\ took \in [Callers -> Nat] /\ ids \in Nat
      /\ sent \in [Callers -> Seq(SentRecord)] /\ call[c] \in CallRecord
      /\ sent[c] \in Seq(SentRecord)
  BY DEF CallInv, ServiceTypes
<1>2. PICK m : m = [id |-> ids + 1, tok |-> tok, old |-> IF tok = S!NoToken THEN 0 ELSE age[tok]]
  OBVIOUS
<1>3. m \in SentRecord /\ m.id = ids + 1 /\ m.old < Life
  <2>1. tok # S!NoToken => age[tok] \in Nat /\ age[tok] < Life
    BY DEF Alive, TokenInv, TokenTypes, TokensOutlive
  <2>2. 0 < Life
    BY DEF TokensOutlive
  <2> QED
    BY <1>1, <1>2, <2>1, <2>2 DEF SentRecord
<1>4. PICK r : r = [call[c] EXCEPT !.pc = "flying", !.id = ids + 1]
  OBVIOUS
<1>5. /\ r \in CallRecord /\ r.pc = "flying" /\ r.id = ids + 1 /\ r.resent = call[c].resent
  <2>1. PICK q : q = [call[c] EXCEPT !.pc = "flying"]
    OBVIOUS
  <2>2. q \in CallRecord /\ q.pc = "flying" /\ q.resent = call[c].resent
    BY <1>1, <2>1 DEF CallRecord
  <2>3. r = [q EXCEPT !.id = ids + 1]
    BY <1>4, <2>1
  <2>4. ids + 1 \in Nat
    BY <1>1
  <2> QED
    BY <2>2, <2>3, <2>4 DEF CallRecord
<1>6. /\ call' = [call EXCEPT ![c] = r] /\ sent' = [sent EXCEPT ![c] = Append(sent[c], m)]
      /\ took' = took /\ ids' = ids + 1
  BY <1>1, <1>2, <1>4 DEF S!Execute
<1>7. /\ \A d \in Callers : call'[d] = IF d = c THEN r ELSE call[d]
      /\ \A d \in Callers : sent'[d] = IF d = c THEN Append(sent[c], m) ELSE sent[d]
  BY <1>1, <1>6
<1>8. /\ Len(sent'[c]) = Len(sent[c]) + 1 /\ Len(sent[c]) \in Nat
      /\ \A i \in DOMAIN sent'[c] :
             \/ i = Len(sent[c]) + 1 /\ sent'[c][i] = m
             \/ i \in DOMAIN sent[c] /\ sent'[c][i] = sent[c][i]
      /\ sent'[c][Len(sent'[c])] = m /\ sent'[c] # <<>>
  <2>0. sent'[c] = Append(sent[c], m)
    BY <1>7
  <2>1. sent'[c] = Append(sent[c], m) /\ Len(sent[c]) \in Nat /\ sent[c] \in Seq(SentRecord)
    BY <1>1, <2>0
  <2>2. \A s \in Seq(SentRecord) :
            /\ Len(Append(s, m)) = Len(s) + 1 /\ Append(s, m)[Len(s) + 1] = m
            /\ \A i \in 1..Len(s) : Append(s, m)[i] = s[i]
            /\ DOMAIN Append(s, m) = 1..(Len(s) + 1) /\ DOMAIN s = 1..Len(s)
    BY <1>3
  <2>3. /\ Len(sent'[c]) = Len(sent[c]) + 1 /\ sent'[c][Len(sent[c]) + 1] = m
        /\ \A i \in 1..Len(sent[c]) : sent'[c][i] = sent[c][i]
        /\ DOMAIN sent'[c] = 1..(Len(sent[c]) + 1) /\ DOMAIN sent[c] = 1..Len(sent[c])
    BY <2>1, <2>2
  <2>4. \A i \in 1..(Len(sent[c]) + 1) : i = Len(sent[c]) + 1 \/ i \in 1..Len(sent[c])
    BY <2>1
  <2>5. sent'[c] # <<>>
    BY <2>1, <2>3
  <2>6. sent'[c][Len(sent'[c])] = m
    BY <2>3
  <2>7. \A i \in DOMAIN sent'[c] :
            \/ i = Len(sent[c]) + 1 /\ sent'[c][i] = m
            \/ i \in DOMAIN sent[c] /\ sent'[c][i] = sent[c][i]
    BY <2>3, <2>4
  <2> QED
    BY <2>1, <2>3, <2>5, <2>6, <2>7
<1>9. \A d \in Callers : \A i \in DOMAIN sent[d] :
          sent[d][i].id \in Nat /\ sent[d][i].id <= ids /\ sent[d][i].old < Life
  <2>1. \A d \in Callers : \A i \in DOMAIN sent[d] : sent[d][i] \in SentRecord
    BY <1>1
  <2> QED
    BY <2>1 DEF SentRecord, CallInv, Requests
<1>10. ServiceTypes'
  <2>1. Append(sent[c], m) \in Seq(SentRecord)
    BY <1>1, <1>3
  <2> QED
    BY <1>1, <1>5, <1>6, <2>1 DEF ServiceTypes
<1>11. ASSUME NEW d \in Callers PROVE Attempts(d)'
  <2>1. CASE d = c
    <3>1. /\ call[c].resent => c \in Gets
          /\ Len(sent[c]) = IF call[c].resent THEN 1 ELSE 0
          /\ took[c] <= Len(sent[c]) /\ took[c] \in Nat
      BY <1>1 DEF CallInv, Attempts
    <3>2. /\ took'[c] = took[c] /\ call'[c].pc = "flying" /\ call'[c].resent = call[c].resent
          /\ Len(sent'[c]) = Len(sent[c]) + 1
      BY <1>5, <1>6, <1>7, <1>8
    <3> QED
      BY <1>8, <2>1, <3>1, <3>2 DEF Attempts
  <2>2. CASE d # c
    <3>1. call'[d] = call[d] /\ sent'[d] = sent[d] /\ took' = took
      BY <1>6, <1>7, <2>2
    <3> QED
      BY <3>1 DEF CallInv, Attempts
  <2> QED
    BY <2>1, <2>2
<1>12. ASSUME NEW d \in Callers PROVE LastId(d)'
  <2>1. CASE d = c
    BY <1>1, <1>3, <1>5, <1>6, <1>7, <1>8, <2>1 DEF LastId
  <2>2. CASE d # c
    <3>1. call'[d] = call[d] /\ sent'[d] = sent[d] /\ LastId(d)
      BY <1>7, <2>2 DEF CallInv
    <3>2. call[d].id \in Nat
      <4>1. call[d] \in CallRecord
        BY <1>1
      <4> QED
        BY <4>1 DEF CallRecord
    <3>3. call[d].id <= ids'
      BY <1>1, <1>6, <3>1, <3>2 DEF LastId
    <3> QED
      BY <3>1, <3>3 DEF LastId
  <2> QED
    BY <2>1, <2>2
<1>13. ASSUME NEW d \in Callers PROVE Requests(d)'
  <2>1. CASE d = c
    BY <1>1, <1>3, <1>6, <1>8, <1>9, <2>1 DEF Requests
  <2>2. CASE d # c
    BY <1>1, <1>6, <1>7, <1>9, <2>2 DEF Requests
  <2> QED
    BY <2>1, <2>2
<1>14. DistinctIds'
  <2> SUFFICES ASSUME NEW d \in Callers, NEW e \in Callers,
                      NEW i \in DOMAIN sent'[d], NEW j \in DOMAIN sent'[e],
                      sent'[d][i].id = sent'[e][j].id
               PROVE  d = e /\ i = j
    BY DEF DistinctIds
  <2>1. \/ d = c /\ i = Len(sent[c]) + 1 /\ sent'[d][i] = m
        \/ i \in DOMAIN sent[d] /\ sent'[d][i] = sent[d][i]
    BY <1>7, <1>8
  <2>2. \/ e = c /\ j = Len(sent[c]) + 1 /\ sent'[e][j] = m
        \/ j \in DOMAIN sent[e] /\ sent'[e][j] = sent[e][j]
    BY <1>7, <1>8
  <2>3. \A f \in Callers : \A k \in DOMAIN sent[f] : sent[f][k].id # m.id
    BY <1>1, <1>3, <1>9
  <2> QED
    BY <2>1, <2>2, <2>3 DEF CallInv, DistinctIds
<1> QED
  BY <1>10, <1>11, <1>12, <1>13, <1>14 DEF CallInv

\* A call that ends keeps its history.
LEMMA OverEnds ==
    ASSUME CallInv, NEW c \in Callers, NEW id \in Nat, NEW error \in Errors, S!Over(c, error, id)
    PROVE  \E r \in CallRecord :
               /\ call' = [call EXCEPT ![c] = r]
               /\ r.pc = "over" /\ r.error = error /\ r.id = id /\ r.resent = call[c].resent
<1>1. call \in [Callers -> CallRecord]
  BY DEF CallInv, ServiceTypes
<1>2. PICK k : k = call[c]
  OBVIOUS
<1>3. PICK q : q = [k EXCEPT !.pc = "over"]
  OBVIOUS
<1>4. PICK p : p = [q EXCEPT !.error = error]
  OBVIOUS
<1>5. PICK r : r = [p EXCEPT !.id = id]
  OBVIOUS
<1>6. k \in CallRecord
  BY <1>1, <1>2
<1>7. q \in CallRecord /\ q.pc = "over" /\ q.resent = k.resent
  BY <1>3, <1>6 DEF CallRecord
<1>8. p \in CallRecord /\ p.pc = "over" /\ p.error = error /\ p.resent = k.resent
  BY <1>4, <1>7 DEF CallRecord, Errors
<1>9. r \in CallRecord /\ r.pc = "over" /\ r.error = error /\ r.id = id /\ r.resent = k.resent
  BY <1>5, <1>8 DEF CallRecord
<1>10. call' = [call EXCEPT ![c] = r]
  BY <1>1, <1>2, <1>3, <1>4, <1>5 DEF S!Over
<1> QED
  BY <1>2, <1>9, <1>10

\* An attempt that comes back with a token, without one, or has to wait.
LEMMA SendOnceKeeps ==
    ASSUME TokensOutlive, TokenInv, CallInv, NEW c \in Callers, S!SendOnce(c),
           call[c].pc \in {"new", "again", "token"},
           ask'[c].pc = "got" => ask'[c].tok \in Nat /\ Alive(ask'[c].tok)
    PROVE  CallInv'
<1>1. /\ call \in [Callers -> CallRecord] /\ took \in [Callers -> Nat] /\ ids \in Nat
      /\ call[c] \in CallRecord /\ took[c] \in Nat
  BY DEF CallInv, ServiceTypes
<1>2. /\ call[c].resent => c \in Gets
      /\ Len(sent[c]) = IF call[c].resent THEN 1 ELSE 0
      /\ took[c] <= Len(sent[c]) /\ call[c].id \in Nat /\ call[c].id <= ids
  BY <1>1 DEF CallInv, Attempts, LastId, CallRecord
<1>3. CASE ask'[c].pc = "got"
  BY <1>3, ExecuteKeeps DEF S!SendOnce
<1>4. CASE ask'[c].pc # "got"
  <2>1. PICK r \in CallRecord :
            /\ call' = [call EXCEPT ![c] = r] /\ r.resent = call[c].resent
            /\ r.id \in Nat /\ r.id <= ids
            /\ r.pc = "token" \/ (r.pc = "over" /\ r.error = "identity")
    <3>1. CASE ask'[c].pc = "failed"
      <4>1. S!Over(c, "identity", 0) /\ 0 \in Nat /\ "identity" \in Errors
        BY <1>4, <3>1 DEF S!SendOnce, Errors
      <4>2. PICK r \in CallRecord :
                /\ call' = [call EXCEPT ![c] = r]
                /\ r.pc = "over" /\ r.error = "identity" /\ r.id = 0 /\ r.resent = call[c].resent
        <5>1. \A id \in Nat, error \in Errors : S!Over(c, error, id) =>
                  \E r \in CallRecord :
                      /\ call' = [call EXCEPT ![c] = r]
                      /\ r.pc = "over" /\ r.error = error /\ r.id = id /\ r.resent = call[c].resent
          BY OverEnds
        <5> QED
          BY <4>1, <5>1
      <4>3. r.id \in Nat /\ r.id <= ids
        BY <1>1, <4>2
      <4> QED
        BY <4>2, <4>3
    <3>2. CASE ask'[c].pc # "failed"
      <4>1. PICK k : k = call[c]
        OBVIOUS
      <4>2. PICK r : r = [k EXCEPT !.pc = "token"]
        OBVIOUS
      <4>3. r \in CallRecord /\ r.resent = k.resent /\ r.id = k.id /\ r.pc = "token"
        BY <1>1, <4>1, <4>2 DEF CallRecord
      <4>4. call' = [call EXCEPT ![c] = r]
        BY <1>1, <1>4, <3>2, <4>1, <4>2 DEF S!SendOnce
      <4> QED
        BY <1>2, <4>1, <4>3, <4>4
    <3> QED
      BY <3>1, <3>2
  <2>2. UNCHANGED <<sent, took, ids>>
    BY <1>4 DEF S!SendOnce
  <2>4. call'[c] = r /\ took' = [took EXCEPT ![c] = took[c]] /\ ids <= ids'
    BY <1>1, <2>1, <2>2
  <2>5. Attempts(c)'
    BY <1>1, <1>2, <2>1, <2>2, <2>4 DEF Attempts
  <2>6. LastId(c)'
    BY <1>1, <1>2, <2>1, <2>2, <2>4 DEF LastId
  <2>7. sent' = sent /\ ids' \in Nat
    BY <1>1, <2>2
  <2> QED
    BY <1>1, <2>1, <2>4, <2>5, <2>6, <2>7, CallKeeps
<1> QED
  BY <1>3, <1>4

\* An answer or a close ends the call, or sends a read once more.
LEMMA ArrivesKeeps ==
    ASSUME CallInv, NEW c \in Callers, S!Arrives(c)
    PROVE  CallInv'
<1>1. /\ call \in [Callers -> CallRecord] /\ took \in [Callers -> Nat] /\ ids \in Nat
      /\ call[c] \in CallRecord /\ took[c] \in Nat /\ sent[c] \in Seq(SentRecord)
  BY DEF CallInv, ServiceTypes
<1>2. call[c].pc = "flying" /\ UNCHANGED <<sent, ids>>
  BY DEF S!Arrives, S!Closed, S!Answered
<1>3. /\ call[c].resent => c \in Gets
      /\ Len(sent[c]) = IF call[c].resent THEN 2 ELSE 1
      /\ took[c] < Len(sent[c])
  BY <1>2 DEF CallInv, Attempts
<1>4. /\ call[c].id \in Nat /\ call[c].id <= ids
      /\ sent[c] # <<>> /\ call[c].id = sent[c][Len(sent[c])].id
  BY <1>1, <1>2 DEF CallInv, LastId, CallRecord
<1>5. PICK n \in Nat : took' = [took EXCEPT ![c] = n] /\ n <= took[c] + 1
  <2>1. PICK k \in {0, 1} : took' = [took EXCEPT ![c] = took[c] + k]
    BY DEF S!Arrives
  <2>2. took[c] + k \in Nat /\ took[c] + k <= took[c] + 1
    BY <1>1, <2>1
  <2> QED
    BY <2>1, <2>2
<1>6. PICK r \in CallRecord :
          /\ call' = [call EXCEPT ![c] = r] /\ r.id = call[c].id
          /\ \/ r.pc = "over" /\ r.resent = call[c].resent
             \/ r.pc = "again" /\ r.resent = TRUE /\ c \in Gets /\ ~call[c].resent
  <2>1. CASE \E error \in Errors : S!Over(c, error, call[c].id)
    <3>1. PICK error \in Errors : S!Over(c, error, call[c].id)
      BY <2>1
    <3>2. PICK id : id = call[c].id
      OBVIOUS
    <3>3. id \in Nat /\ S!Over(c, error, id)
      BY <1>4, <3>1, <3>2
    <3>4. PICK r \in CallRecord :
              /\ call' = [call EXCEPT ![c] = r]
              /\ r.pc = "over" /\ r.error = error /\ r.id = id /\ r.resent = call[c].resent
      <4>1. \A i \in Nat, e \in Errors : S!Over(c, e, i) =>
                \E r \in CallRecord :
                    /\ call' = [call EXCEPT ![c] = r]
                    /\ r.pc = "over" /\ r.error = e /\ r.id = i /\ r.resent = call[c].resent
        BY OverEnds
      <4> QED
        BY <3>1, <3>3, <4>1
    <3> QED
      BY <3>2, <3>4
  <2>2. CASE /\ c \in Gets /\ ~call[c].resent
             /\ call' = [call EXCEPT ![c].pc = "again", ![c].resent = TRUE]
    <3>1. PICK k : k = call[c]
      OBVIOUS
    <3>2. PICK q : q = [k EXCEPT !.pc = "again"]
      OBVIOUS
    <3>3. PICK r : r = [q EXCEPT !.resent = TRUE]
      OBVIOUS
    <3>4. q \in CallRecord /\ q.pc = "again" /\ q.id = k.id
      BY <1>1, <3>1, <3>2 DEF CallRecord
    <3>5. r \in CallRecord /\ r.pc = "again" /\ r.id = k.id /\ r.resent = TRUE
      BY <3>3, <3>4 DEF CallRecord
    <3>6. call' = [call EXCEPT ![c] = r]
      BY <1>1, <2>2, <3>1, <3>2, <3>3
    <3> QED
      BY <2>2, <3>1, <3>5, <3>6
  <2>3. "closed" \in Errors /\ "failed" \in Errors /\ Absent \in Errors
    BY DEF Errors
  <2>4. \/ \E error \in {Absent, "failed", "closed"} : S!Over(c, error, call[c].id)
        \/ /\ c \in Gets /\ ~call[c].resent
           /\ call' = [call EXCEPT ![c].pc = "again", ![c].resent = TRUE]
    BY DEF S!Arrives, S!Closed, S!Answered
  <2> QED
    BY <2>1, <2>2, <2>3, <2>4
<1>7. call'[c] = r /\ took'[c] = n /\ sent' = sent /\ ids' = ids
  BY <1>1, <1>2, <1>5, <1>6
<1>8. Attempts(c)'
  BY <1>1, <1>3, <1>5, <1>6, <1>7 DEF Attempts
<1>9. LastId(c)'
  BY <1>1, <1>4, <1>6, <1>7 DEF LastId
<1>10. ids' \in Nat /\ ids <= ids'
  BY <1>1, <1>7
<1> QED
  BY <1>5, <1>6, <1>7, <1>8, <1>9, <1>10, CallKeeps

\* Every step of the calls keeps the invariant, and is one of the token source's.
LEMMA ServiceStep ==
    ASSUME TokensOutlive, ServiceInv, [S!Next]_(S!vars)
    PROVE  ServiceInv' /\ TokenNext
<1>0. TokenInv /\ CallInv
  BY DEF ServiceInv
<1>1. TokenNext
  <2>1. ASSUME NEW c \in Callers, S!Refuse(c) \/ S!Attempt(c) \/ S!TokenArrives(c) \/ S!Arrives(c)
        PROVE  TokenNext
    BY <2>1 DEF S!Refuse, S!Attempt, S!TokenArrives, S!Arrives, TokenNext
  <2> QED
    BY <2>1 DEF S!Next, S!CallStep, S!ServiceTick, TokenNext, S!vars
<1>2. TokenInv'
  BY <1>0, <1>1, TokenStep
<1>3. ASSUME NEW c \in Callers, S!Refuse(c) PROVE CallInv'
  <2>1. /\ call \in [Callers -> CallRecord] /\ took \in [Callers -> Nat] /\ ids \in Nat
        /\ took[c] \in Nat /\ call[c] \in CallRecord
    BY <1>0 DEF CallInv, ServiceTypes
  <2>2. /\ call[c].pc = "new" /\ S!Over(c, "unsendable", ids + 1) /\ ids' = ids + 1
        /\ sent' = sent /\ took' = took
    BY <1>3 DEF S!Refuse
  <2>3. PICK r \in CallRecord :
            /\ call' = [call EXCEPT ![c] = r]
            /\ r.pc = "over" /\ r.error = "unsendable" /\ r.id = ids + 1 /\ r.resent = call[c].resent
    <3>1. \A i \in Nat, e \in Errors : S!Over(c, e, i) =>
              \E r \in CallRecord :
                  /\ call' = [call EXCEPT ![c] = r]
                  /\ r.pc = "over" /\ r.error = e /\ r.id = i /\ r.resent = call[c].resent
      BY <1>0, OverEnds
    <3>2. ids + 1 \in Nat /\ "unsendable" \in Errors
      BY <2>1 DEF Errors
    <3> QED
      BY <2>2, <3>1, <3>2
  <2>4. /\ call[c].resent => c \in Gets
        /\ Len(sent[c]) = IF call[c].resent THEN 1 ELSE 0
        /\ took[c] <= Len(sent[c])
    BY <1>0, <2>2 DEF CallInv, Attempts
  <2>5. call'[c] = r /\ took' = [took EXCEPT ![c] = took[c]]
    BY <2>1, <2>2, <2>3
  <2>6. Attempts(c)'
    BY <2>1, <2>2, <2>3, <2>4, <2>5 DEF Attempts
  <2>7. LastId(c)'
    BY <2>1, <2>2, <2>3, <2>5 DEF LastId
  <2>8. ids' \in Nat /\ ids <= ids'
    BY <2>1, <2>2
  <2> QED
    BY <1>0, <2>1, <2>2, <2>3, <2>5, <2>6, <2>7, <2>8, CallKeeps
<1>4. ASSUME NEW c \in Callers, S!Attempt(c) PROVE CallInv'
  <2>1. call[c].pc \in {"new", "again", "token"}
    BY <1>4 DEF S!Attempt
  <2>2. CASE Loopback
    <3>1. S!Execute(c, S!NoToken)
      BY <1>4, <2>2 DEF S!Attempt
    <3>2. S!NoToken \in Nat /\ Alive(S!NoToken)
      BY DEF S!NoToken, Alive
    <3> QED
      BY <1>0, <2>1, <3>1, <3>2, ExecuteKeeps
  <2>3. CASE ~Loopback
    <3>1. S!Lookup(c) /\ S!SendOnce(c)
      BY <1>4, <2>3 DEF S!Attempt
    <3>2. ask'[c].pc = "got" => ask'[c].tok \in Nat /\ Alive(ask'[c].tok)
      BY <1>0, <3>1, HandedAlive
    <3> QED
      BY <1>0, <2>1, <3>1, <3>2, SendOnceKeeps
  <2> QED
    BY <2>2, <2>3
<1>5. ASSUME NEW c \in Callers, S!TokenArrives(c) PROVE CallInv'
  <2>1. call[c].pc \in {"new", "again", "token"}
    BY <1>5 DEF S!TokenArrives
  <2>2. CASE UNCHANGED S!serviceVars
    BY <1>0, <2>2 DEF S!serviceVars, CallInv, ServiceTypes, Attempts, LastId, Requests, DistinctIds
  <2>3. CASE S!Store(c) /\ S!SendOnce(c)
    <3>2. ask'[c].pc = "got" => ask'[c].tok \in Nat /\ Alive(ask'[c].tok)
      BY <1>0, <2>3, HandedAlive
    <3> QED
      BY <1>0, <2>1, <2>3, <3>2, SendOnceKeeps
  <2>4. CASE S!FetchFails(c) /\ S!SendOnce(c)
    <3>1. ask \in [Callers -> AskRecord]
      BY <1>0 DEF TokenInv, TokenTypes
    <3>2. ask'[c].pc = "failed"
      BY <2>4, <3>1 DEF S!FetchFails
    <3> QED
      BY <1>0, <2>1, <2>4, <3>2, SendOnceKeeps
  <2> QED
    BY <1>5, <2>2, <2>3, <2>4 DEF S!TokenArrives
<1>6. ASSUME UNCHANGED S!serviceVars PROVE CallInv'
  BY <1>0, <1>6 DEF S!serviceVars, CallInv, ServiceTypes, Attempts, LastId, Requests, DistinctIds
<1>7. CallInv'
  <2>1. ASSUME NEW c \in Callers, S!Arrives(c) PROVE CallInv'
    BY <1>0, <2>1, ArrivesKeeps
  <2>2. UNCHANGED S!vars => UNCHANGED S!serviceVars
    BY DEF S!vars
  <2> QED
    BY <1>3, <1>4, <1>5, <1>6, <2>1, <2>2 DEF S!Next, S!CallStep, S!ServiceTick
<1> QED
  BY <1>1, <1>2, <1>7 DEF ServiceInv

\* A client starts with no token, no request and no id.
LEMMA ServiceStart ==
    ASSUME TokensOutlive, S!Init
    PROVE  ServiceInv
<1>1. TokenInv
  <2>1. S!TokenInit
    BY DEF S!Init
  <2>2. minted = 0 /\ \A k \in S!Tokens : age[k] = 0
    BY <2>1 DEF S!TokenInit
  <2>3. cached.tok = 0 /\ ~S!Fresh
    BY <2>1 DEF S!TokenInit, S!Fresh, S!NoToken
  <2>4. \A c \in Callers : ask[c] = [pc |-> "idle", tok |-> 0]
    BY <2>1 DEF S!TokenInit, S!NoToken
  <2>5. TokenTypes
    <3>1. minted \in Nat /\ minted <= MaxMints /\ age \in [S!Tokens -> 0..Life]
      BY <2>1 DEF S!TokenInit, TokensOutlive
    <3>2. cached \in [tok : Nat, since : 0..RefreshAfter] /\ cached.tok <= minted
      BY <2>1 DEF S!TokenInit, TokensOutlive, S!NoToken
    <3>3. ask \in [Callers -> AskRecord] /\ \A c \in Callers : ask[c].tok <= minted
      BY <2>1, <2>2 DEF S!TokenInit, AskRecord, S!NoToken
    <3> QED
      BY <3>1, <3>2, <3>3 DEF TokenTypes
  <2> QED
    BY <2>2, <2>3, <2>4, <2>5 DEF TokenInv, OnItsWay, CachedInTime
<1>2. CallInv
  <2>1. /\ sent = [c \in Callers |-> <<>>] /\ took = [c \in Callers |-> 0] /\ ids = 0
    BY DEF S!Init
  <2>2. PICK s \in [Callers -> BOOLEAN] :
            call = [c \in Callers |-> [pc |-> "new", sendable |-> s[c], resent |-> FALSE,
                                       id |-> 0, error |-> Absent]]
    BY DEF S!Init
  <2>3. \A c \in Callers : /\ sent[c] = <<>> /\ took[c] = 0 /\ call[c].pc = "new"
                           /\ call[c].resent = FALSE /\ call[c].id = 0
    BY <2>1, <2>2
  <2>4. ServiceTypes
    BY <2>1, <2>2 DEF ServiceTypes, CallRecord, Errors
  <2>5. ASSUME NEW c \in Callers PROVE Attempts(c) /\ LastId(c) /\ Requests(c)
    <3>1. Len(sent[c]) = 0 /\ DOMAIN sent[c] = {}
      BY <2>3
    <3> QED
      BY <2>1, <2>3, <3>1 DEF Attempts, LastId, Requests
  <2>6. DistinctIds
    BY <2>3 DEF DistinctIds
  <2> QED
    BY <2>4, <2>5, <2>6 DEF CallInv
<1> QED
  BY <1>1, <1>2 DEF ServiceInv
-----------------------------------------------------------------------------
\* The invariant of the calls and of the token they share holds in every state of
\* a client of `service_client/`, for any calls, tokens and times that fit.
THEOREM ServiceInvariant ==
    S!Spec => []ServiceInv
<1>1. S!Init => ServiceInv
  BY TokenAssumption, ServiceStart
<1>2. ServiceInv /\ [S!Next]_(S!vars) => ServiceInv'
  BY TokenAssumption, ServiceStep
<1> QED
  BY <1>1, <1>2, PTL DEF S!Spec

\* What a caller of `ServiceClient` relies on: only a GET is sent again and so only
\* a read is taken up twice; no two requests share an id and a call that ends
\* names its last; and no request leaves with a token that has expired.
THEOREM CallsAreSoundAlways ==
    S!Spec => []CallsAreSound
<1>1. ASSUME ServiceInv PROVE CallsAreSound
  <2>0. CallInv /\ ServiceTypes
    BY <1>1 DEF ServiceInv, CallInv
  <2>1. S!OnlyReadsRepeat
    <3> SUFFICES ASSUME NEW c \in Callers, Len(sent[c]) > 1 \/ took[c] > 1
                 PROVE  c \in Gets /\ call[c].resent
      BY DEF S!OnlyReadsRepeat
    <3>1. Len(sent[c]) \in Nat /\ took[c] \in Nat
      BY <2>0 DEF ServiceTypes
    <3> QED
      BY <2>0, <3>1 DEF CallInv, Attempts
  <2>2. S!IdsTellAttemptsApart
    BY <2>0 DEF CallInv, DistinctIds, LastId, S!IdsTellAttemptsApart
  <2>3. S!TokenIsAlive
    BY <2>0 DEF CallInv, Requests, S!TokenIsAlive
  <2>4. S!TokenTypeOK
    <3>1. TokenTypes /\ \A c \in Callers : ask[c] \in AskRecord
      BY <1>1 DEF ServiceInv, TokenInv, TokenTypes
    <3> QED
      BY <3>1, TokenAssumption DEF TokenTypes, S!TokenTypeOK, AskRecord, TokensOutlive
  <2>5. S!TypeOK
    <3>1. ids \in Nat
      BY <2>0 DEF ServiceTypes
    <3>2. ASSUME NEW c \in Callers
          PROVE  /\ call[c].pc \in {"new", "token", "flying", "again", "over"}
                 /\ call[c].resent \in BOOLEAN /\ call[c].id \in 0..ids
                 /\ Len(sent[c]) <= 2 /\ took[c] <= Len(sent[c])
      <4>1. call[c] \in CallRecord /\ sent[c] \in Seq(SentRecord)
        BY <2>0 DEF ServiceTypes
      <4>2. Len(sent[c]) \in Nat /\ Attempts(c) /\ LastId(c)
        BY <2>0, <4>1 DEF CallInv
      <4>3. /\ call[c].pc \in {"new", "token", "flying", "again", "over"}
            /\ call[c].resent \in BOOLEAN /\ call[c].id \in Nat
        BY <4>1 DEF CallRecord
      <4>4. call[c].id \in 0..ids
        BY <3>1, <4>2, <4>3 DEF LastId
      <4>5. Len(sent[c]) <= 2 /\ took[c] <= Len(sent[c])
        BY <4>2, <4>3 DEF Attempts
      <4> QED
        BY <4>3, <4>4, <4>5
    <3> QED
      BY <2>4, <3>2 DEF S!TypeOK
  <2> QED
    BY <2>1, <2>2, <2>3, <2>5 DEF CallsAreSound
<1>2. ServiceInv => CallsAreSound
  BY <1>1
<1> QED
  BY <1>2, ServiceInvariant, PTL

\* A token once cached by the `TokenSource` is only ever replaced by one the
\* metadata server minted later, however slow the answers and however many
\* callers refresh at once.
THEOREM CacheGoesForward ==
    S!Spec => CacheNeverGoesBack
<1>1. ServiceInv /\ [S!Next]_(S!vars) => [cached'.tok >= cached.tok]_(S!tokenVars)
  <2> SUFFICES ASSUME ServiceInv, [S!Next]_(S!vars)
               PROVE  cached'.tok >= cached.tok
    OBVIOUS
  <2>1. TokenNext /\ TokenInv
    BY TokenAssumption, ServiceStep DEF ServiceInv
  <2> QED
    BY <2>1, TokenAssumption, TokenStep
<1> QED
  BY <1>1, ServiceInvariant, PTL DEF S!Spec, S!CacheNeverGoesBack, CacheNeverGoesBack
-----------------------------------------------------------------------------
(* Guarded fetches.                                                        *)

\* The URL being connected to has been asked for, so the policy has judged it.
FetchInv ==
    /\ F!TypeOK /\ handed \in Nat
    /\ F!DialsOnlyPublic /\ F!EveryHopIsAdmitted /\ F!BodyWithinCap
    /\ fpc = "connect" => url \in asked

\* A judgement is None or a refusal, and never the name of a state of a fetch.
LEMMA Judgements ==
    /\ \A p, u : F!Check(p, u) \in Refusals \cup {Absent}
    /\ \A p, a : F!Vetted(p, a) \in Refusals \cup {Absent}
    /\ "connect" \notin Refusals
<1>1. ASSUME NEW p, NEW u PROVE F!Check(p, u) \in Refusals \cup {Absent}
  <2>1. F!HostAdmitted(p.entries, u) \in {Absent, "host_not_allowed", "path_not_allowed"}
    BY DEF F!HostAdmitted
  <2> QED
    BY <2>1 DEF F!Check, Refusals
<1>2. ASSUME NEW p, NEW a PROVE F!Vetted(p, a) \in Refusals \cup {Absent}
  BY DEF F!Vetted, Refusals
<1>3. "connect" \notin Refusals
  BY DEF Refusals
<1> QED
  BY <1>1, <1>2, <1>3

\* What the policy admits by its address is not on the deny list, and neither is any
\* address of an answer the resolver vetted.
LEMMA AdmittedIsPublic ==
    ASSUME LimitsAreNumbers, NEW p, F!AppliesDenyList(p)
    PROVE  /\ \A u : F!Check(p, u) = Absent /\ u.kind = "literal" => u.host \notin DeniedIps
           /\ \A a : F!Vetted(p, a) = Absent => a \cap DeniedIps = {}
<1>1. Absent # "denied_address" /\ Absent # "unresolvable"
  BY DEF LimitsAreNumbers, Refusals
<1>2. Absent \notin {"scheme_not_allowed", "credentials_in_url", "port_not_allowed", "missing_host", "local_name"}
  BY DEF LimitsAreNumbers, Refusals
<1>3. ASSUME NEW u, F!Check(p, u) = Absent, u.kind = "literal" PROVE u.host \notin DeniedIps
  BY <1>1, <1>2, <1>3 DEF F!Check
<1>4. ASSUME NEW a, F!Vetted(p, a) = Absent PROVE a \cap DeniedIps = {}
  BY <1>1, <1>4 DEF F!Vetted
<1> QED
  BY <1>3, <1>4

\* Every step of a fetch keeps the invariant.
LEMMA FetchStep ==
    ASSUME LimitsAreNumbers, FetchInv, [F!Next]_(F!vars)
    PROVE  FetchInv'
<1>0. /\ policy \in Policies /\ dns \in [F!Names -> Answers] /\ url \in Urls \cup {Absent}
      /\ asked \subseteq Urls /\ hops \in Nat /\ hops <= MaxRedirects
      /\ elapsed \in Nat /\ elapsed <= Total /\ quiet \in Nat /\ quiet <= Idle /\ handed \in Nat
      /\ handed <= MaxBody
  BY DEF FetchInv, F!TypeOK, F!BodyWithinCap, LimitsAreNumbers
<1>1. CASE UNCHANGED F!vars
  BY <1>1 DEF F!vars, FetchInv, F!TypeOK, F!DialsOnlyPublic, F!EveryHopIsAdmitted, F!BodyWithinCap
<1>2. CASE F!Rebind
  <2>1. UNCHANGED <<policy, fpc, url, hops, dialed, asked, handed, elapsed, quiet>>
    BY <1>2 DEF F!Rebind
  <2>2. dns' \in [F!Names -> Answers]
    BY <1>0, <1>2 DEF F!Rebind
  <2> QED
    BY <2>1, <2>2 DEF FetchInv, F!TypeOK, F!DialsOnlyPublic, F!EveryHopIsAdmitted, F!BodyWithinCap
<1>3. CASE F!Connect
  <2>1. /\ fpc = "connect" /\ UNCHANGED <<policy, dns, url, hops, asked, handed, elapsed, quiet>>
        /\ fpc' # "connect"
    <3>1. fpc = "connect" /\ UNCHANGED <<policy, dns, url, hops, asked, handed, elapsed, quiet>>
      BY <1>3 DEF F!Connect
    <3>2. fpc' = "send" \/ (fpc' # Absent /\ \E a : fpc' = F!Vetted(policy, a))
      BY <1>3 DEF F!Connect
    <3> QED
      BY <3>1, <3>2, Judgements
  <2>2. ASSUME F!AppliesDenyList(policy) PROVE dialed' \cap DeniedIps = {}
    <3>1. dialed \cap DeniedIps = {} /\ F!Check(policy, url) = Absent
      BY <2>1, <2>2 DEF FetchInv, F!DialsOnlyPublic, F!EveryHopIsAdmitted
    <3>2. \/ dialed' = dialed
          \/ url.kind = "literal" /\ dialed' = dialed \cup {url.host}
          \/ \E ip \in dns[url.host] : /\ F!Vetted(policy, dns[url.host]) = Absent
                                       /\ dialed' = dialed \cup {ip}
      BY <1>3 DEF F!Connect
    <3> QED
      BY <2>2, <3>1, <3>2, AdmittedIsPublic
  <2> QED
    BY <2>1, <2>2 DEF FetchInv, F!TypeOK, F!DialsOnlyPublic, F!EveryHopIsAdmitted, F!BodyWithinCap,
                      F!AppliesDenyList
<1>4. ASSUME NEW u \in Urls, F!Rejected(u) PROVE FetchInv'
  <2>1. /\ UNCHANGED <<policy, dns, url, hops, dialed, asked, handed, elapsed, quiet>>
        /\ F!Validate(u) # Absent /\ fpc' = F!Validate(u)
    BY <1>4 DEF F!Rejected
  <2>2. F!Validate(u) \in Refusals \cup {Absent}
    BY Judgements DEF F!Validate
  <2>3. fpc' # "connect"
    BY <2>1, <2>2, Judgements
  <2> QED
    BY <2>1, <2>3 DEF FetchInv, F!TypeOK, F!DialsOnlyPublic, F!EveryHopIsAdmitted, F!BodyWithinCap
<1>5. ASSUME NEW u \in Urls, F!Request(u) PROVE FetchInv'
  <2>1. UNCHANGED <<policy, dns, hops, dialed, handed, elapsed, quiet>>
    BY <1>5 DEF F!Request
  <2>2. \/ /\ F!Check(policy, u) # Absent /\ fpc' = F!Check(policy, u) /\ UNCHANGED <<url, asked>>
        \/ F!Check(policy, u) = Absent /\ url' = u /\ asked' = {u}
    BY <1>5 DEF F!Request
  <2>3. fpc' = "connect" => url' \in asked'
    BY <2>2, Judgements
  <2>4. asked' \subseteq Urls /\ url' \in Urls \cup {Absent} /\ \A v \in asked' : F!Check(policy, v) = Absent
    BY <1>0, <2>2 DEF FetchInv, F!EveryHopIsAdmitted
  <2> QED
    BY <2>1, <2>3, <2>4 DEF FetchInv, F!TypeOK, F!DialsOnlyPublic, F!EveryHopIsAdmitted, F!BodyWithinCap
<1>6. ASSUME NEW u \in Urls, F!Redirected(u) PROVE FetchInv'
  <2>1. UNCHANGED <<policy, dns, dialed, handed, elapsed, quiet>>
    BY <1>6 DEF F!Redirected
  <2>2. \/ /\ fpc' # Absent /\ fpc' \in {"too_many_redirects", F!Check(policy, u)}
           /\ UNCHANGED <<url, hops, asked>>
        \/ /\ F!Check(policy, u) = Absent /\ ~(hops + 1 > F!Redirects(policy))
           /\ url' = u /\ hops' = hops + 1 /\ asked' = asked \cup {u}
    BY <1>6 DEF F!Redirected, LimitsAreNumbers, Refusals
  <2>3. fpc' = "connect" => url' \in asked'
    <3>1. "too_many_redirects" \in Refusals
      BY DEF Refusals
    <3> QED
      BY <2>2, <3>1, Judgements
  <2>4. asked' \subseteq Urls /\ url' \in Urls \cup {Absent} /\ \A v \in asked' : F!Check(policy, v) = Absent
    BY <1>0, <2>2 DEF FetchInv, F!EveryHopIsAdmitted
  <2>5. hops' \in 0..MaxRedirects /\ hops' <= F!Redirects(policy)
    <3>1. F!Redirects(policy) \in Nat /\ F!Redirects(policy) <= MaxRedirects /\ hops <= F!Redirects(policy)
      BY DEF F!Redirects, LimitsAreNumbers, FetchInv, F!EveryHopIsAdmitted
    <3> QED
      BY <1>0, <2>2, <3>1 DEF LimitsAreNumbers
  <2> QED
    BY <2>1, <2>3, <2>4, <2>5 DEF FetchInv, F!TypeOK, F!DialsOnlyPublic, F!EveryHopIsAdmitted,
                                  F!BodyWithinCap, F!Redirects
<1>7. CASE F!Responds \/ F!BodyEnds \/ F!Fails \/ F!TimesOut
  <2>1. UNCHANGED <<policy, dns, url, hops, dialed, asked, handed, elapsed>>
    BY <1>7 DEF F!Responds, F!BodyEnds, F!Fails, F!TimesOut
  <2>2. fpc' # "connect" /\ quiet' \in 0..Idle
    BY <1>0, <1>7 DEF F!Responds, F!BodyEnds, F!Fails, F!TimesOut, LimitsAreNumbers
  <2> QED
    BY <2>1, <2>2 DEF FetchInv, F!TypeOK, F!DialsOnlyPublic, F!EveryHopIsAdmitted, F!BodyWithinCap
<1>8. ASSUME NEW n \in 0..2, F!Chunk(n) PROVE FetchInv'
  <2>1. UNCHANGED <<policy, dns, url, hops, dialed, asked, elapsed>> /\ fpc' # "connect"
    BY <1>8 DEF F!Chunk
  <2>2. handed' \in Nat /\ handed' <= MaxBody /\ quiet' \in 0..Idle
    BY <1>0, <1>8 DEF F!Chunk, LimitsAreNumbers
  <2> QED
    BY <2>1, <2>2 DEF FetchInv, F!TypeOK, F!DialsOnlyPublic, F!EveryHopIsAdmitted, F!BodyWithinCap
<1>9. CASE F!Tick
  <2>1. UNCHANGED <<policy, dns, fpc, url, hops, dialed, asked, handed>>
    BY <1>9 DEF F!Tick
  <2>2. elapsed' \in 0..Total /\ quiet' \in 0..Idle
    BY <1>0, <1>9 DEF F!Tick, F!Expired, LimitsAreNumbers
  <2> QED
    BY <2>1, <2>2 DEF FetchInv, F!TypeOK, F!DialsOnlyPublic, F!EveryHopIsAdmitted, F!BodyWithinCap
<1> QED
  BY <1>1, <1>2, <1>3, <1>4, <1>5, <1>6, <1>7, <1>8, <1>9 DEF F!Next

\* However names are rebound and redirects chained, a fetch by `http_client/guard/`
\* connects to no denied address under a policy with a deny list, requests only
\* URLs its policy admits, follows no more redirects than it allows, and hands
\* over no more of a body than the cap; every variable keeps its type.
THEOREM FetchIsGuarded ==
    F!Spec => []FetchStaysInside
<1>1. F!Init => FetchInv
  <2> SUFFICES ASSUME F!Init PROVE FetchInv
    OBVIOUS
  <2>1. /\ policy \in Policies /\ dns \in [F!Names -> Answers] /\ fpc = "idle" /\ url = Absent
        /\ hops = 0 /\ dialed = {} /\ asked = {} /\ handed = 0 /\ elapsed = 0 /\ quiet = 0
    BY DEF F!Init
  <2> QED
    BY <2>1, LimitsAssumption DEF FetchInv, F!TypeOK, F!DialsOnlyPublic, F!EveryHopIsAdmitted, F!BodyWithinCap,
                F!Redirects, LimitsAreNumbers
<1>2. FetchInv /\ [F!Next]_(F!vars) => FetchInv'
  BY LimitsAssumption, FetchStep
<1>3. FetchInv => FetchStaysInside
  BY DEF FetchInv, FetchStaysInside
<1> QED
  BY <1>1, <1>2, <1>3, PTL DEF F!Spec
-----------------------------------------------------------------------------
(* Senders.                                                                *)

MessageTypes ==
    /\ spc \in [D!Messages -> {"new", "sending", "waiting", "accepted", "failed", "refused", "gave_up"}]
    /\ attempt \in [D!Messages -> Nat] /\ waited \in [D!Messages -> Nat]
    /\ backoff \in [D!Messages -> Nat] /\ step \in [D!Messages -> 1..3]
    /\ uuids \in [D!Messages -> {0, 1}] /\ taken \in [D!Messages -> Seq(0..3)]
    /\ logs \in [D!Messages -> {"none", "warn", "error"}]

\* A mail that is still to be sent was not taken, and each retry cost one wait.
MailKept(i) ==
    /\ spc[i] \in {"new", "sending", "waiting"} => taken[i] = <<>>
    /\ Len(taken[i]) <= 1
    /\ attempt[i] <= MaxRetries + 1 /\ waited[i] <= MaxRetries * 5000
    /\ spc[i] = "new" => attempt[i] = 0 /\ waited[i] = 0
    /\ spc[i] = "sending" => attempt[i] >= 1 /\ waited[i] <= (attempt[i] - 1) * 5000
    /\ spc[i] = "waiting" => attempt[i] <= MaxRetries /\ waited[i] <= attempt[i] * 5000

\* A Slack message is never sent again.
SlackKept(i) ==
    /\ spc[i] \in {"new", "sending"} => taken[i] = <<>>
    /\ spc[i] # "waiting" /\ Len(taken[i]) <= 1

\* A capture has one uuid from its first request on.
CaptureKept(i) ==
    /\ \A n \in DOMAIN taken[i] : taken[i][n] = 1
    /\ spc[i] = "sending" => uuids[i] = 1
    /\ attempt[i] <= MaxAttempts
    /\ spc[i] = "new" => attempt[i] = 0
    /\ spc[i] = "waiting" => attempt[i] < MaxAttempts

\* An upload completes what it posted.
UploadKept(i) ==
    /\ \A n \in DOMAIN taken[i] : taken[i][n] = 3 => \E k \in 1..(n - 1) : taken[i][k] = 2
    /\ step[i] = 3 => \E k \in DOMAIN taken[i] : taken[i][k] = 2

Kept(i) ==
    /\ i \in Mails => MailKept(i)
    /\ i \in Slack => SlackKept(i)
    /\ i \in Captures => CaptureKept(i)
    /\ i \in Uploads => UploadKept(i)

SenderInv == MessageTypes /\ \A i \in D!Messages : Kept(i)

\* A step of one message leaves the others as they are.
OnlyOf(i) ==
    \A j \in D!Messages : j # i =>
        /\ spc'[j] = spc[j] /\ attempt'[j] = attempt[j] /\ waited'[j] = waited[j]
        /\ step'[j] = step[j] /\ uuids'[j] = uuids[j] /\ taken'[j] = taken[j]

\* So only its own part of the invariant is in question.
LEMMA OthersKept ==
    ASSUME SenderInv, NEW i \in D!Messages, MessageTypes', OnlyOf(i), Kept(i)'
    PROVE  SenderInv'
<1>1. ASSUME NEW j \in D!Messages, j # i PROVE Kept(j)'
  <2>1. /\ spc'[j] = spc[j] /\ attempt'[j] = attempt[j] /\ waited'[j] = waited[j]
        /\ step'[j] = step[j] /\ uuids'[j] = uuids[j] /\ taken'[j] = taken[j]
    BY <1>1 DEF OnlyOf
  <2>2. Kept(j)
    BY DEF SenderInv
  <2>3. j \in Mails => MailKept(j)'
    BY <2>1, <2>2 DEF Kept, MailKept
  <2>4. j \in Slack => SlackKept(j)'
    BY <2>1, <2>2 DEF Kept, SlackKept
  <2>5. j \in Captures => CaptureKept(j)'
    BY <2>1, <2>2 DEF Kept, CaptureKept
  <2>6. j \in Uploads => UploadKept(j)'
    BY <2>1, <2>2 DEF Kept, UploadKept
  <2> QED
    BY <2>3, <2>4, <2>5, <2>6 DEF Kept
<1> QED
  BY <1>1 DEF SenderInv

\* What one more of a sequence of numbers is.
LEMMA OneMore ==
    ASSUME NEW s \in Seq(0..3), NEW x \in 0..3
    PROVE  /\ Append(s, x) \in Seq(0..3) /\ Len(Append(s, x)) = Len(s) + 1 /\ Len(s) \in Nat
           /\ DOMAIN Append(s, x) = 1..(Len(s) + 1) /\ DOMAIN s = 1..Len(s)
           /\ Append(s, x)[Len(s) + 1] = x /\ \A n \in 1..Len(s) : Append(s, x)[n] = s[n]
OBVIOUS

\* What the service takes is added to what it took of the message.
LEMMA TakenOf ==
    ASSUME MessageTypes, NEW i \in D!Messages, NEW o \in D!Outcomes, D!Taken(i, o)
    PROVE  /\ taken' \in [D!Messages -> Seq(0..3)]
           /\ \A j \in D!Messages : j # i => taken'[j] = taken[j]
           /\ taken'[i] = IF o.took THEN Append(taken[i], uuids[i]) ELSE taken[i]
<1>1. taken \in [D!Messages -> Seq(0..3)] /\ uuids[i] \in 0..3 /\ taken[i] \in Seq(0..3)
  BY DEF MessageTypes
<1>2. Append(taken[i], uuids[i]) \in Seq(0..3)
  BY <1>1, OneMore
<1> QED
  BY <1>1, <1>2 DEF D!Taken

\* Each outcome the sender sees tells whether the service took the request where the
\* sender relies on it.
LEMMA OutcomesTell ==
    ASSUME NEW o \in D!Outcomes
    PROVE  /\ o.took \in BOOLEAN
           /\ o.seen = "ok" => o.took
           /\ o.seen = "rate_limited" => ~o.took
<1>1. /\ o.took = TRUE \/ o.took = FALSE
      /\ o.took = FALSE => o.seen # "ok"
      /\ o.took = TRUE => o.seen # "rate_limited"
  BY DEF D!Outcomes
<1> QED
  BY <1>1

\* A wait that is planned is short, and there are retries left for it.
LEMMA PlannedWait ==
    ASSUME MessagesApart, NEW n \in Int, NEW hint \in D!Hints, D!PlanRetry(n, hint) # D!NoHint
    PROVE  n < MaxRetries /\ D!PlanRetry(n, hint) \in 0..5000
<1>1. PICK d : d = IF hint = -1 THEN 1000 ELSE hint
  OBVIOUS
<1>2. d \in Nat
  BY <1>1 DEF D!Hints, D!NoHint
<1>3. ~(n >= MaxRetries \/ d > 5000) /\ D!PlanRetry(n, hint) = D!Max({d, 200})
  BY <1>1 DEF D!PlanRetry, D!NoHint, D!DefaultRetryDelay, D!MaxRetryDelay, D!RetryDelayFloor
<1>4. D!Max({d, 200}) \in {d, 200}
  <2>1. \E x \in {d, 200} : \A y \in {d, 200} : x >= y
    BY <1>2
  <2> QED
    BY <2>1 DEF D!Max
<1>5. n < MaxRetries /\ d <= 5000
  BY <1>2, <1>3 DEF MessagesApart
<1>6. D!PlanRetry(n, hint) \in {d, 200}
  BY <1>3, <1>4
<1>7. \A w \in {d, 200} : w \in 0..5000
  BY <1>2, <1>5
<1> QED
  BY <1>5, <1>6, <1>7

\* A request leaves.
LEMMA StartKeeps ==
    ASSUME MessagesApart, SenderInv, NEW i \in D!Messages, D!Start(i)
    PROVE  SenderInv'
<1>0. MessageTypes /\ Kept(i) /\ attempt[i] \in Nat /\ uuids[i] \in {0, 1} /\ waited[i] \in Nat
  BY DEF SenderInv, MessageTypes
<1>1. PICK u : u = IF uuids[i] = 0 THEN 1 ELSE uuids[i]
  OBVIOUS
<1>2. /\ spc[i] \in {"new", "waiting"} /\ spc' = [spc EXCEPT ![i] = "sending"]
      /\ attempt' = [attempt EXCEPT ![i] = attempt[i] + 1] /\ uuids' = [uuids EXCEPT ![i] = u]
      /\ waited' = waited /\ backoff' = backoff /\ step' = step /\ taken' = taken /\ logs' = logs
  BY <1>1 DEF D!Start
<1>3. u = 1
  BY <1>0, <1>1
<1>4. MessageTypes'
  BY <1>0, <1>2, <1>3 DEF MessageTypes
<1>5. /\ spc'[i] = "sending" /\ attempt'[i] = attempt[i] + 1 /\ uuids'[i] = 1
      /\ waited'[i] = waited[i] /\ step'[i] = step[i] /\ taken'[i] = taken[i]
  BY <1>0, <1>2, <1>3 DEF MessageTypes
<1>6. OnlyOf(i)
  BY <1>0, <1>2 DEF OnlyOf, MessageTypes
<1>7. i \in Mails => MailKept(i)'
  BY <1>0, <1>2, <1>5 DEF Kept, MailKept, MessagesApart
<1>8. i \in Slack => SlackKept(i)'
  BY <1>0, <1>2, <1>5 DEF Kept, SlackKept
<1>9. i \in Captures => CaptureKept(i)'
  BY <1>0, <1>2, <1>5 DEF Kept, CaptureKept, MessagesApart
<1>10. i \in Uploads => UploadKept(i)'
  BY <1>0, <1>2, <1>5 DEF Kept, UploadKept
<1>11. Kept(i)'
  BY <1>7, <1>8, <1>9, <1>10 DEF Kept
<1> QED
  BY <1>4, <1>6, <1>11, OthersKept

\* The answer to a mail: only what the service did not take is sent again.
LEMMA MailKeeps ==
    ASSUME MessagesApart, SenderInv, NEW i \in D!Messages, NEW o \in D!Outcomes,
           NEW hint \in D!Hints, D!MailAnswered(i, o, hint)
    PROVE  SenderInv'
<1>0. /\ MessageTypes /\ Kept(i) /\ attempt[i] \in Nat /\ waited[i] \in Nat
      /\ uuids[i] \in 0..3 /\ taken[i] \in Seq(0..3)
  BY DEF SenderInv, MessageTypes
<1>1. i \in Mails /\ i \notin Slack /\ i \notin Captures /\ i \notin Uploads
  BY DEF D!MailAnswered, MessagesApart
<1>2. /\ spc[i] = "sending" /\ attempt' = attempt /\ backoff' = backoff /\ step' = step
      /\ uuids' = uuids /\ D!Taken(i, o)
  BY DEF D!MailAnswered
<1>3. /\ taken[i] = <<>> /\ attempt[i] >= 1 /\ attempt[i] <= MaxRetries + 1
      /\ waited[i] <= (attempt[i] - 1) * 5000
  BY <1>0, <1>1, <1>2 DEF Kept, MailKept
<1>4. /\ taken' \in [D!Messages -> Seq(0..3)] /\ \A j \in D!Messages : j # i => taken'[j] = taken[j]
      /\ taken'[i] = IF o.took THEN Append(taken[i], uuids[i]) ELSE taken[i]
  BY <1>0, <1>2, TakenOf
<1>5. Len(taken'[i]) <= 1
  <2>1. Len(Append(taken[i], uuids[i])) = 1 /\ Len(taken[i]) = 0
    BY <1>0, <1>3, OneMore
  <2> QED
    BY <1>4, <2>1
<1>6. CASE o.seen = "rate_limited" /\ D!PlanRetry(attempt[i] - 1, hint) # D!NoHint
  <2>1. PICK n \in Int : n = attempt[i] - 1
    BY <1>0
  <2>2. PICK d : d = D!PlanRetry(n, hint)
    OBVIOUS
  <2>10. n < MaxRetries /\ d \in 0..5000
    <3>1. n < MaxRetries /\ D!PlanRetry(n, hint) \in 0..5000
      BY <1>6, <2>1, PlannedWait
    <3> QED
      BY <2>2, <3>1
  <2>11. /\ waited[i] + d \in Nat /\ attempt[i] <= MaxRetries
         /\ waited[i] + d <= attempt[i] * 5000 /\ waited[i] + d <= MaxRetries * 5000
    <3>1. PICK a \in Nat, w \in Nat, m \in Nat : a = attempt[i] /\ w = waited[i] /\ m = MaxRetries
      BY <1>0 DEF MessagesApart
    <3>2. a - 1 < m /\ w <= (a - 1) * 5000
      BY <1>3, <2>1, <2>10, <3>1
    <3>3. w + d \in Nat /\ a <= m /\ w + d <= a * 5000 /\ w + d <= m * 5000
      BY <2>10, <3>2
    <3> QED
      BY <3>1, <3>3
  <2>3. /\ spc' = [spc EXCEPT ![i] = "waiting"] /\ logs' = logs
        /\ waited' = [waited EXCEPT ![i] = waited[i] + d]
    BY <1>6, <2>1, <2>2 DEF D!MailAnswered, D!Waits
  <2>4. taken'[i] = <<>>
    BY <1>3, <1>4, <1>6, OutcomesTell
  <2>5. MessageTypes'
    BY <1>0, <1>2, <1>4, <2>11, <2>3 DEF MessageTypes
  <2>6. OnlyOf(i)
    BY <1>0, <1>2, <1>4, <2>3 DEF OnlyOf, MessageTypes
  <2>7. spc'[i] = "waiting" /\ waited'[i] = waited[i] + d /\ attempt'[i] = attempt[i]
    BY <1>0, <1>2, <2>3 DEF MessageTypes
  <2>8. MailKept(i)'
    BY <1>3, <1>5, <2>4, <2>7, <2>11 DEF MailKept
  <2>9. Kept(i)'
    BY <1>1, <2>8 DEF Kept
  <2> QED
    BY <2>5, <2>6, <2>9, OthersKept
<1>7. CASE ~(o.seen = "rate_limited" /\ D!PlanRetry(attempt[i] - 1, hint) # D!NoHint)
  <2>1. PICK how \in {"accepted", "failed"}, log \in {"none", "warn"} : D!Ends(i, how, log)
    BY <1>7 DEF D!MailAnswered
  <2>3. /\ spc' = [spc EXCEPT ![i] = how] /\ logs' = [logs EXCEPT ![i] = log] /\ waited' = waited
    BY <2>1 DEF D!Ends
  <2>5. MessageTypes'
    BY <1>0, <1>2, <1>4, <2>1, <2>3 DEF MessageTypes
  <2>6. OnlyOf(i)
    BY <1>0, <1>2, <1>4, <2>3 DEF OnlyOf, MessageTypes
  <2>7. spc'[i] \in {"accepted", "failed"} /\ waited'[i] = waited[i] /\ attempt'[i] = attempt[i]
    BY <1>0, <1>2, <2>1, <2>3 DEF MessageTypes
  <2>8. MailKept(i)'
    BY <1>0, <1>3, <1>5, <2>7 DEF MailKept, MessagesApart
  <2>9. Kept(i)'
    BY <1>1, <2>8 DEF Kept
  <2> QED
    BY <2>5, <2>6, <2>9, OthersKept
<1> QED
  BY <1>6, <1>7

\* The answer to a capture: whatever is sent again is the same event.
LEMMA CaptureKeeps ==
    ASSUME MessagesApart, SenderInv, NEW i \in D!Messages, NEW o \in D!Outcomes,
           D!CaptureAnswered(i, o)
    PROVE  SenderInv'
<1>0. /\ MessageTypes /\ Kept(i) /\ attempt[i] \in Nat /\ waited[i] \in Nat /\ backoff[i] \in Nat
      /\ uuids[i] \in 0..3 /\ taken[i] \in Seq(0..3)
  BY DEF SenderInv, MessageTypes
<1>1. i \in Captures /\ i \notin Slack /\ i \notin Mails /\ i \notin Uploads
  BY DEF D!CaptureAnswered, MessagesApart
<1>2. /\ spc[i] = "sending" /\ attempt' = attempt /\ step' = step
      /\ uuids' = uuids /\ D!Taken(i, o)
  BY DEF D!CaptureAnswered
<1>3. uuids[i] = 1 /\ attempt[i] <= MaxAttempts /\ \A n \in DOMAIN taken[i] : taken[i][n] = 1
  BY <1>0, <1>1, <1>2 DEF Kept, CaptureKept
<1>4. /\ taken' \in [D!Messages -> Seq(0..3)] /\ \A j \in D!Messages : j # i => taken'[j] = taken[j]
      /\ taken'[i] = IF o.took THEN Append(taken[i], uuids[i]) ELSE taken[i]
  BY <1>0, <1>2, TakenOf
<1>5. \A n \in DOMAIN taken'[i] : taken'[i][n] = 1
  <2>1. CASE taken'[i] = taken[i]
    BY <1>3, <2>1
  <2>2. CASE taken'[i] = Append(taken[i], 1)
    <3>1. PICK s : s = taken[i]
      OBVIOUS
    <3>2. s \in Seq(0..3) /\ \A n \in DOMAIN s : s[n] = 1
      BY <1>0, <1>3, <3>1
    <3>3. \A n \in DOMAIN Append(s, 1) : Append(s, 1)[n] = 1
      BY <3>2, OneMore
    <3> QED
      BY <2>2, <3>1, <3>3
  <2> QED
    BY <1>3, <1>4, <2>1, <2>2
<1>6. PICK how, w, b, log :
          /\ spc' = [spc EXCEPT ![i] = how] /\ waited' = [waited EXCEPT ![i] = w]
          /\ backoff' = [backoff EXCEPT ![i] = b] /\ logs' = [logs EXCEPT ![i] = log]
          /\ w \in Nat /\ b \in Nat /\ log \in {"none", "warn", "error"}
          /\ how \in {"waiting", "accepted", "refused", "gave_up"}
          /\ how = "waiting" => attempt[i] < MaxAttempts
  <2>1. CASE D!Waits(i, backoff[i]) /\ backoff' = [backoff EXCEPT ![i] = 2 * backoff[i]] /\ ~(attempt[i] >= MaxAttempts)
    <3>1. /\ spc' = [spc EXCEPT ![i] = "waiting"] /\ waited' = [waited EXCEPT ![i] = waited[i] + backoff[i]]
          /\ logs' = [logs EXCEPT ![i] = logs[i]] /\ logs[i] \in {"none", "warn", "error"}
      BY <1>0, <2>1 DEF D!Waits, MessageTypes
    <3>2. waited[i] + backoff[i] \in Nat /\ 2 * backoff[i] \in Nat /\ attempt[i] < MaxAttempts
      BY <1>0, <2>1 DEF MessagesApart
    <3> QED
      BY <2>1, <3>1, <3>2
  <2>2. CASE \E how \in {"accepted", "refused", "gave_up"}, log \in {"none", "warn"} :
                 D!Ends(i, how, log) /\ backoff' = backoff
    <3>1. PICK how \in {"accepted", "refused", "gave_up"}, log \in {"none", "warn"} :
                 D!Ends(i, how, log) /\ backoff' = backoff
      BY <2>2
    <3>2. /\ spc' = [spc EXCEPT ![i] = how] /\ logs' = [logs EXCEPT ![i] = log]
          /\ waited' = [waited EXCEPT ![i] = waited[i]] /\ backoff' = [backoff EXCEPT ![i] = backoff[i]]
      BY <1>0, <3>1 DEF D!Ends, MessageTypes
    <3> QED
      BY <1>0, <3>1, <3>2
  <2> QED
    BY <2>1, <2>2 DEF D!CaptureAnswered
<1>7. MessageTypes'
  BY <1>0, <1>2, <1>4, <1>6 DEF MessageTypes
<1>8. OnlyOf(i)
  BY <1>0, <1>2, <1>4, <1>6 DEF OnlyOf, MessageTypes
<1>9. spc'[i] = how /\ attempt'[i] = attempt[i]
  BY <1>0, <1>2, <1>6 DEF MessageTypes
<1>10. CaptureKept(i)'
  BY <1>3, <1>5, <1>6, <1>9 DEF CaptureKept
<1>11. Kept(i)'
  BY <1>1, <1>10 DEF Kept
<1> QED
  BY <1>7, <1>8, <1>11, OthersKept

\* The answer to a Slack message ends it.
LEMMA SlackKeeps ==
    ASSUME MessagesApart, SenderInv, NEW i \in D!Messages, NEW o \in D!Outcomes,
           NEW code, D!SlackAnswered(i, o, code)
    PROVE  SenderInv'
<1>0. /\ MessageTypes /\ Kept(i) /\ uuids[i] \in 0..3 /\ taken[i] \in Seq(0..3)
  BY DEF SenderInv, MessageTypes
<1>1. i \in Slack /\ i \notin Mails /\ i \notin Captures /\ i \notin Uploads
  BY DEF D!SlackAnswered, MessagesApart
<1>2. /\ spc[i] = "sending" /\ attempt' = attempt /\ backoff' = backoff /\ step' = step
      /\ uuids' = uuids /\ D!Taken(i, o)
  BY DEF D!SlackAnswered
<1>3. taken[i] = <<>>
  BY <1>0, <1>1, <1>2 DEF Kept, SlackKept
<1>4. /\ taken' \in [D!Messages -> Seq(0..3)] /\ \A j \in D!Messages : j # i => taken'[j] = taken[j]
      /\ taken'[i] = IF o.took THEN Append(taken[i], uuids[i]) ELSE taken[i]
  BY <1>0, <1>2, TakenOf
<1>5. Len(taken'[i]) <= 1
  <2>1. Len(Append(taken[i], uuids[i])) = 1 /\ Len(taken[i]) = 0
    BY <1>0, <1>3, OneMore
  <2> QED
    BY <1>4, <2>1
<1>6. PICK how \in {"accepted", "failed"}, log \in {"none", "warn", "error"} : D!Ends(i, how, log)
  BY DEF D!SlackAnswered
<1>7. /\ spc' = [spc EXCEPT ![i] = how] /\ logs' = [logs EXCEPT ![i] = log] /\ waited' = waited
  BY <1>6 DEF D!Ends
<1>8. MessageTypes'
  BY <1>0, <1>2, <1>4, <1>6, <1>7 DEF MessageTypes
<1>9. OnlyOf(i)
  BY <1>0, <1>2, <1>4, <1>7 DEF OnlyOf, MessageTypes
<1>10. spc'[i] \in {"accepted", "failed"}
  BY <1>0, <1>6, <1>7 DEF MessageTypes
<1>11. SlackKept(i)'
  BY <1>5, <1>10 DEF SlackKept
<1>12. Kept(i)'
  BY <1>1, <1>11 DEF Kept
<1> QED
  BY <1>8, <1>9, <1>12, OthersKept

\* A step that is completed follows one whose bytes were taken.
LEMMA OneMoreStep ==
    ASSUME NEW s \in Seq(0..3), NEW x \in 1..3,
           \A n \in DOMAIN s : s[n] = 3 => \E k \in 1..(n - 1) : s[k] = 2,
           x = 3 => \E k \in DOMAIN s : s[k] = 2
    PROVE  /\ \A n \in DOMAIN Append(s, x) :
                  Append(s, x)[n] = 3 => \E k \in 1..(n - 1) : Append(s, x)[k] = 2
           /\ x \in {2, 3} => \E k \in DOMAIN Append(s, x) : Append(s, x)[k] = 2
<1>1. /\ Len(s) \in Nat /\ DOMAIN Append(s, x) = 1..(Len(s) + 1) /\ DOMAIN s = 1..Len(s)
      /\ Append(s, x)[Len(s) + 1] = x /\ \A n \in 1..Len(s) : Append(s, x)[n] = s[n]
  BY OneMore
<1>2. ASSUME NEW n \in DOMAIN Append(s, x), Append(s, x)[n] = 3
      PROVE  \E k \in 1..(n - 1) : Append(s, x)[k] = 2
  <2>1. CASE n \in 1..Len(s)
    <3>1. PICK k \in 1..(n - 1) : s[k] = 2
      BY <1>1, <1>2, <2>1
    <3>2. k \in 1..Len(s)
      BY <1>1, <2>1
    <3> QED
      BY <1>1, <3>1, <3>2
  <2>2. CASE n = Len(s) + 1
    <3>1. PICK k \in DOMAIN s : s[k] = 2
      BY <1>1, <1>2, <2>2
    <3>2. k \in 1..(n - 1) /\ Append(s, x)[k] = 2
      BY <1>1, <2>2, <3>1
    <3> QED
      BY <3>2
  <2> QED
    BY <1>1, <2>1, <2>2
<1>3. ASSUME x \in {2, 3} PROVE \E k \in DOMAIN Append(s, x) : Append(s, x)[k] = 2
  <2>1. CASE x = 2
    <3>1. Len(s) + 1 \in DOMAIN Append(s, x)
      BY <1>1
    <3> QED
      BY <1>1, <2>1, <3>1
  <2>2. CASE x = 3
    <3>1. PICK k \in DOMAIN s : s[k] = 2
      BY <2>2
    <3>2. k \in DOMAIN Append(s, x) /\ Append(s, x)[k] = 2
      BY <1>1, <3>1
    <3> QED
      BY <3>2
  <2> QED
    BY <1>3, <2>1, <2>2
<1> QED
  BY <1>2, <1>3

\* The answer to a step of an upload: the next step follows one Slack took.
LEMMA UploadKeeps ==
    ASSUME MessagesApart, SenderInv, NEW i \in D!Messages, NEW o \in D!Outcomes,
           D!UploadAnswered(i, o)
    PROVE  SenderInv'
<1>0. /\ MessageTypes /\ Kept(i) /\ step[i] \in 1..3 /\ taken[i] \in Seq(0..3)
  BY DEF SenderInv, MessageTypes
<1>1. i \in Uploads /\ i \notin Mails /\ i \notin Captures /\ i \notin Slack
  BY DEF D!UploadAnswered, MessagesApart
<1>2. PICK s, x : s = taken[i] /\ x = step[i]
  OBVIOUS
<1>3. /\ s \in Seq(0..3) /\ x \in 1..3
      /\ \A n \in DOMAIN s : s[n] = 3 => \E k \in 1..(n - 1) : s[k] = 2
      /\ x = 3 => \E k \in DOMAIN s : s[k] = 2
  BY <1>0, <1>1, <1>2 DEF Kept, UploadKept
<1>4. /\ \A n \in DOMAIN Append(s, x) :
             Append(s, x)[n] = 3 => \E k \in 1..(n - 1) : Append(s, x)[k] = 2
      /\ x \in {2, 3} => \E k \in DOMAIN Append(s, x) : Append(s, x)[k] = 2
  BY <1>3, OneMoreStep
<1>5. Append(s, x) \in Seq(0..3)
  BY <1>3
<1>6. PICK r : r = IF o.took THEN Append(s, x) ELSE s
  OBVIOUS
<1>7. /\ r \in Seq(0..3)
      /\ \A n \in DOMAIN r : r[n] = 3 => \E k \in 1..(n - 1) : r[k] = 2
      /\ x = 3 => \E k \in DOMAIN r : r[k] = 2
  <2>1. CASE r = s
    BY <1>3, <2>1
  <2>2. CASE r = Append(s, x)
    BY <1>4, <1>5, <2>2
  <2> QED
    BY <1>6, <2>1, <2>2
<1>8. taken' = [taken EXCEPT ![i] = r] /\ attempt' = attempt /\ backoff' = backoff /\ uuids' = uuids
  BY <1>2, <1>6 DEF D!UploadAnswered
<1>9. \/ \E how \in {"accepted", "failed"} : D!Ends(i, how, "none") /\ step' = step
      \/ /\ o.seen = "ok" /\ step[i] # 3 /\ step' = [step EXCEPT ![i] = step[i] + 1]
         /\ spc' = spc /\ logs' = logs /\ waited' = waited
  BY DEF D!UploadAnswered
<1>10. PICK q, p, g :
          /\ spc' = [spc EXCEPT ![i] = q] /\ step' = [step EXCEPT ![i] = p]
          /\ logs' = [logs EXCEPT ![i] = g] /\ waited' = waited
          /\ q \in {"new", "sending", "waiting", "accepted", "failed", "refused", "gave_up"}
          /\ p \in 1..3 /\ g \in {"none", "warn", "error"}
          /\ p = 3 => \E k \in DOMAIN r : r[k] = 2
  <2>0. /\ spc = [spc EXCEPT ![i] = spc[i]] /\ step = [step EXCEPT ![i] = step[i]]
        /\ logs = [logs EXCEPT ![i] = logs[i]] /\ logs[i] \in {"none", "warn", "error"}
        /\ spc[i] \in {"new", "sending", "waiting", "accepted", "failed", "refused", "gave_up"}
    BY <1>0 DEF MessageTypes
  <2>1. CASE \E how \in {"accepted", "failed"} : D!Ends(i, how, "none") /\ step' = step
    <3>1. PICK how \in {"accepted", "failed"} : D!Ends(i, how, "none") /\ step' = step
      BY <2>1
    <3>2. /\ spc' = [spc EXCEPT ![i] = how] /\ logs' = [logs EXCEPT ![i] = "none"]
          /\ waited' = waited /\ step' = [step EXCEPT ![i] = x]
      BY <1>2, <2>0, <3>1 DEF D!Ends
    <3> QED
      BY <1>3, <1>7, <3>1, <3>2
  <2>2. CASE /\ o.seen = "ok" /\ step[i] # 3 /\ step' = [step EXCEPT ![i] = step[i] + 1]
             /\ spc' = spc /\ logs' = logs /\ waited' = waited
    <3>1. r = Append(s, x)
      BY <1>6, <2>2, OutcomesTell
    <3>2. x \in {1, 2} /\ x + 1 \in 1..3
      BY <1>2, <1>3, <2>2
    <3>3. x + 1 = 3 => \E k \in DOMAIN r : r[k] = 2
      BY <1>4, <3>1, <3>2
    <3>4. /\ spc' = [spc EXCEPT ![i] = spc[i]] /\ logs' = [logs EXCEPT ![i] = logs[i]]
          /\ step' = [step EXCEPT ![i] = x + 1]
      BY <1>2, <2>0, <2>2
    <3>5. PICK p : p = x + 1
      OBVIOUS
    <3>6. /\ step' = [step EXCEPT ![i] = p] /\ p \in 1..3
          /\ p = 3 => \E k \in DOMAIN r : r[k] = 2
      BY <3>2, <3>3, <3>4, <3>5
    <3>7. PICK q, g : q = spc[i] /\ g = logs[i]
      OBVIOUS
    <3>8. /\ spc' = [spc EXCEPT ![i] = q] /\ logs' = [logs EXCEPT ![i] = g] /\ waited' = waited
          /\ q \in {"new", "sending", "waiting", "accepted", "failed", "refused", "gave_up"}
          /\ g \in {"none", "warn", "error"}
      BY <2>0, <2>2, <3>4, <3>7
    <3> QED
      BY <3>6, <3>8
  <2> QED
    BY <1>9, <2>1, <2>2
<1>11. MessageTypes'
  BY <1>0, <1>7, <1>8, <1>10 DEF MessageTypes
<1>12. OnlyOf(i)
  BY <1>0, <1>8, <1>10 DEF OnlyOf, MessageTypes
<1>13. taken'[i] = r /\ step'[i] = p
  BY <1>0, <1>8, <1>10 DEF MessageTypes
<1>14. UploadKept(i)'
  BY <1>7, <1>10, <1>13 DEF UploadKept
<1>15. Kept(i)'
  BY <1>1, <1>14 DEF Kept
<1> QED
  BY <1>11, <1>12, <1>15, OthersKept

LEMMA SenderStep ==
    ASSUME MessagesApart, SenderInv, [D!Next]_(D!vars)
    PROVE  SenderInv'
<1>1. CASE UNCHANGED D!vars
  <2>1. /\ spc' = spc /\ attempt' = attempt /\ waited' = waited /\ backoff' = backoff
        /\ step' = step /\ uuids' = uuids /\ taken' = taken /\ logs' = logs
    BY <1>1 DEF D!vars
  <2> QED
    BY <2>1 DEF SenderInv, MessageTypes, Kept, MailKept, SlackKept, CaptureKept, UploadKept
<1>2. CASE D!Next
  <2>1. PICK i \in D!Messages : D!Start(i) \/ D!Answered(i)
    BY <1>2 DEF D!Next
  <2>2. CASE D!Start(i)
    BY <2>2, StartKeeps
  <2>3. CASE D!Answered(i)
    <3>1. PICK o \in D!Outcomes :
              \/ \E hint \in D!Hints : D!MailAnswered(i, o, hint)
              \/ D!CaptureAnswered(i, o)
              \/ \E code \in {"is_archived", "ratelimited"} : D!SlackAnswered(i, o, code)
              \/ D!UploadAnswered(i, o)
      BY <2>3 DEF D!Answered
    <3> QED
      BY <3>1, MailKeeps, CaptureKeeps, SlackKeeps, UploadKeeps
  <2> QED
    BY <2>1, <2>2, <2>3
<1> QED
  BY <1>1, <1>2

\* What the invariant says of what services took.
LEMMA SenderInvIsEnough ==
    ASSUME MessagesApart, SenderInv
    PROVE  SentOnce
<1>1. D!TypeOK
  BY DEF SenderInv, MessageTypes, D!TypeOK
<1>2. D!CountedOnce
  <2>1. ASSUME NEW i \in D!Messages, i \in Mails \cup Slack PROVE Len(taken[i]) <= 1
    BY <2>1 DEF SenderInv, Kept, MailKept, SlackKept
  <2>2. ASSUME NEW i \in D!Messages, i \in Captures
        PROVE  \A m, n \in DOMAIN taken[i] : taken[i][m] = taken[i][n]
    BY <2>2 DEF SenderInv, Kept, CaptureKept
  <2> QED
    BY <2>1, <2>2 DEF D!CountedOnce
<1>3. D!SendsBounded
  <2>1. ASSUME NEW i \in Mails PROVE attempt[i] <= MaxRetries + 1 /\ waited[i] <= MaxRetries * 5000
    BY DEF SenderInv, Kept, MailKept, D!Messages
  <2>2. ASSUME NEW i \in Captures PROVE attempt[i] <= MaxAttempts
    BY DEF SenderInv, Kept, CaptureKept, D!Messages
  <2> QED
    BY <2>1, <2>2 DEF D!SendsBounded, D!MaxRetryDelay
<1>4. D!SharedIsUploaded
  BY DEF SenderInv, Kept, UploadKept, D!Messages, D!SharedIsUploaded
<1> QED
  BY <1>1, <1>2, <1>3, <1>4 DEF SentOnce

\* However answers are lost and requests repeated, no service counts a message of
\* `notifications/` twice: a mail or Slack message is taken once, a capture under
\* one uuid; every sender stops, after a bounded wait; and Slack is told to share
\* only a file whose bytes it took first.
THEOREM MessagesAreSentOnce ==
    D!Spec => []SentOnce
<1>1. D!Init => SenderInv
  <2> SUFFICES ASSUME D!Init PROVE SenderInv
    OBVIOUS
  <2>1. MessagesApart
    BY SendersAssumption
  <2>2. MessageTypes
    BY DEF D!Init, D!FirstBackoff, MessageTypes
  <2>3. ASSUME NEW i \in D!Messages PROVE Kept(i)
    <3>1. /\ spc[i] = "new" /\ attempt[i] = 0 /\ waited[i] = 0 /\ step[i] = 1
          /\ taken[i] = <<>>
      BY DEF D!Init
    <3>2. Len(<<>>) = 0 /\ DOMAIN <<>> = {}
      OBVIOUS
    <3> QED
      BY <2>1, <3>1, <3>2 DEF Kept, MailKept, SlackKept, CaptureKept, UploadKept, MessagesApart
  <2> QED
    BY <2>2, <2>3 DEF SenderInv
<1>2. SenderInv /\ [D!Next]_(D!vars) => SenderInv'
  BY SendersAssumption, SenderStep
<1>3. SenderInv => SentOnce
  BY SendersAssumption, SenderInvIsEnough
<1> QED
  BY <1>1, <1>2, <1>3, PTL DEF D!Spec
-----------------------------------------------------------------------------
(* NotifyLayer.                                                            *)

ThreadRecord ==
    [pc : {"dedup", "send"}, id : N!Ids, event : Events, key : Keys, rule : Rules, stall : 0..MaxStall]

AlertTypes ==
    /\ rules \in [Events -> Rules \cup {NoRule}]
    /\ th \in [Threads -> {N!Free} \cup ThreadRecord]
    /\ emits \in 0..MaxEmits
    /\ last \in [Events -> [Keys -> 0..N!MaxAge]]
    /\ first \in [Events -> [Keys -> 0..emits]]
    /\ buffers \in [Events -> {NoRule} \cup BufferRecord]
    /\ kept \subseteq 1..emits /\ captured \subseteq 1..emits
    /\ posted \in [N!Ids -> Seq(RuleChannels)]

\* Where an event may be: in the hand of a thread that sends, or in a buffer.
Hand(r, i)  == r.pc = "send" /\ r.id = i
Holds(b, i) == b # NoRule /\ \E n \in DOMAIN b.lines : b.lines[n].id = i

\* A thread past the sampling has an event of its own, which is to be sent once the
\* thread is past the dedup.
Hands ==
    /\ \A t \in Threads : th[t] # N!Free =>
           th[t].id <= emits /\ (th[t].pc = "send" <=> th[t].id \in kept)
    /\ \A t, u \in Threads : th[t] # N!Free /\ th[u] # N!Free /\ th[t].id = th[u].id => t = u

\* An event to be sent, and no other, is in one place.
Place(i) ==
    /\ Len(posted[i]) <= 1
    /\ \A t \in Threads : Hand(th[t], i) =>
           (\A e \in Events : ~Holds(buffers[e], i)) /\ posted[i] = <<>>
    /\ \A e \in Events : Holds(buffers[e], i) => posted[i] = <<>>
    /\ \A e, f \in Events : Holds(buffers[e], i) /\ Holds(buffers[f], i) => e = f
    /\ i \in kept <=> \/ \E t \in Threads : Hand(th[t], i)
                      \/ \E e \in Events : Holds(buffers[e], i)
                      \/ posted[i] # <<>>

\* The dedup map holds the instant of an event that is sent, or one too old to matter.
Instants ==
    /\ \A e \in Events, k \in Keys : first[e][k] \in kept \/ last[e][k] = N!MaxAge
    /\ \A r \in repeats : r[2] \in kept

AlertInv == AlertTypes /\ Hands /\ (\A i \in N!Ids : Place(i)) /\ Instants

\* A thread is idle or has an event.
LEMMA ThreadIs ==
    ASSUME NEW r \in {N!Free} \cup ThreadRecord
    PROVE  /\ r.pc \in {"idle", "dedup", "send"}
           /\ r.pc = "idle" <=> r = N!Free
           /\ r.pc # "idle" => r \in ThreadRecord
BY DEF N!Free, ThreadRecord

\* A step that touches no place an event is in.
LEMMA PlaceKept ==
    ASSUME NEW i, Place(i), posted'[i] = posted[i], i \in kept' <=> i \in kept,
           \A t \in Threads : Hand(th'[t], i) <=> Hand(th[t], i),
           \A e \in Events : Holds(buffers'[e], i) <=> Holds(buffers[e], i)
    PROVE  Place(i)'
BY DEF Place

\* A step that leaves the dedup map.
LEMMA InstantsKept ==
    ASSUME Instants, first' = first, last' = last, repeats' = repeats, kept \subseteq kept'
    PROVE  Instants'
BY DEF Instants

\* An event is emitted.
LEMMA EmitKeeps ==
    ASSUME RulesAreRules, AlertInv, NEW t \in Threads, NEW e \in Events, NEW k \in Keys, N!Emit(t, e, k)
    PROVE  AlertInv'
<1>0. /\ AlertTypes /\ Hands /\ Instants /\ emits \in 0..MaxEmits /\ MaxEmits \in Nat /\ MaxStall \in Nat
      /\ kept \subseteq 1..emits /\ th[t] = N!Free /\ \A i \in N!Ids : Place(i)
  BY DEF AlertInv, AlertTypes, N!Emit, RulesAreRules
<1>1. PICK n : n = emits + 1
  OBVIOUS
<1>2. n \in N!Ids /\ n \in Nat /\ n \notin kept /\ emits' = n /\ 1..emits \subseteq 1..n /\ n \in 1..n
      /\ 0..emits \subseteq 0..n /\ n \in 0..MaxEmits /\ ~(n <= emits)
  BY <1>0, <1>1 DEF N!Emit, N!Ids
<1>3. /\ rules' = rules /\ last' = last /\ first' = first /\ buffers' = buffers /\ repeats' = repeats
      /\ posted' = posted /\ captured' \in {captured, captured \cup {n}}
  BY <1>1 DEF N!Emit
<1>4. \/ th' = th /\ kept' = kept
      \/ \E r \in ThreadRecord :
             /\ th' = [th EXCEPT ![t] = r] /\ r.id = n
             /\ \/ r.pc = "dedup" /\ kept' = kept
                \/ r.pc = "send" /\ kept' = kept \cup {n}
  <2>1. CASE th' = th /\ kept' = kept
    BY <2>1
  <2>2. CASE ~(th' = th /\ kept' = kept)
    <3>1. PICK rule : rule = rules[e]
      OBVIOUS
    <3>2. PICK r : r = [pc |-> IF rule.dedup THEN "dedup" ELSE "send", id |-> n,
                        event |-> e, key |-> k, rule |-> rule, stall |-> 0]
      OBVIOUS
    <3>3. /\ rule # NoRule
          /\ \E pass \in N!SamplePasses(rule) :
                 /\ th' = IF pass THEN [th EXCEPT ![t] = r] ELSE th
                 /\ kept' = IF pass /\ ~rule.dedup THEN kept \cup {n} ELSE kept
      BY <1>1, <2>2, <3>1, <3>2 DEF N!Emit
    <3>4. rule \in Rules
      BY <1>0, <3>1, <3>3 DEF AlertTypes
    <3>5. rule.dedup \in BOOLEAN
      BY <3>4 DEF RulesAreRules
    <3>6. th' = [th EXCEPT ![t] = r] /\ kept' = IF ~rule.dedup THEN kept \cup {n} ELSE kept
      BY <2>2, <3>3
    <3>7. r \in ThreadRecord /\ r.id = n /\ r.pc = IF rule.dedup THEN "dedup" ELSE "send"
      BY <1>0, <1>2, <3>2, <3>4 DEF ThreadRecord
    <3> QED
      BY <3>5, <3>6, <3>7
  <2> QED
    BY <2>1, <2>2
<1>5. kept \subseteq kept' /\ kept' \subseteq kept \cup {n} /\ th' \in [Threads -> {N!Free} \cup ThreadRecord]
  BY <1>0, <1>4 DEF AlertTypes
<1>6. AlertTypes'
  <2>1. kept' \subseteq 1..n /\ captured' \subseteq 1..n /\ first' \in [Events -> [Keys -> 0..n]]
    <3>1. captured \subseteq 1..n /\ kept \subseteq 1..n
      BY <1>0, <1>2 DEF AlertTypes
    <3>2. first \in [Events -> [Keys -> 0..n]]
      <4>1. first \in [Events -> [Keys -> 0..emits]]
        BY <1>0 DEF AlertTypes
      <4>2. \A f \in [Keys -> 0..emits] : f \in [Keys -> 0..n]
        BY <1>2
      <4> QED
        BY <4>1, <4>2
    <3> QED
      BY <1>2, <1>3, <1>5, <3>1, <3>2
  <2> QED
    BY <1>0, <1>2, <1>3, <1>5, <2>1 DEF AlertTypes
<1>7. ASSUME NEW u \in Threads, th[u] # N!Free PROVE th[u].id # n /\ th[u].id <= n
  <2>1. th[u] \in ThreadRecord /\ th[u].id <= emits
    BY <1>0, <1>7 DEF AlertTypes, Hands
  <2>2. th[u].id \in Nat
    BY <2>1 DEF ThreadRecord, N!Ids
  <2> QED
    BY <1>0, <1>1, <2>1, <2>2
<1>8. \A u \in Threads : ~Hand(th[u], n)
  <2>1. \A u \in Threads : th[u] \in {N!Free} \cup ThreadRecord
    BY <1>0 DEF AlertTypes
  <2>2. \A u \in Threads : Hand(th[u], n) => th[u] # N!Free /\ th[u].id = n
    BY <2>1, ThreadIs DEF Hand
  <2> QED
    BY <1>7, <2>2
<1>9. posted[n] = <<>> /\ \A f \in Events : ~Holds(buffers[f], n)
  BY <1>0, <1>2 DEF Place
<1>10. CASE th' = th /\ kept' = kept
  <2>1. Hands'
    BY <1>0, <1>2, <1>7, <1>10 DEF Hands
  <2>2. \A i \in N!Ids : Place(i)'
    BY <1>0, <1>3, <1>10, PlaceKept
  <2> QED
    BY <1>0, <1>3, <1>5, <1>6, <2>1, <2>2, InstantsKept DEF AlertInv
<1>11. ASSUME NEW r \in ThreadRecord, th' = [th EXCEPT ![t] = r], r.id = n,
              \/ r.pc = "dedup" /\ kept' = kept
              \/ r.pc = "send" /\ kept' = kept \cup {n}
       PROVE  AlertInv'
  <2>1. th'[t] = r /\ \A u \in Threads : u # t => th'[u] = th[u]
    BY <1>0, <1>11 DEF AlertTypes
  <2>3. n <= n /\ r # N!Free
    BY <1>2, <1>11, ThreadIs
  <2>4. r.pc = "send" <=> n \in kept'
    BY <1>2, <1>11
  <2>5. \A i : i # n => (i \in kept' <=> i \in kept)
    BY <1>11
  <2>6. Hands'
    <3>1. ASSUME NEW u \in Threads, th'[u] # N!Free
          PROVE  th'[u].id <= n /\ (th'[u].pc = "send" <=> th'[u].id \in kept')
      <4>1. CASE u = t
        BY <1>11, <2>1, <2>3, <2>4, <4>1
      <4>2. CASE u # t
        BY <1>0, <1>7, <2>1, <2>5, <3>1, <4>2 DEF Hands
      <4> QED
        BY <4>1, <4>2
    <3>2. ASSUME NEW u \in Threads, NEW v \in Threads, th'[u] # N!Free, th'[v] # N!Free, th'[u].id = th'[v].id
          PROVE  u = v
      <4>1. CASE u # t /\ v # t
        BY <1>0, <2>1, <3>2, <4>1 DEF Hands
      <4>2. CASE u = t \/ v = t
        BY <1>7, <1>11, <2>1, <3>2, <4>2
      <4> QED
        BY <4>1, <4>2
    <3> QED
      BY <1>2, <3>1, <3>2 DEF Hands
  <2>7. ASSUME NEW i \in N!Ids PROVE Place(i)'
    <3>1. CASE i # n
      <4>1. \A u \in Threads : Hand(th'[u], i) <=> Hand(th[u], i)
        <5>1. ~Hand(r, i)
          BY <1>11, <3>1 DEF Hand
        <5>2. ~Hand(th[t], i)
          BY <1>0 DEF Hand, N!Free
        <5> QED
          BY <2>1, <5>1, <5>2
      <4> QED
        BY <1>0, <1>3, <2>5, <3>1, <4>1, PlaceKept
    <3>2. CASE i = n
      <4>1. posted'[n] = <<>> /\ Len(posted'[n]) <= 1 /\ \A f \in Events : ~Holds(buffers'[f], n)
        BY <1>3, <1>9
      <4>2. (\E u \in Threads : Hand(th'[u], n)) <=> r.pc = "send"
        <5>1. Hand(r, n) <=> r.pc = "send"
          BY <1>11 DEF Hand
        <5> QED
          BY <1>8, <2>1, <5>1
      <4> QED
        BY <2>4, <3>2, <4>1, <4>2 DEF Place
    <3> QED
      BY <3>1, <3>2
  <2> QED
    BY <1>0, <1>3, <1>5, <1>6, <2>6, <2>7, InstantsKept DEF AlertInv
<1> QED
  BY <1>4, <1>10, <1>11

\* The dedup decides.
LEMMA DedupKeeps ==
    ASSUME RulesAreRules, AlertInv, NEW t \in Threads, N!Dedup(t)
    PROVE  AlertInv'
<1>0. /\ AlertTypes /\ Hands /\ Instants /\ emits \in 0..MaxEmits
      /\ kept \subseteq 1..emits /\ th[t].pc = "dedup" /\ \A i \in N!Ids : Place(i)
  BY DEF AlertInv, AlertTypes, N!Dedup
<1>1. PICK c : c = th[t]
  OBVIOUS
<1>2. c \in ThreadRecord /\ th[t] # N!Free
  BY <1>0, <1>1, ThreadIs DEF AlertTypes
<1>3. c.id \in N!Ids /\ c.event \in Events /\ c.key \in Keys /\ c.stall \in 0..MaxStall /\ c.pc = "dedup"
  BY <1>0, <1>1, <1>2 DEF ThreadRecord
<1>4. c.id \in Nat /\ c.id <= emits /\ c.id \in 1..emits /\ c.id \in 0..emits /\ c.id \notin kept
  BY <1>0, <1>1, <1>2, <1>3 DEF Hands, N!Ids
<1>5. /\ rules' = rules /\ emits' = emits /\ buffers' = buffers /\ captured' = captured /\ posted' = posted
  BY DEF N!Dedup
<1>6. /\ Window \in Nat /\ MaxStall \in Nat /\ N!MaxAge = Window + MaxStall
      /\ last[c.event][c.key] \in 0..N!MaxAge
  BY <1>0, <1>3 DEF AlertTypes, RulesAreRules, N!MaxAge
<1>7. CASE N!Since(c) < Window
  <2>1. /\ repeats' = repeats \cup {<<c.id, first[c.event][c.key]>>} /\ th' = [th EXCEPT ![t] = N!Free]
        /\ last' = last /\ first' = first /\ kept' = kept
    BY <1>1, <1>7 DEF N!Dedup
  <2>2. th'[t] = N!Free /\ \A u \in Threads : u # t => th'[u] = th[u]
    BY <1>0, <2>1 DEF AlertTypes
  <2>3. AlertTypes'
    BY <1>0, <1>5, <2>1 DEF AlertTypes
  <2>4. Hands'
    BY <1>0, <1>5, <2>1, <2>2 DEF Hands
  <2>5. ASSUME NEW i \in N!Ids PROVE Place(i)'
    <3>1. ~Hand(N!Free, i) /\ ~Hand(th[t], i)
      BY <1>0 DEF Hand, N!Free
    <3>2. \A u \in Threads : Hand(th'[u], i) <=> Hand(th[u], i)
      BY <2>2, <3>1
    <3> QED
      BY <1>0, <1>5, <2>1, <3>2, PlaceKept
  <2>6. last[c.event][c.key] # N!MaxAge
    BY <1>3, <1>6, <1>7 DEF N!Since
  <2>7. first[c.event][c.key] \in kept
    BY <1>0, <1>3, <2>6 DEF Instants
  <2>8. Instants'
    BY <1>0, <2>1, <2>7 DEF Instants
  <2> QED
    BY <2>3, <2>4, <2>5, <2>8 DEF AlertInv
<1>8. CASE ~(N!Since(c) < Window)
  <2>0. PICK r : r = [c EXCEPT !.pc = "send"]
    OBVIOUS
  <2>1. r \in ThreadRecord /\ r.pc = "send" /\ r.id = c.id /\ r # N!Free
    <3>1. r \in ThreadRecord /\ r.pc = "send" /\ r.id = c.id
      BY <1>2, <2>0 DEF ThreadRecord
    <3> QED
      BY <3>1, ThreadIs
  <2>2. /\ last' = [last EXCEPT ![c.event][c.key] = c.stall] /\ th' = [th EXCEPT ![t] = r]
        /\ first' = [first EXCEPT ![c.event][c.key] = c.id]
        /\ repeats' = repeats /\ kept' = kept \cup {c.id}
    BY <1>1, <1>8, <2>0 DEF N!Dedup
  <2>3. th'[t] = r /\ \A u \in Threads : u # t => th'[u] = th[u]
    BY <1>0, <2>2 DEF AlertTypes
  <2>4. /\ last' \in [Events -> [Keys -> 0..N!MaxAge]] /\ first' \in [Events -> [Keys -> 0..emits]]
        /\ first'[c.event][c.key] = c.id
        /\ \A e \in Events, k \in Keys : ~(e = c.event /\ k = c.key) =>
               first'[e][k] = first[e][k] /\ last'[e][k] = last[e][k]
    <3>1. c.stall \in 0..N!MaxAge
      BY <1>3, <1>6
    <3>2. last \in [Events -> [Keys -> 0..N!MaxAge]] /\ first \in [Events -> [Keys -> 0..emits]]
      BY <1>0 DEF AlertTypes
    <3> QED
      BY <1>3, <1>4, <2>2, <3>1, <3>2
  <2>5. AlertTypes'
    BY <1>0, <1>4, <1>5, <2>1, <2>2, <2>4 DEF AlertTypes
  <2>6. \A u \in Threads : u # t /\ th[u] # N!Free => th[u].id # c.id
    BY <1>0, <1>1, <1>2 DEF Hands
  <2>7. Hands'
    <3>1. ASSUME NEW u \in Threads, th'[u] # N!Free
          PROVE  th'[u].id <= emits /\ (th'[u].pc = "send" <=> th'[u].id \in kept')
      <4>1. CASE u = t
        BY <1>4, <2>1, <2>2, <2>3, <4>1
      <4>2. CASE u # t
        BY <1>0, <2>2, <2>3, <2>6, <3>1, <4>2 DEF Hands
      <4> QED
        BY <4>1, <4>2
    <3>2. ASSUME NEW u \in Threads, NEW v \in Threads, th'[u] # N!Free, th'[v] # N!Free, th'[u].id = th'[v].id
          PROVE  u = v
      <4>1. CASE u # t /\ v # t
        BY <1>0, <2>3, <3>2, <4>1 DEF Hands
      <4>2. CASE u = t \/ v = t
        BY <2>1, <2>3, <2>6, <3>2, <4>2
      <4> QED
        BY <4>1, <4>2
    <3> QED
      BY <1>5, <3>1, <3>2 DEF Hands
  <2>8. ASSUME NEW i \in N!Ids PROVE Place(i)'
    <3>1. CASE i # c.id
      <4>1. ~Hand(r, i) /\ ~Hand(th[t], i)
        BY <1>0, <2>1, <3>1 DEF Hand
      <4>2. \A u \in Threads : Hand(th'[u], i) <=> Hand(th[u], i)
        BY <2>3, <4>1
      <4> QED
        BY <1>0, <1>5, <2>2, <3>1, <4>2, PlaceKept
    <3>2. CASE i = c.id
      <4>1. posted[i] = <<>> /\ \A e \in Events : ~Holds(buffers[e], i)
        BY <1>0, <1>4, <3>2 DEF Place
      <4>2. posted'[i] = <<>> /\ Len(posted'[i]) <= 1 /\ \A e \in Events : ~Holds(buffers'[e], i)
        BY <1>5, <4>1
      <4>3. Hand(th'[t], i) /\ i \in kept'
        BY <2>1, <2>2, <2>3, <3>2 DEF Hand
      <4> QED
        BY <4>2, <4>3 DEF Place
    <3> QED
      BY <3>1, <3>2
  <2>9. Instants'
    <3>1. ASSUME NEW e \in Events, NEW k \in Keys PROVE first'[e][k] \in kept' \/ last'[e][k] = N!MaxAge
      <4>1. CASE e = c.event /\ k = c.key
        BY <2>2, <2>4, <4>1
      <4>2. CASE ~(e = c.event /\ k = c.key)
        BY <1>0, <2>2, <2>4, <4>2 DEF Instants
      <4> QED
        BY <4>1, <4>2
    <3>2. \A q \in repeats' : q[2] \in kept'
      BY <1>0, <2>2 DEF Instants
    <3> QED
      BY <3>1, <3>2 DEF Instants
  <2> QED
    BY <2>5, <2>7, <2>8, <2>9 DEF AlertInv
<1> QED
  BY <1>7, <1>8

\* A thread that has sent its event is idle again, and the others keep theirs.
LEMMA HandsEmptied ==
    ASSUME AlertTypes, Hands, NEW t \in Threads, th' = [th EXCEPT ![t] = N!Free],
           emits' = emits, kept' = kept
    PROVE  /\ Hands'
           /\ th' \in [Threads -> {N!Free} \cup ThreadRecord]
           /\ \A i : ~Hand(th'[t], i)
           /\ \A u \in Threads : u # t => th'[u] = th[u]
<1>1. th'[t] = N!Free /\ \A u \in Threads : u # t => th'[u] = th[u]
  BY DEF AlertTypes
<1>2. Hands'
  BY <1>1 DEF Hands
<1>3. \A i : ~Hand(N!Free, i)
  BY DEF Hand, N!Free
<1> QED
  BY <1>1, <1>2, <1>3 DEF AlertTypes

\* A thread about to send: its event is nowhere else.
LEMMA InOneHand ==
    ASSUME AlertInv, NEW t \in Threads, th[t].pc = "send"
    PROVE  /\ th[t] \in ThreadRecord /\ th[t].id \in N!Ids /\ th[t].id \in kept
           /\ th[t].event \in Events /\ th[t].rule \in Rules
           /\ \A u \in Threads : u # t => ~Hand(th[u], th[t].id)
           /\ \A e \in Events : ~Holds(buffers[e], th[t].id)
           /\ posted[th[t].id] = <<>>
           /\ \A i : Hand(th[t], i) <=> i = th[t].id
<1>0. AlertTypes /\ Hands /\ \A i \in N!Ids : Place(i)
  BY DEF AlertInv
<1>1. th[t] \in ThreadRecord /\ th[t] # N!Free
  BY <1>0, ThreadIs DEF AlertTypes
<1>2. th[t].id \in N!Ids /\ th[t].event \in Events /\ th[t].rule \in Rules
  BY <1>1 DEF ThreadRecord
<1>3. \A i : Hand(th[t], i) <=> i = th[t].id
  BY DEF Hand
<1>4. (\A e \in Events : ~Holds(buffers[e], th[t].id)) /\ posted[th[t].id] = <<>>
  BY <1>0, <1>2, <1>3 DEF Place
<1>5. ASSUME NEW u \in Threads, u # t PROVE ~Hand(th[u], th[t].id)
  <2>1. th[u] \in {N!Free} \cup ThreadRecord
    BY <1>0 DEF AlertTypes
  <2>2. Hand(th[u], th[t].id) => th[u] # N!Free /\ th[u].id = th[t].id
    BY <2>1, ThreadIs DEF Hand
  <2> QED
    BY <1>0, <1>1, <1>5, <2>2 DEF Hands
<1>6. th[t].id \in kept
  BY <1>0, <1>1 DEF Hands
<1> QED
  BY <1>1, <1>2, <1>3, <1>4, <1>5, <1>6

\* One more line in a buffer.
LEMMA OneMoreLine ==
    ASSUME RulesAreRules, NEW b \in BufferRecord, NEW l \in LineRecord
    PROVE  /\ [b EXCEPT !.lines = Append(b.lines, l)] \in BufferRecord
           /\ \A i : Holds([b EXCEPT !.lines = Append(b.lines, l)], i) <=> (Holds(b, i) \/ i = l.id)
<1>1. PICK s : s = b.lines
  OBVIOUS
<1>2. s \in Seq(LineRecord) /\ b.channel \in RuleChannels
  BY <1>1 DEF BufferRecord
<1>3. /\ Append(s, l) \in Seq(LineRecord) /\ DOMAIN s = 1..Len(s) /\ Len(s) \in Nat
      /\ DOMAIN Append(s, l) = 1..(Len(s) + 1) /\ Append(s, l)[Len(s) + 1] = l
      /\ \A n \in 1..Len(s) : Append(s, l)[n] = s[n]
  BY <1>2
<1>4. PICK a : a = Append(s, l)
  OBVIOUS
<1>5. PICK c : c = [b EXCEPT !.lines = a]
  OBVIOUS
<1>6. c \in BufferRecord /\ c.lines = a /\ c # NoRule /\ b # NoRule
  <2>1. c \in BufferRecord /\ c.lines = a
    BY <1>3, <1>4, <1>5 DEF BufferRecord
  <2> QED
    BY <2>1 DEF RulesAreRules
<1>7. ASSUME NEW i PROVE (\E n \in DOMAIN a : a[n].id = i) <=> (\E n \in DOMAIN s : s[n].id = i) \/ i = l.id
  <2>1. ASSUME NEW n \in DOMAIN a, a[n].id = i PROVE (\E m \in DOMAIN s : s[m].id = i) \/ i = l.id
    <3>1. n \in 1..Len(s) \/ n = Len(s) + 1
      BY <1>3, <1>4
    <3> QED
      BY <1>3, <1>4, <2>1, <3>1
  <2>2. ASSUME NEW n \in DOMAIN s, s[n].id = i PROVE \E m \in DOMAIN a : a[m].id = i
    <3>1. n \in DOMAIN a /\ a[n] = s[n]
      BY <1>3, <1>4
    <3> QED
      BY <2>2, <3>1
  <2>3. ASSUME i = l.id PROVE \E m \in DOMAIN a : a[m].id = i
    <3>1. Len(s) + 1 \in DOMAIN a /\ a[Len(s) + 1] = l
      BY <1>3, <1>4
    <3> QED
      BY <2>3, <3>1
  <2> QED
    BY <2>1, <2>2, <2>3
<1>8. \A i : Holds(c, i) <=> (Holds(b, i) \/ i = l.id)
  BY <1>1, <1>6, <1>7 DEF Holds
<1> QED
  BY <1>1, <1>4, <1>5, <1>6, <1>8

\* A line joins its buffer.
LEMMA EnqueueKeeps ==
    ASSUME RulesAreRules, AlertInv, NEW t \in Threads, N!Enqueue(t)
    PROVE  AlertInv'
<1>0. AlertTypes /\ Hands /\ Instants /\ th[t].pc = "send" /\ \A i \in N!Ids : Place(i)
  BY DEF AlertInv, N!Enqueue
<1>1. PICK c : c = th[t]
  OBVIOUS
<1>2. /\ c.id \in N!Ids /\ c.id \in kept /\ c.event \in Events /\ c.rule \in Rules
      /\ \A u \in Threads : u # t => ~Hand(th[u], c.id)
      /\ \A e \in Events : ~Holds(buffers[e], c.id)
      /\ posted[c.id] = <<>>
      /\ \A i : Hand(th[t], i) <=> i = c.id
  BY <1>0, <1>1, InOneHand
<1>3. PICK b : b = IF buffers[c.event] = NoRule
                   THEN [channel |-> c.rule.channel, lines |-> <<>>] ELSE buffers[c.event]
  OBVIOUS
<1>4. PICK l : l = [id |-> c.id, age |-> 0, channel |-> c.rule.channel]
  OBVIOUS
<1>5. PICK d : d = [b EXCEPT !.lines = Append(b.lines, l)]
  OBVIOUS
<1>6. /\ buffers' = [buffers EXCEPT ![c.event] = d] /\ th' = [th EXCEPT ![t] = N!Free]
      /\ rules' = rules /\ emits' = emits /\ last' = last /\ first' = first /\ kept' = kept
      /\ repeats' = repeats /\ captured' = captured /\ posted' = posted
  BY <1>1, <1>3, <1>4, <1>5 DEF N!Enqueue
<1>7. c.rule.channel \in RuleChannels
  BY <1>2 DEF RuleChannels
<1>8. l \in LineRecord /\ l.id = c.id
  BY <1>2, <1>4, <1>7 DEF LineRecord, N!Ids, RulesAreRules
<1>9. b \in BufferRecord /\ \A i : Holds(b, i) <=> Holds(buffers[c.event], i)
  <2>1. CASE buffers[c.event] = NoRule
    <3>1. b = [channel |-> c.rule.channel, lines |-> <<>>]
      BY <1>3, <2>1
    <3>2. <<>> \in Seq(LineRecord) /\ DOMAIN <<>> = {}
      OBVIOUS
    <3>3. b \in BufferRecord /\ b.lines = <<>>
      BY <1>7, <3>1, <3>2 DEF BufferRecord
    <3>4. \A i : ~Holds(b, i) /\ ~Holds(NoRule, i)
      BY <3>2, <3>3 DEF Holds
    <3> QED
      BY <2>1, <3>3, <3>4
  <2>2. CASE buffers[c.event] # NoRule
    BY <1>0, <1>2, <1>3, <2>2 DEF AlertTypes
  <2> QED
    BY <2>1, <2>2
<1>10. d \in BufferRecord /\ \A i : Holds(d, i) <=> (Holds(buffers[c.event], i) \/ i = c.id)
  <2>1. d \in BufferRecord /\ \A i : Holds(d, i) <=> (Holds(b, i) \/ i = l.id)
    BY <1>5, <1>8, <1>9, OneMoreLine
  <2> QED
    BY <1>8, <1>9, <2>1
<1>11. buffers'[c.event] = d /\ \A e \in Events : e # c.event => buffers'[e] = buffers[e]
  BY <1>0, <1>2, <1>6 DEF AlertTypes
<1>12. /\ Hands' /\ th' \in [Threads -> {N!Free} \cup ThreadRecord]
       /\ \A i : ~Hand(th'[t], i)
       /\ \A u \in Threads : u # t => th'[u] = th[u]
  BY <1>0, <1>6, HandsEmptied
<1>13. AlertTypes'
  BY <1>0, <1>6, <1>10, <1>12 DEF AlertTypes
<1>14. ASSUME NEW i \in N!Ids PROVE Place(i)'
  <2>1. CASE i # c.id
    <3>1. \A u \in Threads : Hand(th'[u], i) <=> Hand(th[u], i)
      BY <1>2, <1>12, <2>1
    <3>2. \A e \in Events : Holds(buffers'[e], i) <=> Holds(buffers[e], i)
      BY <1>10, <1>11, <2>1
    <3> QED
      BY <1>0, <1>6, <3>1, <3>2, PlaceKept
  <2>2. CASE i = c.id
    <3>1. \A u \in Threads : ~Hand(th'[u], i)
      BY <1>2, <1>12, <2>2
    <3>2. \A e \in Events : Holds(buffers'[e], i) <=> e = c.event
      BY <1>2, <1>10, <1>11, <2>2
    <3>3. posted'[i] = <<>> /\ Len(posted'[i]) <= 1 /\ i \in kept'
      BY <1>2, <1>6, <2>2
    <3> QED
      BY <1>2, <3>1, <3>2, <3>3 DEF Place
  <2> QED
    BY <2>1, <2>2
<1> QED
  BY <1>0, <1>6, <1>12, <1>13, <1>14, InstantsKept DEF AlertInv

\* One post more, of what was never posted.
LEMMA FirstPost ==
    ASSUME NEW ch \in RuleChannels
    PROVE  /\ Append(<<>>, ch) \in Seq(RuleChannels) /\ Append(<<>>, ch) # <<>>
           /\ Len(Append(<<>>, ch)) <= 1
OBVIOUS

\* An event is posted at once.
LEMMA PostNowKeeps ==
    ASSUME RulesAreRules, AlertInv, NEW t \in Threads, N!PostNow(t)
    PROVE  AlertInv'
<1>0. AlertTypes /\ Hands /\ Instants /\ th[t].pc = "send" /\ \A i \in N!Ids : Place(i)
  BY DEF AlertInv, N!PostNow
<1>1. PICK c : c = th[t]
  OBVIOUS
<1>2. /\ c.id \in N!Ids /\ c.id \in kept /\ c.rule \in Rules
      /\ \A u \in Threads : u # t => ~Hand(th[u], c.id)
      /\ \A e \in Events : ~Holds(buffers[e], c.id)
      /\ posted[c.id] = <<>>
      /\ \A i : Hand(th[t], i) <=> i = c.id
  BY <1>0, <1>1, InOneHand
<1>3. PICK p : p = Append(<<>>, c.rule.channel)
  OBVIOUS
<1>4. p \in Seq(RuleChannels) /\ p # <<>> /\ Len(p) <= 1
  <2>1. c.rule.channel \in RuleChannels
    BY <1>2 DEF RuleChannels
  <2> QED
    BY <1>3, <2>1, FirstPost
<1>5. /\ posted' = [posted EXCEPT ![c.id] = p] /\ th' = [th EXCEPT ![t] = N!Free]
      /\ rules' = rules /\ emits' = emits /\ last' = last /\ first' = first /\ kept' = kept
      /\ repeats' = repeats /\ captured' = captured /\ buffers' = buffers
  BY <1>1, <1>2, <1>3 DEF N!PostNow
<1>6. posted'[c.id] = p /\ \A i \in N!Ids : i # c.id => posted'[i] = posted[i]
  BY <1>0, <1>2, <1>5 DEF AlertTypes
<1>7. /\ Hands' /\ th' \in [Threads -> {N!Free} \cup ThreadRecord]
      /\ \A i : ~Hand(th'[t], i)
      /\ \A u \in Threads : u # t => th'[u] = th[u]
  BY <1>0, <1>5, HandsEmptied
<1>8. AlertTypes'
  BY <1>0, <1>4, <1>5, <1>7 DEF AlertTypes
<1>9. ASSUME NEW i \in N!Ids PROVE Place(i)'
  <2>1. CASE i # c.id
    <3>1. \A u \in Threads : Hand(th'[u], i) <=> Hand(th[u], i)
      BY <1>2, <1>7, <2>1
    <3> QED
      BY <1>0, <1>5, <1>6, <2>1, <3>1, PlaceKept
  <2>2. CASE i = c.id
    <3>1. \A u \in Threads : ~Hand(th'[u], i)
      BY <1>2, <1>7, <2>2
    <3>2. \A e \in Events : ~Holds(buffers'[e], i)
      BY <1>2, <1>5, <2>2
    <3>3. posted'[i] # <<>> /\ Len(posted'[i]) <= 1 /\ i \in kept'
      BY <1>2, <1>4, <1>5, <1>6, <2>2
    <3> QED
      BY <3>1, <3>2, <3>3 DEF Place
  <2> QED
    BY <2>1, <2>2
<1> QED
  BY <1>0, <1>5, <1>7, <1>8, <1>9, InstantsKept DEF AlertInv

\* A buffer is drained.
LEMMA Drained ==
    ASSUME RulesAreRules, NEW b \in BufferRecord
    PROVE  /\ [b EXCEPT !.lines = <<>>] \in BufferRecord
           /\ \A i : ~Holds([b EXCEPT !.lines = <<>>], i)
<1>1. <<>> \in Seq(LineRecord) /\ DOMAIN <<>> = {}
  OBVIOUS
<1>2. PICK c : c = [b EXCEPT !.lines = <<>>]
  OBVIOUS
<1>3. c \in BufferRecord /\ c.lines = <<>>
  BY <1>1, <1>2 DEF BufferRecord
<1>4. \A i : ~Holds(c, i)
  BY <1>1, <1>3 DEF Holds
<1> QED
  BY <1>2, <1>3, <1>4

\* The flusher posts what is ripe.
LEMMA FlushKeeps ==
    ASSUME RulesAreRules, AlertInv, N!Flush
    PROVE  AlertInv'
<1>0. AlertTypes /\ Hands /\ Instants /\ \A i \in N!Ids : Place(i)
  BY DEF AlertInv
<1>1. PICK ripe : ripe = {e \in Events : N!Ripe(buffers[e])}
  OBVIOUS
<1>2. /\ rules' = rules /\ th' = th /\ emits' = emits /\ last' = last /\ first' = first /\ kept' = kept
      /\ repeats' = repeats /\ captured' = captured
      /\ buffers' = [e \in Events |-> IF e \in ripe THEN [buffers[e] EXCEPT !.lines = <<>>] ELSE buffers[e]]
  BY <1>1 DEF N!Flush
<1>3. \A e \in ripe : e \in Events /\ buffers[e] \in BufferRecord /\ buffers[e] # NoRule
  BY <1>0, <1>1 DEF AlertTypes, N!Ripe
<1>4. \A e \in Events : /\ buffers'[e] \in {NoRule} \cup BufferRecord
                        /\ \A i : Holds(buffers'[e], i) <=> e \notin ripe /\ Holds(buffers[e], i)
  <2>1. ASSUME NEW e \in Events, e \in ripe
        PROVE  buffers'[e] \in BufferRecord /\ \A i : ~Holds(buffers'[e], i)
    <3>1. buffers'[e] = [buffers[e] EXCEPT !.lines = <<>>]
      BY <1>2, <2>1
    <3>2. PICK b \in BufferRecord : b = buffers[e]
      BY <1>3, <2>1
    <3>3. [b EXCEPT !.lines = <<>>] \in BufferRecord /\ \A i : ~Holds([b EXCEPT !.lines = <<>>], i)
      BY Drained
    <3> QED
      BY <3>1, <3>2, <3>3
  <2>2. ASSUME NEW e \in Events, e \notin ripe
        PROVE  buffers'[e] \in {NoRule} \cup BufferRecord /\ buffers'[e] = buffers[e]
    BY <1>0, <1>2, <2>2 DEF AlertTypes
  <2> QED
    BY <2>1, <2>2
<1>5. ASSUME NEW i \in N!Ids
      PROVE  posted'[i] \in Seq(RuleChannels) /\ Place(i)'
  <2>0. Place(i) /\ posted[i] \in Seq(RuleChannels)
    BY <1>0 DEF AlertTypes
  <2>1. CASE \E e \in ripe : Holds(buffers[e], i)
    <3>1. PICK e : e = CHOOSE f \in ripe : \E n \in DOMAIN buffers[f].lines : buffers[f].lines[n].id = i
      OBVIOUS
    <3>2. \E f \in ripe : \E n \in DOMAIN buffers[f].lines : buffers[f].lines[n].id = i
      BY <2>1 DEF Holds
    <3>3. e \in ripe /\ \E n \in DOMAIN buffers[e].lines : buffers[e].lines[n].id = i
      BY <3>1, <3>2
    <3>4. e \in Events /\ Holds(buffers[e], i) /\ buffers[e].channel \in RuleChannels
      BY <1>3, <3>3 DEF Holds, BufferRecord
    <3>5. posted'[i] = Append(posted[i], buffers[e].channel)
      BY <1>1, <3>1, <3>2 DEF N!Flush, N!PostLines
    <3>6. posted[i] = <<>> /\ i \in kept
      BY <2>0, <3>4 DEF Place
    <3>7. posted'[i] \in Seq(RuleChannels) /\ posted'[i] # <<>> /\ Len(posted'[i]) <= 1
      <4>1. PICK ch \in RuleChannels : ch = buffers[e].channel
        BY <3>4
      <4>2. posted'[i] = Append(<<>>, ch)
        BY <3>5, <3>6, <4>1
      <4> QED
        BY <4>2, FirstPost
    <3>8. \A f \in Events : Holds(buffers[f], i) => f = e
      BY <2>0, <3>4 DEF Place
    <3>9. \A f \in Events : ~Holds(buffers'[f], i)
      BY <1>4, <3>3, <3>8
    <3>10. \A t \in Threads : ~Hand(th'[t], i)
      BY <1>2, <2>0, <3>4 DEF Place
    <3>11. i \in kept'
      BY <1>2, <3>6
    <3> QED
      BY <3>7, <3>9, <3>10, <3>11 DEF Place
  <2>2. CASE ~\E e \in ripe : Holds(buffers[e], i)
    <3>1. ~\E e \in ripe : \E n \in DOMAIN buffers[e].lines : buffers[e].lines[n].id = i
      BY <1>3, <2>2 DEF Holds
    <3>2. posted'[i] = posted[i]
      BY <1>1, <3>1 DEF N!Flush, N!PostLines
    <3>3. \A e \in Events : Holds(buffers'[e], i) <=> Holds(buffers[e], i)
      BY <1>4, <2>2
    <3> QED
      BY <1>2, <2>0, <3>2, <3>3, PlaceKept
  <2> QED
    BY <2>1, <2>2
<1>6. posted' \in [N!Ids -> Seq(RuleChannels)]
  <2>1. posted' = [i \in N!Ids |-> posted'[i]]
    BY DEF N!Flush, N!PostLines
  <2> QED
    BY <1>5, <2>1
<1>7. buffers' \in [Events -> {NoRule} \cup BufferRecord]
  BY <1>2, <1>4
<1>8. AlertTypes'
  BY <1>0, <1>2, <1>6, <1>7 DEF AlertTypes
<1>9. Hands'
  BY <1>0, <1>2 DEF Hands
<1> QED
  BY <1>0, <1>2, <1>5, <1>8, <1>9, InstantsKept DEF AlertInv

\* The lines of a buffer grow older and stay what they are.
LEMMA Aged ==
    ASSUME RulesAreRules, NEW b \in BufferRecord, NEW c,
           c = [b EXCEPT !.lines = [n \in DOMAIN @ |-> N!OlderLine(@[n])]]
    PROVE  c \in BufferRecord /\ \A i : Holds(c, i) <=> Holds(b, i)
<1>1. PICK s : s = b.lines
  OBVIOUS
<1>2. s \in Seq(LineRecord) /\ Interval \in Nat
  BY <1>1 DEF BufferRecord, RulesAreRules
<1>3. PICK a : a = [n \in DOMAIN s |-> N!OlderLine(s[n])]
  OBVIOUS
<1>4. c = [b EXCEPT !.lines = a]
  BY <1>1, <1>3
<1>5. DOMAIN a = DOMAIN s /\ DOMAIN s = 1..Len(s) /\ Len(s) \in Nat
  BY <1>2, <1>3
<1>6. ASSUME NEW n \in DOMAIN s PROVE a[n] \in LineRecord /\ a[n].id = s[n].id
  <2>1. PICK l \in LineRecord : l = s[n]
    BY <1>2, <1>5
  <2>2. PICK g : g = N!Older(l.age, Interval)
    OBVIOUS
  <2>3. l.age \in 0..Interval
    BY DEF LineRecord
  <2>4. g \in 0..Interval
    BY <1>2, <2>2, <2>3 DEF N!Older
  <2>5. a[n] = [l EXCEPT !.age = g]
    BY <1>3, <2>1, <2>2 DEF N!OlderLine
  <2> QED
    BY <2>1, <2>4, <2>5 DEF LineRecord
<1>7. a \in Seq(LineRecord)
  <2>1. a \in [1..Len(s) -> LineRecord]
    BY <1>3, <1>5, <1>6
  <2> QED
    BY <1>5, <2>1, IsASeq
<1>8. c \in BufferRecord /\ c.lines = a
  BY <1>4, <1>7 DEF BufferRecord
<1>9. c # NoRule /\ b # NoRule
  BY <1>8 DEF RulesAreRules
<1>10. ASSUME NEW i PROVE Holds(c, i) <=> Holds(b, i)
  <2>1. (\E n \in DOMAIN a : a[n].id = i) <=> (\E n \in DOMAIN s : s[n].id = i)
    BY <1>5, <1>6
  <2> QED
    BY <1>1, <1>8, <1>9, <2>1 DEF Holds
<1> QED
  BY <1>8, <1>10

\* A thread that stalls keeps its event.
LEMMA Stalled ==
    ASSUME RulesAreRules, NEW r \in ThreadRecord, r.stall < MaxStall, NEW c,
           c = [r EXCEPT !.stall = @ + 1]
    PROVE  c \in ThreadRecord /\ c.pc = r.pc /\ c.id = r.id
<1>1. PICK g : g = r.stall + 1
  OBVIOUS
<1>2. r.stall \in 0..MaxStall
  BY DEF ThreadRecord
<1>3. g \in 0..MaxStall
  BY <1>1, <1>2 DEF RulesAreRules
<1>4. c = [r EXCEPT !.stall = g]
  BY <1>1
<1> QED
  BY <1>3, <1>4 DEF ThreadRecord

\* Time passes.
LEMMA AlertTickKeeps ==
    ASSUME RulesAreRules, AlertInv, N!Tick
    PROVE  AlertInv'
<1>0. AlertTypes /\ Hands /\ Instants /\ \A i \in N!Ids : Place(i)
  BY DEF AlertInv
<1>1. /\ rules' = rules /\ emits' = emits /\ first' = first /\ kept' = kept
      /\ repeats' = repeats /\ captured' = captured /\ posted' = posted
      /\ last' = [e \in Events |-> [k \in Keys |-> N!Older(last[e][k], N!MaxAge)]]
  BY DEF N!Tick
<1>2. ASSUME NEW t \in Threads
      PROVE  /\ th'[t] \in {N!Free} \cup ThreadRecord /\ th'[t].pc = th[t].pc
             /\ th'[t] = N!Free <=> th[t] = N!Free
             /\ th[t] # N!Free => th'[t].id = th[t].id
  <2>0. th[t] \in {N!Free} \cup ThreadRecord
    BY <1>0 DEF AlertTypes
  <2>1. CASE th[t].pc = "dedup"
    <3>1. th[t].stall < MaxStall /\ th'[t] = [th[t] EXCEPT !.stall = @ + 1]
      BY <2>1 DEF N!Tick
    <3>2. th[t] \in ThreadRecord
      BY <2>0, <2>1, ThreadIs
    <3>3. PICK r, c : r \in ThreadRecord /\ r = th[t] /\ c = th'[t]
      BY <3>2
    <3>4. c \in ThreadRecord /\ c.pc = r.pc /\ c.id = r.id
      BY <3>1, <3>3, Stalled
    <3> QED
      BY <2>0, <2>1, <3>3, <3>4, ThreadIs
  <2>2. CASE th[t].pc # "dedup"
    <3>1. th'[t] = th[t]
      BY <2>2 DEF N!Tick
    <3> QED
      BY <2>0, <3>1
  <2> QED
    BY <2>1, <2>2
<1>3. th' \in [Threads -> {N!Free} \cup ThreadRecord]
  <2>1. th' = [t \in Threads |-> th'[t]]
    BY DEF N!Tick
  <2> QED
    BY <1>2, <2>1
<1>4. ASSUME NEW e \in Events
      PROVE  /\ buffers'[e] \in {NoRule} \cup BufferRecord
             /\ \A i : Holds(buffers'[e], i) <=> Holds(buffers[e], i)
  <2>1. CASE buffers[e] = NoRule
    <3>1. buffers'[e] = NoRule
      BY <2>1 DEF N!Tick
    <3> QED
      BY <2>1, <3>1
  <2>2. CASE buffers[e] # NoRule
    <3>1. PICK b, c : b \in BufferRecord /\ b = buffers[e] /\ c = buffers'[e]
      BY <1>0, <2>2 DEF AlertTypes
    <3>2. buffers'[e] = [buffers[e] EXCEPT !.lines = [n \in DOMAIN @ |-> N!OlderLine(@[n])]]
      BY <2>2 DEF N!Tick
    <3>3. c = [b EXCEPT !.lines = [n \in DOMAIN @ |-> N!OlderLine(@[n])]]
      BY <3>1, <3>2
    <3>4. c \in BufferRecord /\ \A i : Holds(c, i) <=> Holds(b, i)
      BY <3>1, <3>3, Aged
    <3> QED
      BY <3>1, <3>4
  <2> QED
    BY <2>1, <2>2
<1>5. buffers' \in [Events -> {NoRule} \cup BufferRecord]
  <2>1. buffers' = [e \in Events |-> buffers'[e]]
    BY DEF N!Tick
  <2> QED
    BY <1>4, <2>1
<1>6. N!MaxAge \in Nat /\ \A g \in 0..N!MaxAge :
          N!Older(g, N!MaxAge) \in 0..N!MaxAge /\ (g = N!MaxAge => N!Older(g, N!MaxAge) = N!MaxAge)
  <2>1. N!MaxAge \in Nat
    BY DEF N!MaxAge, RulesAreRules
  <2> QED
    BY <2>1 DEF N!Older
<1>7. \A e \in Events, k \in Keys : last[e][k] \in 0..N!MaxAge
  BY <1>0 DEF AlertTypes
<1>8. /\ last' \in [Events -> [Keys -> 0..N!MaxAge]]
      /\ \A e \in Events, k \in Keys : last[e][k] = N!MaxAge => last'[e][k] = N!MaxAge
  BY <1>1, <1>6, <1>7
<1>9. AlertTypes'
  BY <1>0, <1>1, <1>3, <1>5, <1>8 DEF AlertTypes
<1>10. Hands'
  <2>1. ASSUME NEW t \in Threads, th'[t] # N!Free
        PROVE  th'[t].id <= emits' /\ (th'[t].pc = "send" <=> th'[t].id \in kept')
    BY <1>0, <1>1, <1>2, <2>1 DEF Hands
  <2>2. ASSUME NEW t \in Threads, NEW u \in Threads, th'[t] # N!Free, th'[u] # N!Free, th'[t].id = th'[u].id
        PROVE  t = u
    BY <1>0, <1>2, <2>2 DEF Hands
  <2> QED
    BY <2>1, <2>2 DEF Hands
<1>11. ASSUME NEW i \in N!Ids PROVE Place(i)'
  <2>1. ASSUME NEW t \in Threads PROVE Hand(th'[t], i) <=> Hand(th[t], i)
    <3>1. CASE th[t] = N!Free
      BY <1>2, <3>1
    <3>2. CASE th[t] # N!Free
      BY <1>2, <3>2 DEF Hand
    <3> QED
      BY <3>1, <3>2
  <2> QED
    BY <1>0, <1>1, <1>4, <2>1, PlaceKept
<1>12. Instants'
  BY <1>0, <1>1, <1>8 DEF Instants
<1> QED
  BY <1>9, <1>10, <1>11, <1>12 DEF AlertInv

LEMMA AlertStep ==
    ASSUME RulesAreRules, AlertInv, [N!Next]_(N!vars)
    PROVE  AlertInv'
<1>1. ASSUME /\ th' = th /\ emits' = emits /\ last' = last /\ first' = first /\ buffers' = buffers
             /\ kept' = kept /\ repeats' = repeats /\ captured' = captured /\ posted' = posted,
             rules' \in [Events -> Rules \cup {NoRule}]
      PROVE  AlertInv'
  BY <1>1 DEF AlertInv, AlertTypes, Hands, Place, Instants
<1>2. CASE UNCHANGED N!vars
  BY <1>1, <1>2 DEF N!vars, AlertInv, AlertTypes
<1>3. ASSUME NEW e \in Events, N!Reload(e) PROVE AlertInv'
  <2>1. PICK r \in Rules \cup {NoRule} : rules' = [rules EXCEPT ![e] = r]
    BY <1>3 DEF N!Reload
  <2>2. rules' \in [Events -> Rules \cup {NoRule}]
    BY <2>1 DEF AlertInv, AlertTypes
  <2> QED
    BY <1>1, <1>3, <2>2 DEF N!Reload
<1>4. CASE N!Next
  <2>1. CASE \E t \in Threads, e \in Events, k \in Keys : N!Emit(t, e, k)
    BY <2>1, EmitKeeps
  <2>2. CASE \E t \in Threads : N!Dedup(t) \/ N!Enqueue(t) \/ N!PostNow(t)
    BY <2>2, DedupKeeps, EnqueueKeeps, PostNowKeeps
  <2>3. CASE N!Flush \/ N!Tick
    BY <2>3, FlushKeeps, AlertTickKeeps
  <2>4. CASE \E e \in Events : N!Reload(e)
    BY <1>3, <2>4
  <2> QED
    BY <1>4, <2>1, <2>2, <2>3, <2>4 DEF N!Next, N!ThreadStep
<1> QED
  BY <1>2, <1>4

\* What the invariant says of the alerts.
LEMMA AlertInvIsEnough ==
    ASSUME RulesAreRules, AlertInv
    PROVE  AlertsHandedOnce
<1>0. AlertTypes /\ Hands /\ Instants /\ \A i \in N!Ids : Place(i)
  BY DEF AlertInv
<1>1. ASSUME NEW i \in N!Ids, posted[i] # <<>> PROVE i <= emits
  <2>1. i \in kept
    BY <1>0, <1>1 DEF Place
  <2>2. i \in 1..emits
    BY <1>0, <2>1 DEF AlertTypes
  <2>3. emits \in Nat
    BY <1>0 DEF AlertTypes
  <2> QED
    BY <2>2, <2>3
<1>2. \A t \in Threads : th[t].pc \in {"idle", "dedup", "send"}
  BY <1>0, ThreadIs DEF AlertTypes
<1>3. ASSUME NEW e \in Events, buffers[e] # NoRule, NEW n \in DOMAIN buffers[e].lines
      PROVE  buffers[e].lines[n].age \in 0..Interval
  <2>1. buffers[e].lines \in Seq(LineRecord)
    BY <1>0, <1>3 DEF AlertTypes, BufferRecord
  <2>2. buffers[e].lines[n] \in LineRecord
    BY <1>3, <2>1
  <2> QED
    BY <2>2 DEF LineRecord
<1>4. N!TypeOK
  BY <1>0, <1>1, <1>2, <1>3 DEF AlertTypes, N!TypeOK
<1>5. N!RepeatHasOriginal
  <2> SUFFICES ASSUME NEW r \in repeats
               PROVE  N!InHand(r[2]) \/ N!Queued(r[2]) \/ posted[r[2]] # <<>>
    BY DEF N!RepeatHasOriginal
  <2>1. PICK i : i = r[2]
    OBVIOUS
  <2>2. i \in kept
    BY <1>0, <2>1 DEF Instants
  <2>3. i \in N!Ids
    BY <1>0, <2>2 DEF AlertTypes, N!Ids, RulesAreRules
  <2>4. Place(i)
    BY <1>0, <2>3
  <2>5. \/ \E t \in Threads : Hand(th[t], i)
        \/ \E e \in Events : Holds(buffers[e], i)
        \/ posted[i] # <<>>
    BY <2>2, <2>4 DEF Place
  <2>6. N!InHand(i) \/ N!Queued(i) \/ posted[i] # <<>>
    BY <2>5 DEF N!InHand, Hand, N!Queued, Holds
  <2> QED
    BY <2>1, <2>6, Zenon
<1>6. ASSUME NEW i \in N!Ids
      PROVE  /\ Len(posted[i]) <= 1
             /\ (IF N!InHand(i) THEN 1 ELSE 0) + (IF N!Queued(i) THEN 1 ELSE 0) + Len(posted[i])
                    = (IF i \in kept THEN 1 ELSE 0)
  <2>0. Place(i) /\ posted[i] \in Seq(RuleChannels)
    BY <1>0 DEF AlertTypes
  <2>1. N!InHand(i) <=> \E t \in Threads : Hand(th[t], i)
    BY DEF N!InHand, Hand
  <2>2. N!Queued(i) <=> \E e \in Events : Holds(buffers[e], i)
    BY DEF N!Queued, Holds
  <2>3. /\ Len(posted[i]) <= 1
        /\ N!InHand(i) => ~N!Queued(i) /\ posted[i] = <<>>
        /\ N!Queued(i) => posted[i] = <<>>
        /\ i \in kept <=> N!InHand(i) \/ N!Queued(i) \/ posted[i] # <<>>
    BY <2>0, <2>1, <2>2 DEF Place
  <2>4. PICK p \in Seq(RuleChannels) : p = posted[i]
    BY <2>0
  <2>5. Len(p) \in Nat /\ (p = <<>> <=> Len(p) = 0)
    BY <2>4
  <2>6. CASE N!InHand(i)
    BY <2>3, <2>4, <2>5, <2>6
  <2>7. CASE ~N!InHand(i) /\ N!Queued(i)
    BY <2>3, <2>4, <2>5, <2>7
  <2>8. CASE ~N!InHand(i) /\ ~N!Queued(i) /\ p # <<>>
    <3>1. i \in kept
      BY <2>3, <2>4, <2>8
    <3>2. PICK m \in Nat : m = Len(p)
      BY <2>5
    <3>3. m <= 1 /\ m # 0
      BY <2>3, <2>4, <2>5, <2>8, <3>2
    <3>4. m = 1
      BY <3>3
    <3> QED
      BY <2>4, <2>8, <3>1, <3>2, <3>4
  <2>9. CASE ~N!InHand(i) /\ ~N!Queued(i) /\ p = <<>>
    BY <2>3, <2>4, <2>5, <2>9
  <2> QED
    BY <2>6, <2>7, <2>8, <2>9
<1>7. N!PostedOnce
  BY <1>6 DEF N!PostedOnce
<1> QED
  BY <1>4, <1>5, <1>7 DEF AlertsHandedOnce

\* However threads stall between the clock and the lock, rules are reloaded and
\* batches flushed, an event `notify/layer.rs` lets past sampling and dedup is in
\* one place and handed to the Slack client once at the most, nothing else is handed
\* to it, and an event dropped as a repeat repeats one that was or is about to be.
THEOREM AlertsAreHandedOnce ==
    N!Spec => []AlertsHandedOnce
<1>1. N!Init => AlertInv
  <2> SUFFICES ASSUME N!Init PROVE AlertInv
    OBVIOUS
  <2>1. /\ rules \in [Events -> Rules \cup {NoRule}] /\ th = [t \in Threads |-> N!Free]
        /\ emits = 0 /\ last = [e \in Events |-> [k \in Keys |-> N!MaxAge]]
        /\ first = [e \in Events |-> [k \in Keys |-> 0]] /\ buffers = [e \in Events |-> NoRule]
        /\ kept = {} /\ repeats = {} /\ captured = {} /\ posted = [i \in N!Ids |-> <<>>]
    BY DEF N!Init
  <2>2. N!MaxAge \in Nat /\ MaxEmits \in Nat /\ <<>> \in Seq(RuleChannels) /\ Len(<<>>) <= 1
    BY RulesAssumption DEF RulesAreRules, N!MaxAge
  <2>3. AlertTypes
    BY <2>1, <2>2 DEF AlertTypes
  <2>4. Hands
    BY <2>1 DEF Hands
  <2>5. ASSUME NEW i \in N!Ids PROVE Place(i)
    <3>1. /\ posted[i] = <<>> /\ i \notin kept
          /\ \A t \in Threads : ~Hand(th[t], i)
          /\ \A e \in Events : ~Holds(buffers[e], i)
      BY <2>1 DEF Hand, Holds, N!Free
    <3> QED
      BY <2>2, <3>1 DEF Place
  <2>6. Instants
    BY <2>1 DEF Instants
  <2> QED
    BY <2>3, <2>4, <2>5, <2>6 DEF AlertInv
<1>2. AlertInv /\ [N!Next]_(N!vars) => AlertInv'
  BY RulesAssumption, AlertStep
<1>3. AlertInv => AlertsHandedOnce
  BY RulesAssumption, AlertInvIsEnough
<1> QED
  BY <1>1, <1>2, <1>3, PTL DEF N!Spec
-----------------------------------------------------------------------------
(* What is decided, for every input.                                       *)

\* The bits a prefix leaves out of each octet, for the lengths the deny list has.
LEMMA LowBits ==
    /\ 2^(8 - F!Covered(8, 1)) = 1   /\ 2^(8 - F!Covered(8, 2)) = 256
    /\ 2^(8 - F!Covered(8, 3)) = 256 /\ 2^(8 - F!Covered(8, 4)) = 256
    /\ 2^(8 - F!Covered(4, 1)) = 16  /\ 2^(8 - F!Covered(4, 2)) = 256
    /\ 2^(8 - F!Covered(4, 3)) = 256 /\ 2^(8 - F!Covered(4, 4)) = 256
    /\ 2^(8 - F!Covered(10, 1)) = 1   /\ 2^(8 - F!Covered(10, 2)) = 64
    /\ 2^(8 - F!Covered(10, 3)) = 256 /\ 2^(8 - F!Covered(10, 4)) = 256
    /\ 2^(8 - F!Covered(12, 1)) = 1   /\ 2^(8 - F!Covered(12, 2)) = 16
    /\ 2^(8 - F!Covered(12, 3)) = 256 /\ 2^(8 - F!Covered(12, 4)) = 256
    /\ 2^(8 - F!Covered(15, 1)) = 1   /\ 2^(8 - F!Covered(15, 2)) = 2
    /\ 2^(8 - F!Covered(15, 3)) = 256 /\ 2^(8 - F!Covered(15, 4)) = 256
    /\ 2^(8 - F!Covered(16, 1)) = 1   /\ 2^(8 - F!Covered(16, 2)) = 1
    /\ 2^(8 - F!Covered(16, 3)) = 256 /\ 2^(8 - F!Covered(16, 4)) = 256
    /\ 2^(8 - F!Covered(24, 1)) = 1   /\ 2^(8 - F!Covered(24, 2)) = 1
    /\ 2^(8 - F!Covered(24, 3)) = 1   /\ 2^(8 - F!Covered(24, 4)) = 256
<1>1. 2^0 = 1 /\ 2^1 = 2 /\ 2^4 = 16 /\ 2^6 = 64 /\ 2^8 = 256
  OBVIOUS
<1> QED
  BY <1>1 DEF F!Covered

\* A network, octet by octet.
LEMMA NetworkByOctet ==
    ASSUME NEW ip, NEW net, NEW p
    PROVE  F!InNetwork(ip, net, p) <=>
               /\ ip[1] \div 2^(8 - F!Covered(p, 1)) = net[1] \div 2^(8 - F!Covered(p, 1))
               /\ ip[2] \div 2^(8 - F!Covered(p, 2)) = net[2] \div 2^(8 - F!Covered(p, 2))
               /\ ip[3] \div 2^(8 - F!Covered(p, 3)) = net[3] \div 2^(8 - F!Covered(p, 3))
               /\ ip[4] \div 2^(8 - F!Covered(p, 4)) = net[4] \div 2^(8 - F!Covered(p, 4))
<1>1. 1..4 = {1, 2, 3, 4}
  OBVIOUS
<1> QED
  BY <1>1 DEF F!InNetwork

\* The octets under the prefixes that end within one.
LEMMA OctetRanges ==
    ASSUME NEW a \in 0..255
    PROVE  /\ a \div 16 = 16 \div 16 <=> a \in 16..31
           /\ a \div 64 = 64 \div 64 <=> a \in 64..127
           /\ a \div 2 = 18 \div 2 <=> a \in 18..19
           /\ a \div 16 = 224 \div 16 <=> a \in 224..239
           /\ a \div 16 = 240 \div 16 <=> a \in 240..255
           /\ (a \in 224..239 \/ a \in 240..255) <=> a \in 224..255
OBVIOUS

\* The deny list of `http_client/guard/deny.rs`, prefix lengths and masks, refuses of
\* all IPv4 addresses, mapped into v6 or not, exactly those the RFCs reserve.
THEOREM DenyListIsTheRanges ==
    ASSUME NEW a \in 0..255, NEW b \in 0..255, NEW c \in 0..255, NEW d \in 0..255
    PROVE  F!DeniedAsReserved(<<a, b, c, d>>)
<1>1. PICK ip : ip = <<a, b, c, d>>
  OBVIOUS
<1>10. ip[1] = a /\ ip[2] = b /\ ip[3] = c /\ ip[4] = d
  BY <1>1
<1>2. F!IsDeniedV4(ip) <=>
          \/ a \in {0, 10, 127} \/ (a = 172 /\ b \in 16..31) \/ (a = 192 /\ b = 168)
          \/ (a = 100 /\ b \in 64..127) \/ (a = 169 /\ b = 254) \/ (a = 192 /\ b = 0 /\ c = 0)
          \/ (a = 198 /\ b \in 18..19) \/ a \in 224..255
  <2>0. 0 \in 0..255 /\ \A o \in 0..255 : o \div 256 = 0 /\ o \div 1 = o
    OBVIOUS
  <2>1. PICK n1 : n1 = <<0, 0, 0, 0>> /\ (F!InNetwork(ip, n1, 8) <=> (a = 0))
    <3>1. PICK x \in 0..255, y \in 0..255 : x = 0 /\ y = 0
      OBVIOUS
    <3>2. PICK n : n = <<x, y, 0, 0>>
      OBVIOUS
    <3>3. n[1] = x /\ n[2] = y /\ n[3] = 0 /\ n[4] = 0
      BY <3>2
    <3>4. F!InNetwork(ip, n, 8) <=> (a = x)
      BY <1>10, <2>0, <3>3, LowBits, NetworkByOctet
    <3> QED
      BY <3>1, <3>2, <3>4
  <2>2. PICK n2 : n2 = <<10, 0, 0, 0>> /\ (F!InNetwork(ip, n2, 8) <=> (a = 10))
    <3>1. PICK x \in 0..255, y \in 0..255 : x = 10 /\ y = 0
      OBVIOUS
    <3>2. PICK n : n = <<x, y, 0, 0>>
      OBVIOUS
    <3>3. n[1] = x /\ n[2] = y /\ n[3] = 0 /\ n[4] = 0
      BY <3>2
    <3>4. F!InNetwork(ip, n, 8) <=> (a = x)
      BY <1>10, <2>0, <3>3, LowBits, NetworkByOctet
    <3> QED
      BY <3>1, <3>2, <3>4
  <2>3. PICK n3 : n3 = <<172, 16, 0, 0>> /\ (F!InNetwork(ip, n3, 12) <=> (a = 172 /\ b \in 16..31))
    <3>1. PICK x \in 0..255, y \in 0..255 : x = 172 /\ y = 16
      OBVIOUS
    <3>2. PICK n : n = <<x, y, 0, 0>>
      OBVIOUS
    <3>3. n[1] = x /\ n[2] = y /\ n[3] = 0 /\ n[4] = 0
      BY <3>2
    <3>4. F!InNetwork(ip, n, 12) <=> (a = x /\ b \div 16 = y \div 16)
      BY <1>10, <2>0, <3>3, LowBits, NetworkByOctet
    <3> QED
      BY <3>1, <3>2, <3>4, OctetRanges
  <2>4. PICK n4 : n4 = <<192, 168, 0, 0>> /\ (F!InNetwork(ip, n4, 16) <=> (a = 192 /\ b = 168))
    <3>1. PICK x \in 0..255, y \in 0..255 : x = 192 /\ y = 168
      OBVIOUS
    <3>2. PICK n : n = <<x, y, 0, 0>>
      OBVIOUS
    <3>3. n[1] = x /\ n[2] = y /\ n[3] = 0 /\ n[4] = 0
      BY <3>2
    <3>4. F!InNetwork(ip, n, 16) <=> (a = x /\ b = y)
      BY <1>10, <2>0, <3>3, LowBits, NetworkByOctet
    <3> QED
      BY <3>1, <3>2, <3>4
  <2>5. PICK n5 : n5 = <<100, 64, 0, 0>> /\ (F!InNetwork(ip, n5, 10) <=> (a = 100 /\ b \in 64..127))
    <3>1. PICK x \in 0..255, y \in 0..255 : x = 100 /\ y = 64
      OBVIOUS
    <3>2. PICK n : n = <<x, y, 0, 0>>
      OBVIOUS
    <3>3. n[1] = x /\ n[2] = y /\ n[3] = 0 /\ n[4] = 0
      BY <3>2
    <3>4. F!InNetwork(ip, n, 10) <=> (a = x /\ b \div 64 = y \div 64)
      BY <1>10, <2>0, <3>3, LowBits, NetworkByOctet
    <3> QED
      BY <3>1, <3>2, <3>4, OctetRanges
  <2>6. PICK n6 : n6 = <<127, 0, 0, 0>> /\ (F!InNetwork(ip, n6, 8) <=> (a = 127))
    <3>1. PICK x \in 0..255, y \in 0..255 : x = 127 /\ y = 0
      OBVIOUS
    <3>2. PICK n : n = <<x, y, 0, 0>>
      OBVIOUS
    <3>3. n[1] = x /\ n[2] = y /\ n[3] = 0 /\ n[4] = 0
      BY <3>2
    <3>4. F!InNetwork(ip, n, 8) <=> (a = x)
      BY <1>10, <2>0, <3>3, LowBits, NetworkByOctet
    <3> QED
      BY <3>1, <3>2, <3>4
  <2>7. PICK n7 : n7 = <<169, 254, 0, 0>> /\ (F!InNetwork(ip, n7, 16) <=> (a = 169 /\ b = 254))
    <3>1. PICK x \in 0..255, y \in 0..255 : x = 169 /\ y = 254
      OBVIOUS
    <3>2. PICK n : n = <<x, y, 0, 0>>
      OBVIOUS
    <3>3. n[1] = x /\ n[2] = y /\ n[3] = 0 /\ n[4] = 0
      BY <3>2
    <3>4. F!InNetwork(ip, n, 16) <=> (a = x /\ b = y)
      BY <1>10, <2>0, <3>3, LowBits, NetworkByOctet
    <3> QED
      BY <3>1, <3>2, <3>4
  <2>8. PICK n8 : n8 = <<192, 0, 0, 0>> /\ (F!InNetwork(ip, n8, 24) <=> (a = 192 /\ b = 0 /\ c = 0))
    <3>1. PICK x \in 0..255, y \in 0..255 : x = 192 /\ y = 0
      OBVIOUS
    <3>2. PICK n : n = <<x, y, 0, 0>>
      OBVIOUS
    <3>3. n[1] = x /\ n[2] = y /\ n[3] = 0 /\ n[4] = 0
      BY <3>2
    <3>4. F!InNetwork(ip, n, 24) <=> (a = x /\ b = y /\ c = 0)
      BY <1>10, <2>0, <3>3, LowBits, NetworkByOctet
    <3> QED
      BY <3>1, <3>2, <3>4
  <2>9. PICK n9 : n9 = <<198, 18, 0, 0>> /\ (F!InNetwork(ip, n9, 15) <=> (a = 198 /\ b \in 18..19))
    <3>1. PICK x \in 0..255, y \in 0..255 : x = 198 /\ y = 18
      OBVIOUS
    <3>2. PICK n : n = <<x, y, 0, 0>>
      OBVIOUS
    <3>3. n[1] = x /\ n[2] = y /\ n[3] = 0 /\ n[4] = 0
      BY <3>2
    <3>4. F!InNetwork(ip, n, 15) <=> (a = x /\ b \div 2 = y \div 2)
      BY <1>10, <2>0, <3>3, LowBits, NetworkByOctet
    <3> QED
      BY <3>1, <3>2, <3>4, OctetRanges
  <2>10. PICK n10 : n10 = <<224, 0, 0, 0>> /\ (F!InNetwork(ip, n10, 4) <=> (a \in 224..239))
    <3>1. PICK x \in 0..255, y \in 0..255 : x = 224 /\ y = 0
      OBVIOUS
    <3>2. PICK n : n = <<x, y, 0, 0>>
      OBVIOUS
    <3>3. n[1] = x /\ n[2] = y /\ n[3] = 0 /\ n[4] = 0
      BY <3>2
    <3>4. F!InNetwork(ip, n, 4) <=> (a \div 16 = x \div 16)
      BY <1>10, <2>0, <3>3, LowBits, NetworkByOctet
    <3> QED
      BY <3>1, <3>2, <3>4, OctetRanges
  <2>11. PICK n11 : n11 = <<240, 0, 0, 0>> /\ (F!InNetwork(ip, n11, 4) <=> (a \in 240..255))
    <3>1. PICK x \in 0..255, y \in 0..255 : x = 240 /\ y = 0
      OBVIOUS
    <3>2. PICK n : n = <<x, y, 0, 0>>
      OBVIOUS
    <3>3. n[1] = x /\ n[2] = y /\ n[3] = 0 /\ n[4] = 0
      BY <3>2
    <3>4. F!InNetwork(ip, n, 4) <=> (a \div 16 = x \div 16)
      BY <1>10, <2>0, <3>3, LowBits, NetworkByOctet
    <3> QED
      BY <3>1, <3>2, <3>4, OctetRanges
  <2>12. F!IsDeniedV4(ip) <=>
             \/ F!InNetwork(ip, n1, 8)
             \/ F!InNetwork(ip, n2, 8)
             \/ F!InNetwork(ip, n3, 12)
             \/ F!InNetwork(ip, n4, 16)
             \/ F!InNetwork(ip, n5, 10)
             \/ F!InNetwork(ip, n6, 8)
             \/ F!InNetwork(ip, n7, 16)
             \/ F!InNetwork(ip, n8, 24)
             \/ F!InNetwork(ip, n9, 15)
             \/ F!InNetwork(ip, n10, 4)
             \/ F!InNetwork(ip, n11, 4)
    BY <2>1, <2>2, <2>3, <2>4, <2>5, <2>6, <2>7, <2>8, <2>9, <2>10, <2>11 DEF F!IsDeniedV4, F!DeniedV4
  <2> QED
    BY <2>1, <2>2, <2>3, <2>4, <2>5, <2>6, <2>7, <2>8, <2>9, <2>10, <2>11, <2>12, OctetRanges
<1>3. PICK n : n = F!At(a, b, c)
  OBVIOUS
<1>4. (\E r \in F!ReservedRanges : r[1] <= n /\ n <= r[2]) <=>
          \/ (F!At(0, 0, 0) <= n /\ n <= F!At(0, 255, 255))
          \/ (F!At(10, 0, 0) <= n /\ n <= F!At(10, 255, 255))
          \/ (F!At(100, 64, 0) <= n /\ n <= F!At(100, 127, 255))
          \/ (F!At(127, 0, 0) <= n /\ n <= F!At(127, 255, 255))
          \/ (F!At(169, 254, 0) <= n /\ n <= F!At(169, 254, 255))
          \/ (F!At(172, 16, 0) <= n /\ n <= F!At(172, 31, 255))
          \/ (F!At(192, 0, 0) <= n /\ n <= F!At(192, 0, 0))
          \/ (F!At(192, 168, 0) <= n /\ n <= F!At(192, 168, 255))
          \/ (F!At(198, 18, 0) <= n /\ n <= F!At(198, 19, 255))
          \/ (F!At(224, 0, 0) <= n /\ n <= F!At(255, 255, 255))
  BY DEF F!ReservedRanges
<1>5. /\ (F!At(0, 0, 0) <= n /\ n <= F!At(0, 255, 255)) <=> a = 0
      /\ (F!At(10, 0, 0) <= n /\ n <= F!At(10, 255, 255)) <=> a = 10
      /\ (F!At(127, 0, 0) <= n /\ n <= F!At(127, 255, 255)) <=> a = 127
      /\ (F!At(224, 0, 0) <= n /\ n <= F!At(255, 255, 255)) <=> a \in 224..255
  BY <1>3 DEF F!At
<1>6. /\ (F!At(100, 64, 0) <= n /\ n <= F!At(100, 127, 255)) <=> (a = 100 /\ b \in 64..127)
      /\ (F!At(169, 254, 0) <= n /\ n <= F!At(169, 254, 255)) <=> (a = 169 /\ b = 254)
      /\ (F!At(172, 16, 0) <= n /\ n <= F!At(172, 31, 255)) <=> (a = 172 /\ b \in 16..31)
  BY <1>3 DEF F!At
<1>7. /\ (F!At(192, 0, 0) <= n /\ n <= F!At(192, 0, 0)) <=> (a = 192 /\ b = 0 /\ c = 0)
      /\ (F!At(192, 168, 0) <= n /\ n <= F!At(192, 168, 255)) <=> (a = 192 /\ b = 168)
      /\ (F!At(198, 18, 0) <= n /\ n <= F!At(198, 19, 255)) <=> (a = 198 /\ b \in 18..19)
  BY <1>3 DEF F!At
<1>8. F!IsDeniedV4(ip) <=> \E r \in F!ReservedRanges : r[1] <= n /\ n <= r[2]
  BY <1>2, <1>4, <1>5, <1>6, <1>7
<1>9. \A form \in {"v4", "mapped"} : F!IsDeniedIp([form |-> form, v4 |-> ip]) = F!IsDeniedV4(ip)
  BY DEF F!IsDeniedIp
<1>11. F!IsDeniedV4(ip) \in BOOLEAN
  BY DEF F!IsDeniedV4
<1>12. F!DeniedAsReserved(ip)
  BY <1>3, <1>8, <1>9, <1>10, <1>11 DEF F!DeniedAsReserved
<1> QED
  BY <1>1, <1>12

\* An entry with a host is read, or refused.
LEMMA EntryRead ==
    ASSUME NEW e, e.host # ""
    PROVE  F!ParseEntry(e) \in {"host", "prefix", "ok"}
<1>1. CASE e.host = "bad"
  BY <1>1, Zenon DEF F!ParseEntry
<1>2. CASE e.host # "bad"
  <2>1. F!ParseEntry(e) = IF e.prefix # Absent /\ ~e.readable THEN "prefix" ELSE "ok"
    BY <1>2, Zenon DEF F!ParseEntry
  <2> QED
    BY <2>1, Zenon
<1> QED
  BY <1>1, <1>2, Zenon

\* A host listed under prefixes only is admitted under one of them only.
LEMMA AdmittedUnderPrefix ==
    ASSUME NEW entries, NEW e \in F!AllowlistOf(entries), NEW u, u.host = e.host, e.prefix # Absent,
           \A o, b \in F!AllowlistOf(entries) : ~(o.host = b.host /\ b.prefix = Absent /\ o.prefix # Absent),
           F!HostAdmitted(entries, u) = Absent
    PROVE  \E o \in {o \in entries : o.host = e.host} :
               o.prefix # Absent /\ F!PrefixAdmits(o.prefix, u.path)
<1>1. Absent # "host_not_allowed" /\ Absent # "path_not_allowed"
  BY LimitsAssumption DEF LimitsAreNumbers, Refusals
<1>2. PICK o \in F!AllowlistOf(entries) :
          o.host = u.host /\ (o.prefix = Absent \/ F!PrefixAdmits(o.prefix, u.path))
  BY <1>1 DEF F!HostAdmitted
<1>3. o.prefix # Absent
  BY <1>2
<1>4. o \in entries
  BY DEF F!AllowlistOf
<1> QED
  BY <1>2, <1>3, <1>4

\* An allowlist `try_new` takes is in force as it was written: every entry with a
\* host counts, and a host listed under prefixes is reached under one of them only.
THEOREM AllowlistsAreAsWritten ==
    ASSUME NEW entries, NEW paths
    PROVE  F!TakenAsWritten(entries, paths)
<1>1. SUFFICES ASSUME F!TryNew(entries) = "ok" PROVE F!TakenAsWritten(entries, paths)
  BY Zenon DEF F!TakenAsWritten
<1>2. \A e \in entries : F!ParseEntry(e) \in {"ok", "skipped"}
  BY <1>1 DEF F!TryNew
<1>3. \A o, b \in F!AllowlistOf(entries) : ~(o.host = b.host /\ b.prefix = Absent /\ o.prefix # Absent)
  BY <1>1 DEF F!TryNew
<1>4. ASSUME NEW e \in entries, e.host # "" PROVE e \in F!AllowlistOf(entries)
  <2>1. F!ParseEntry(e) \in {"host", "prefix", "ok"}
    BY <1>4, EntryRead, Zenon
  <2>2. F!ParseEntry(e) = "ok"
    BY <1>2, <2>1
  <2> QED
    BY <2>2 DEF F!AllowlistOf
<1>5. ASSUME NEW e \in entries, NEW path \in paths, e.host # "", e.prefix # Absent,
             F!HostAdmitted(entries, [host |-> e.host, path |-> path]) = Absent
      PROVE  \E o \in {o \in entries : o.host = e.host} :
                 o.prefix # Absent /\ F!PrefixAdmits(o.prefix, path)
  <2>1. PICK u : u = [host |-> e.host, path |-> path]
    OBVIOUS
  <2>2. u.host = e.host /\ u.path = path
    BY <2>1
  <2>3. F!HostAdmitted(entries, u) = Absent
    BY <1>5, <2>1, Zenon
  <2>4. e \in F!AllowlistOf(entries) /\ e.prefix # Absent
    BY <1>4, <1>5, Zenon
  <2>5. \E o \in {o \in entries : o.host = e.host} :
            o.prefix # Absent /\ F!PrefixAdmits(o.prefix, u.path)
    BY <1>3, <2>2, <2>3, <2>4, AdmittedUnderPrefix
  <2> QED
    BY <2>2, <2>5
<1> QED
  BY <1>4, <1>5, Zenon DEF F!TakenAsWritten
=============================================================================
