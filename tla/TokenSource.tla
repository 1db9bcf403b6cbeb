----------------------------- MODULE TokenSource -----------------------------
(***************************************************************************)
(* `iam/token_source.rs`: one identity token shared by every caller of a   *)
(* service.  The cache is behind a read-write lock that is not held while  *)
(* a token is fetched, so several callers may refresh it at the same time  *)
(* and finish in any order.                                                *)
(*                                                                         *)
(* Tokens are numbered in the order the metadata server minted them.  The  *)
(* clock is unbounded: an instant is kept as the time since it, capped.    *)
(***************************************************************************)
EXTENDS Integers

CONSTANTS
    Callers,       \* the calls that ask for a token
    RefreshAfter,  \* REFRESH_AFTER, in ticks
    Life,          \* how long a token is valid: at least RefreshAfter + MaxDelay
    MaxDelay,      \* the longest an answer of the metadata server may take, < RefreshAfter
    MaxMints       \* tokens minted

NoToken == 0
Tokens  == 1..MaxMints

VARIABLES
    minted,   \* tokens minted so far
    age,      \* the age of each token
    cached,   \* the cached token and the time since it was stored
    ask       \* each caller: what it is doing, and the token it holds

tokenVars == <<minted, age, cached, ask>>

TokenInit ==
    /\ minted = 0
    /\ age = [k \in Tokens |-> 0]
    /\ cached = [tok |-> NoToken, since |-> RefreshAfter]
    /\ ask = [c \in Callers |-> [pc |-> "idle", tok |-> NoToken]]

\* The cached entry may still be handed out.
Fresh == cached.tok # NoToken /\ cached.since < RefreshAfter

Got(c, tok) == ask' = [ask EXCEPT ![c] = [pc |-> "got", tok |-> tok]]

\* `token`, under the read lock.
Lookup(c) ==
    /\ ask[c].pc = "idle"
    /\ IF Fresh THEN Got(c, cached.tok)
       ELSE ask' = [ask EXCEPT ![c] = [pc |-> "fetching", tok |-> NoToken]]
    /\ UNCHANGED <<minted, age, cached>>

\* The metadata server mints a token for a fetch; its answer is on its way.
Mint(c) ==
    /\ ask[c].pc = "fetching" /\ minted < MaxMints
    /\ minted' = minted + 1
    /\ ask' = [ask EXCEPT ![c] = [pc |-> "minted", tok |-> minted + 1]]
    /\ UNCHANGED <<age, cached>>

\* No answer, a refusal, or a body that is not a token: the caller is told.
FetchFails(c) ==
    /\ ask[c].pc \in {"fetching", "minted"}
    /\ ask' = [ask EXCEPT ![c] = [pc |-> "failed", tok |-> NoToken]]
    /\ UNCHANGED <<minted, age, cached>>

\* Mutant: the fetched token is stored whatever the cache holds by then.
StoreBlind(c) ==
    /\ ask[c].pc = "minted"
    /\ cached' = [tok |-> ask[c].tok, since |-> 0] /\ Got(c, ask[c].tok)
    /\ UNCHANGED <<minted, age>>

\* The fetched token, under the write lock: whoever stored one meanwhile wins.
Store(c) ==
    /\ ask[c].pc = "minted"
    /\ IF Fresh THEN Got(c, cached.tok) /\ UNCHANGED cached
       ELSE cached' = [tok |-> ask[c].tok, since |-> 0] /\ Got(c, ask[c].tok)
    /\ UNCHANGED <<minted, age>>

\* A caller done with its token may ask for another.
AskAgain(c) ==
    /\ ask[c].pc \in {"got", "failed"}
    /\ ask' = [ask EXCEPT ![c] = [pc |-> "idle", tok |-> NoToken]]
    /\ UNCHANGED <<minted, age, cached>>

\* Time passes; an answer of the metadata server is not delayed further than it may.
TokenTick ==
    /\ \A c \in Callers : ask[c].pc = "minted" => age[ask[c].tok] < MaxDelay
    /\ age' = [k \in Tokens |-> IF k <= minted /\ age[k] < Life THEN age[k] + 1 ELSE age[k]]
    /\ cached' = [cached EXCEPT !.since = IF @ < RefreshAfter THEN @ + 1 ELSE @]
    /\ UNCHANGED <<minted, ask>>

TokenTypeOK ==
    /\ minted \in 0..MaxMints
    /\ age \in [Tokens -> 0..Life]
    /\ cached.tok \in 0..minted /\ cached.since \in 0..RefreshAfter
    /\ \A c \in Callers : /\ ask[c].pc \in {"idle", "fetching", "minted", "got", "failed"}
                          /\ ask[c].tok \in 0..minted

\* The cache only moves on to tokens minted later: a slow answer never puts an
\* older token back in the place of a newer one.
CacheNeverGoesBack == [][cached'.tok >= cached.tok]_tokenVars
=============================================================================
