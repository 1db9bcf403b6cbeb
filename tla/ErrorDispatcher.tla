--------------------------- MODULE ErrorDispatcher ---------------------------
(***************************************************************************)
(* The error digests of src/notifications/error_layer.rs: the tracing      *)
(* layer that queues ERROR events and the Dispatcher task that batches,    *)
(* deduplicates and rate-limits them.                                      *)
(*                                                                         *)
(* Time is kept as ages, which grow by one at a Tick and stop at Forever,  *)
(* beyond which the code's comparisons cannot tell two instants apart: the *)
(* clock itself is unbounded. An event is a model value with a dedup key;  *)
(* what a digest says of it is left out.                                   *)
(***************************************************************************)
EXTENDS Integers, Sequences, FiniteSets

CONSTANTS
    Event,        \* ERROR events, each logged at most once
    Key,          \* dedup keys: target and message prefix
    KeyOf,        \* ErrorEvent::dedup_key
    BatchWindow,  \* NotificationConfig::batch_window, in ticks
    DedupWindow,  \* NotificationConfig::dedup_window
    Minute,       \* the window of the rate limit
    MaxMessages   \* NotificationConfig::max_messages_per_minute

ASSUME DispatcherAssumption ==
    /\ KeyOf \in [Event -> Key]
    /\ BatchWindow \in Nat /\ DedupWindow \in Nat /\ Minute \in Nat /\ MaxMessages \in Nat

VARIABLES
    open,          \* the layer, with its sender, is alive
    queue,         \* the unbounded channel
    pc,            \* where Dispatcher::run is
    batch,         \* the events collected so far
    left,          \* time left to the deadline of the batch
    entries,       \* the keys of the digest being sent
    stamp,         \* the age of dispatch_batch's `now`
    lastNotified,  \* the age of each key's last notification
    recentSends,   \* recent_sends: the age of each send, under its digest's number
    fate,          \* what became of each event
    digests,       \* history: the digests sent, with the ages of their Slack posts
    mails          \* history: the age of each digest's e-mail, under the digest's number

vars == <<open, queue, pc, batch, left, entries, stamp, lastNotified, recentSends, fate,
          digests, mails>>

-----------------------------------------------------------------------------
Larger(m, n) == IF m > n THEN m ELSE n

Forever == Larger(DedupWindow, Minute)

Age == 0..Forever

Older(a) == IF a < Forever THEN a + 1 ELSE a

Fate == {"unlogged", "queued", "digest", "duplicate", "limited"}

Keys(S) == {KeyOf[e] : e \in S}

\* Instant::saturating_duration_since, a tick later.
LessTime(n) == IF n > 0 THEN n - 1 ELSE 0

\* Time passes, for every instant the dispatcher remembers.
Tick ==
    /\ left' = LessTime(left)
    /\ stamp' = Older(stamp)
    /\ lastNotified' = [k \in Key |-> Older(lastNotified[k])]
    /\ recentSends' = [n \in DOMAIN recentSends |-> Older(recentSends[n])]
    /\ digests' = [n \in DOMAIN digests |-> [digests[n] EXCEPT !.age = Older(@)]]
    /\ mails' = [n \in DOMAIN mails |-> Older(mails[n])]
    /\ UNCHANGED <<open, queue, pc, batch, entries, fate>>

-----------------------------------------------------------------------------
(* ErrorNotificationLayer.                                                 *)

\* on_event: queued without blocking.
OnEvent(e) ==
    /\ open
    /\ fate[e] = "unlogged"
    /\ fate' = [fate EXCEPT ![e] = "queued"]
    /\ queue' = Append(queue, e)
    /\ UNCHANGED <<open, pc, batch, left, entries, stamp, lastNotified, recentSends, digests, mails>>

\* The layer is dropped: the channel closes.
DropLayer ==
    /\ open
    /\ open' = FALSE
    /\ UNCHANGED <<queue, pc, batch, left, entries, stamp, lastNotified, recentSends, fate, digests, mails>>

-----------------------------------------------------------------------------
(* Dispatcher::run.                                                        *)

Receive ==
    /\ queue # <<>>
    /\ batch' = batch \cup {Head(queue)}
    /\ queue' = Tail(queue)

\* recv returns None: every sender is gone and nothing is queued.
Closed == ~open /\ queue = <<>>

\* The first event opens a batch.
First ==
    /\ pc = "idle"
    /\ Receive
    /\ left' = BatchWindow
    /\ pc' = "check"
    /\ UNCHANGED <<open, entries, stamp, lastNotified, recentSends, fate, digests, mails>>

\* The channel closed with no batch open: the loop ends.
ClosedIdle ==
    /\ pc = "idle"
    /\ Closed
    /\ pc' = "exited"
    /\ UNCHANGED <<open, queue, batch, left, entries, stamp, lastNotified, recentSends, fate, digests, mails>>

\* The top of the inner loop: is the window over?
CheckWindow ==
    /\ pc = "check"
    /\ pc' = IF left = 0 THEN "dispatch" ELSE "collect"
    /\ UNCHANGED <<open, queue, batch, left, entries, stamp, lastNotified, recentSends, fate, digests, mails>>

\* timeout(remaining, recv()) polls recv first.
Collect ==
    /\ pc = "collect"
    /\ Receive
    /\ pc' = "check"
    /\ UNCHANGED <<open, left, entries, stamp, lastNotified, recentSends, fate, digests, mails>>

\* Ok(None) => return.
ClosedInWindow ==
    /\ pc = "collect"
    /\ Closed
    /\ pc' = "exited"
    /\ batch' = {}
    /\ UNCHANGED <<open, queue, left, entries, stamp, lastNotified, recentSends, fate, digests, mails>>

WindowElapsed ==
    /\ pc = "collect"
    /\ left = 0
    /\ queue = <<>> /\ open
    /\ pc' = "dispatch"
    /\ UNCHANGED <<open, queue, batch, left, entries, stamp, lastNotified, recentSends, fate, digests, mails>>

-----------------------------------------------------------------------------
(* dispatch_batch, up to the await of the Slack post and after it. Where   *)
(* Slack is not configured the post takes no time.                         *)

\* Keys not notified within the dedup window.
Fresh == {k \in Keys(batch) : lastNotified[k] >= DedupWindow}

\* Bug: a send is forgotten a tick before it is a minute old.
RetainedEarly == {n \in DOMAIN recentSends : recentSends[n] + 1 < Minute}

\* prune_recent_sends: the sends it retains. The code only prunes, counts and
\* appends, so the places of the Vec do not matter.
Retained == {n \in DOMAIN recentSends : recentSends[n] < Minute}

Prune == recentSends' = [n \in Retained |-> recentSends[n]]

\* under_rate_limit, once pruned.
UnderRateLimit == Cardinality(Retained) < MaxMessages

\* What becomes of the batch's events: duplicates are filtered out, the rest
\* shares one fate.
Disposed(f) ==
    fate' = [e \in Event |-> IF e \notin batch THEN fate[e]
                             ELSE IF KeyOf[e] \in Fresh THEN f ELSE "duplicate"]

\* Bug: the task ends with a batch of nothing new.
AllDuplicatesEnds ==
    /\ pc = "dispatch"
    /\ Fresh = {}
    /\ Disposed("duplicate")
    /\ batch' = {}
    /\ pc' = "exited"
    /\ UNCHANGED <<open, queue, left, entries, stamp, lastNotified, recentSends, digests, mails>>

AllDuplicates ==
    /\ pc = "dispatch"
    /\ Fresh = {}
    /\ Disposed("duplicate")
    /\ batch' = {}
    /\ pc' = "idle"
    /\ UNCHANGED <<open, queue, left, entries, stamp, lastNotified, recentSends, digests, mails>>

\* Bug: a batch the rate limit dropped counts as notified.
RateLimitedNoted ==
    /\ pc = "dispatch"
    /\ Fresh # {}
    /\ ~UnderRateLimit
    /\ Disposed("limited")
    /\ Prune
    /\ lastNotified' = [k \in Key |-> IF k \in Fresh THEN 0 ELSE lastNotified[k]]
    /\ batch' = {}
    /\ pc' = "idle"
    /\ UNCHANGED <<open, queue, left, entries, stamp, digests, mails>>

\* The rate limit is reached: the batch is dropped, with a warning.
RateLimited ==
    /\ pc = "dispatch"
    /\ Fresh # {}
    /\ ~UnderRateLimit
    /\ Disposed("limited")
    /\ Prune
    /\ batch' = {}
    /\ pc' = "idle"
    /\ UNCHANGED <<open, queue, left, entries, stamp, lastNotified, digests, mails>>

\* The digest goes out to Slack; the post is awaited.
SendDigest ==
    /\ pc = "dispatch"
    /\ Fresh # {}
    /\ UnderRateLimit
    /\ Disposed("digest")
    /\ Prune
    /\ entries' = Fresh
    /\ stamp' = 0
    /\ digests' = Append(digests, [age |-> 0, keys |-> Fresh])
    /\ batch' = {}
    /\ pc' = "sending"
    /\ UNCHANGED <<open, queue, left, lastNotified, mails>>

\* The numbered ages with one more, of this digest.
Noted(ages, age) ==
    [n \in DOMAIN ages \cup {Len(digests)} |-> IF n = Len(digests) THEN age ELSE ages[n]]

\* The post returned, delivered or not: the e-mail is handed to its client, and the
\* bookkeeping is done with the instant taken before the post.
Bookkeep ==
    /\ pc = "sending"
    /\ mails' = Noted(mails, 0)
    /\ lastNotified' = [k \in Key |-> IF k \in entries THEN stamp ELSE lastNotified[k]]
    /\ recentSends' = Noted(recentSends, stamp)
    /\ entries' = {}
    /\ pc' = "idle"
    /\ UNCHANGED <<open, queue, batch, left, stamp, fate, digests>>

-----------------------------------------------------------------------------
Init ==
    /\ open = TRUE
    /\ queue = <<>>
    /\ pc = "idle"
    /\ batch = {}
    /\ left = 0
    /\ entries = {}
    /\ stamp = Forever
    /\ lastNotified = [k \in Key |-> Forever]
    /\ recentSends = [n \in {} |-> Forever]
    /\ fate = [e \in Event |-> "unlogged"]
    /\ digests = <<>>
    /\ mails = [n \in {} |-> Forever]

Dispatch ==
    \/ First \/ ClosedIdle \/ CheckWindow \/ Collect \/ ClosedInWindow \/ WindowElapsed
    \/ AllDuplicates \/ RateLimited \/ SendDigest

Next ==
    \/ Tick
    \/ \E e \in Event : OnEvent(e)
    \/ DropLayer
    \/ Dispatch
    \/ Bookkeep

Spec == Init /\ [][Next]_vars

\* The clock runs and the spawned task is polled. Nothing bounds the Slack
\* post, so no fairness makes it return.
FairSpec == Spec /\ WF_vars(Tick) /\ WF_vars(Dispatch)

-----------------------------------------------------------------------------
(* Properties.                                                             *)

TypeOK ==
    /\ open \in BOOLEAN
    /\ queue \in Seq(Event)
    /\ pc \in {"idle", "check", "collect", "dispatch", "sending", "exited"}
    /\ batch \in SUBSET Event
    /\ left \in 0..BatchWindow
    /\ entries \in SUBSET Key
    /\ stamp \in Age
    /\ lastNotified \in [Key -> Age]
    /\ recentSends \in [DOMAIN recentSends -> Age] /\ DOMAIN recentSends \subseteq DOMAIN digests
    /\ fate \in [Event -> Fate]
    /\ digests \in Seq([age : Age, keys : SUBSET Key])
    /\ mails \in [DOMAIN mails -> Age] /\ DOMAIN mails \subseteq DOMAIN digests

\* prune_recent_sends and under_rate_limit: whatever the Slack posts take and however
\* the batches fall, no minute sees more Slack posts start than the limit. The e-mail of
\* a digest waits for its post and is booked under the instant before it, so e-mails
\* come closer: one above the limit in a minute, and no more. And every variable keeps
\* its type.
WithinRateLimit ==
    /\ TypeOK
    /\ Cardinality({n \in DOMAIN digests : digests[n].age < Minute}) <= MaxMessages
    /\ Cardinality({n \in DOMAIN mails : mails[n] < Minute}) <= MaxMessages + 1

\* last_notified: a key that a digest carried is in no other digest within the
\* dedup window, and an event is suppressed as a duplicate only of one a digest
\* carried: within the window, or in the same batch. A batch the rate limit
\* dropped suppresses nothing.
DedupIsExact ==
    [][/\ \A n \in DOMAIN digests' \ DOMAIN digests, m \in DOMAIN digests :
             digests'[n].keys \cap digests[m].keys # {} => digests[m].age >= DedupWindow
       /\ \A e \in Event :
             fate[e] # "duplicate" /\ fate'[e] = "duplicate" =>
                 \E n \in DOMAIN digests :
                     KeyOf[e] \in digests[n].keys /\ digests[n].age < DedupWindow]_vars

\* Dispatcher::run: while the layer lives and unless a post hangs, every event
\* queued is digested, recognised as a duplicate or dropped by the rate limit.
EveryEventHasItsFate ==
    []<>(pc # "sending") =>
        \A e \in Event : fate[e] = "queued" ~> (fate[e] # "queued" \/ ~open)

\* The comment on ErrorNotificationLayer::new: "When the layer is dropped, the
\* channel closes and the dispatcher flushes remaining events before exiting."
FlushedBeforeExit ==
    pc = "exited" => \A e \in Event : fate[e] # "queued"
=============================================================================
