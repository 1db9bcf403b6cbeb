----------------------------- MODULE NotifyLayer -----------------------------
(***************************************************************************)
(* `notify/layer.rs`: the tracing layer that routes `notify` events to     *)
(* Slack by rule.  Threads emit events at the same time; the dedup map and *)
(* the batch buffers are each behind a lock of their own, the provider may *)
(* reload a rule at any moment, and one task flushes the batches.          *)
(*                                                                         *)
(* The clock is unbounded: an instant is kept as the time since it, up to  *)
(* the age from which nothing tells it apart from an older one.            *)
(***************************************************************************)
EXTENDS Integers, Sequences, SequencesExt, FiniteSets

CONSTANTS
    Threads,     \* the threads that emit
    Events,      \* event names
    Keys,        \* the values of the fields a dedup rule joins
    Rules,       \* rules [channel, enabled, sample, dedup, batch] the provider serves
    NoRule,      \* the provider has no rule, and there is no default
    Captures,    \* the events the analytics provider captures
    Window,      \* the dedup window
    Interval,    \* the batch interval
    MaxStall,    \* how long a thread may stall between reading the clock and the lock
    MaxEmits     \* how many events are emitted

Ids    == 1..MaxEmits
MaxAge == Window + MaxStall
Free   == [pc |-> "idle"]

VARIABLES
    rules,      \* the rule served for each event, hot reloads included
    th,         \* what each thread is doing
    emits,      \* events emitted so far: the last one's id
    last,       \* the time since the dedup map's instant of a key
    first,      \* the event that set that instant (history)
    buffers,    \* the batch buffer of each event, or NoRule before its first line
    kept,       \* the events past sampling and dedup, to be sent (history)
    repeats,    \* the events dropped as repeats, each with the one it repeats
    captured,   \* the events handed to PostHog
    posted      \* the channels for which each event was handed to the Slack client

vars == <<rules, th, emits, last, first, buffers, kept, repeats, captured, posted>>
-----------------------------------------------------------------------------
(* Fields and how they are shown. A field map is a function; spans come    *)
(* innermost first.                                                        *)

\* What is on the right wins, as HashMap::insert does.
Over(under, fields) ==
    [k \in DOMAIN under \cup DOMAIN fields |->
        IF k \in DOMAIN fields THEN fields[k] ELSE under[k]]

\* on_event: outermost span first, the event's own fields over all of them.
Merged(scope, fields) ==
    Over(FoldLeft(Over, [k \in {} |-> 0], Reverse(scope)), fields)

\* on_new_span and on_record: a span's stash, an `event` field kept as any other.
Stash(stash, recorded) == Over(stash, recorded)

Denylist == {"uri", "method", "version", "host", "grant_type", "username", "route",
             "id", "x-request-id"}
Lifted   == {"message", "emoji"}
IdFields == {"tenant_id", "user_id", "conversation_id", "turn_id", "session_id"}

FieldPriority(k) == IF k = "user_email" THEN 10 ELSE IF k \in IdFields THEN 90 ELSE 50

Renderable(fields) == {k \in DOMAIN fields : k \notin Lifted \cup Denylist}

\* The digest line of an event: its fields, those of one priority together.
FormatLine(fields) ==
    [i \in 1..3 |-> {k \in Renderable(fields) : FieldPriority(k) = <<10, 50, 90>>[i]}]

\* The two blocks of an immediate post.
EventBlocks(fields) ==
    [section |-> {k \in Renderable(fields) : k \notin IdFields},
     context |-> {k \in Renderable(fields) : k \in IdFields}]

\* What a merge shows of a field: the event's own value, else the innermost span's.
MergesInnermost(scope, fields) ==
    LET m == Merged(scope, fields)
        holders(k) == {i \in DOMAIN scope : k \in DOMAIN scope[i]}
    IN  /\ DOMAIN m = DOMAIN fields \cup UNION {DOMAIN scope[i] : i \in DOMAIN scope}
        /\ \A k \in DOMAIN m : m[k] = IF k \in DOMAIN fields THEN fields[k]
                                      ELSE scope[Min(holders(k))][k]

\* The digest line and the blocks show the same fields, each of them once.
ShowsTheSame(fields) ==
    LET line == FormatLine(fields) blocks == EventBlocks(fields)
    IN  /\ line[1] \cup line[2] \cup line[3] = blocks.section \cup blocks.context
        /\ blocks.section \cap blocks.context = {}
        /\ line[3] = blocks.context
-----------------------------------------------------------------------------
Init ==
    /\ rules \in [Events -> Rules \cup {NoRule}]
    /\ th = [t \in Threads |-> Free]
    /\ emits = 0
    /\ last = [e \in Events |-> [k \in Keys |-> MaxAge]]
    /\ first = [e \in Events |-> [k \in Keys |-> 0]]
    /\ buffers = [e \in Events |-> NoRule]
    /\ kept = {} /\ repeats = {} /\ captured = {}
    /\ posted = [i \in Ids |-> <<>>]

\* What sampling may say: the counter's buckets fall either way.
SamplePasses(rule) ==
    CASE rule.sample = "all"  -> {TRUE}
      [] rule.sample = "none" -> {FALSE}
      [] rule.sample = "some" -> BOOLEAN

\* on_event up to the dedup lock: analytics, the rule, its switches, sampling,
\* and the clock read before the lock is asked for.
Emit(t, e, k) ==
    /\ th[t] = Free /\ emits < MaxEmits
    /\ emits' = emits + 1
    /\ captured' = IF e \in Captures THEN captured \cup {emits + 1} ELSE captured
    /\ LET rule == rules[e]
           next == [pc |-> IF rule.dedup THEN "dedup" ELSE "send", id |-> emits + 1,
                    event |-> e, key |-> k, rule |-> rule, stall |-> 0]
       IN  IF rule = NoRule THEN UNCHANGED <<th, kept>>
           ELSE IF ~rule.enabled THEN UNCHANGED <<th, kept>>
           ELSE \E pass \in SamplePasses(rule) :
                    /\ th' = IF pass THEN [th EXCEPT ![t] = next] ELSE th
                    /\ kept' = IF pass /\ ~rule.dedup THEN kept \cup {emits + 1} ELSE kept
    /\ UNCHANGED <<rules, last, first, buffers, repeats, posted>>

\* The time between the key's instant and the one read before the lock;
\* duration_since is zero for an instant that is later.
Since(c) == last[c.event][c.key] - c.stall

\* Mutant: the repeat is noted first and sampled afterwards.
DedupThenSample(t) ==
    /\ th[t].pc = "dedup"
    /\ LET c == th[t]
       IN  IF Since(c) < Window
           THEN /\ repeats' = repeats \cup {<<c.id, first[c.event][c.key]>>}
                /\ th' = [th EXCEPT ![t] = Free]
                /\ UNCHANGED <<last, first, kept>>
           ELSE /\ last'  = [last EXCEPT ![c.event][c.key] = c.stall]
                /\ first' = [first EXCEPT ![c.event][c.key] = c.id]
                /\ \/ th' = [th EXCEPT ![t].pc = "send"] /\ kept' = kept \cup {c.id}
                   \/ th' = [th EXCEPT ![t] = Free] /\ UNCHANGED kept
                /\ UNCHANGED repeats
    /\ UNCHANGED <<rules, emits, buffers, captured, posted>>

\* dedup_passes, under the dedup lock. A repeat does not move the instant.
Dedup(t) ==
    /\ th[t].pc = "dedup"
    /\ LET c == th[t]
       IN  IF Since(c) < Window
           THEN /\ repeats' = repeats \cup {<<c.id, first[c.event][c.key]>>}
                /\ th' = [th EXCEPT ![t] = Free]
                /\ UNCHANGED <<last, first, kept>>
           ELSE /\ last'  = [last EXCEPT ![c.event][c.key] = c.stall]
                /\ first' = [first EXCEPT ![c.event][c.key] = c.id]
                /\ th' = [th EXCEPT ![t].pc = "send"] /\ kept' = kept \cup {c.id}
                /\ UNCHANGED repeats
    /\ UNCHANGED <<rules, emits, buffers, captured, posted>>

\* enqueue_batch, under the buffers' lock, which no thread is taken to have poisoned:
\* the buffer keeps the channel of the
\* rule it was made for.
Enqueue(t) ==
    /\ th[t].pc = "send" /\ th[t].rule.batch
    /\ LET c == th[t]
           b == IF buffers[c.event] = NoRule
                THEN [channel |-> c.rule.channel, lines |-> <<>>] ELSE buffers[c.event]
       IN  buffers' = [buffers EXCEPT ![c.event] =
               [b EXCEPT !.lines = Append(@, [id |-> c.id, age |-> 0,
                                               channel |-> c.rule.channel])]]
    /\ th' = [th EXCEPT ![t] = Free]
    /\ UNCHANGED <<rules, emits, last, first, kept, repeats, captured, posted>>

\* The immediate path: one message, handed to the Slack client at once.
PostNow(t) ==
    /\ th[t].pc = "send" /\ ~th[t].rule.batch
    /\ posted' = [posted EXCEPT ![th[t].id] = Append(@, th[t].rule.channel)]
    /\ th' = [th EXCEPT ![t] = Free]
    /\ UNCHANGED <<rules, emits, last, first, buffers, kept, repeats, captured>>

Ripe(b) == b # NoRule /\ b.lines # <<>> /\ b.lines[1].age >= Interval

PostLines(ripe) ==
    posted' = [i \in Ids |->
        IF \E e \in ripe : \E n \in DOMAIN buffers[e].lines : buffers[e].lines[n].id = i
        THEN Append(posted[i],
                    buffers[CHOOSE e \in ripe : \E n \in DOMAIN buffers[e].lines :
                                buffers[e].lines[n].id = i].channel)
        ELSE posted[i]]

\* flush_ripe_batches, at a tick of the flusher: what is ripe is drained under
\* the lock and posted to the channel of its buffer, which stays.
Flush ==
    LET ripe == {e \in Events : Ripe(buffers[e])}
    IN  /\ ripe # {}
        /\ buffers' = [e \in Events |-> IF e \in ripe THEN [buffers[e] EXCEPT !.lines = <<>>]
                                        ELSE buffers[e]]
        /\ PostLines(ripe)
        /\ UNCHANGED <<rules, th, emits, last, first, kept, repeats, captured>>

\* The provider reloads the rule of an event.
Reload(e) ==
    /\ \E r \in (Rules \cup {NoRule}) \ {rules[e]} : rules' = [rules EXCEPT ![e] = r]
    /\ UNCHANGED <<th, emits, last, first, buffers, kept, repeats, captured, posted>>

Older(age, limit) == IF age = limit THEN age ELSE age + 1
OlderLine(line)   == [line EXCEPT !.age = Older(@, Interval)]

\* Time passes, unless a thread has stalled for as long as one may.
Tick ==
    /\ \A t \in Threads : th[t].pc = "dedup" => th[t].stall < MaxStall
    /\ th' = [t \in Threads |->
                IF th[t].pc = "dedup" THEN [th[t] EXCEPT !.stall = @ + 1] ELSE th[t]]
    /\ last' = [e \in Events |-> [k \in Keys |-> Older(last[e][k], MaxAge)]]
    /\ buffers' = [e \in Events |->
          IF buffers[e] = NoRule THEN NoRule
          ELSE [buffers[e] EXCEPT !.lines = [n \in DOMAIN @ |-> OlderLine(@[n])]]]
    /\ UNCHANGED <<rules, emits, first, kept, repeats, captured, posted>>

ThreadStep == \E t \in Threads : Dedup(t) \/ Enqueue(t) \/ PostNow(t)

Next ==
    \/ \E t \in Threads, e \in Events, k \in Keys : Emit(t, e, k)
    \/ ThreadStep
    \/ Flush \/ Tick
    \/ \E e \in Events : Reload(e)

Spec == Init /\ [][Next]_vars

-----------------------------------------------------------------------------
Queued(i) ==
    \E e \in Events : buffers[e] # NoRule
        /\ \E n \in DOMAIN buffers[e].lines : buffers[e].lines[n].id = i

InHand(i) == \E t \in Threads : th[t].pc = "send" /\ th[t].id = i

\* Types: ages stay within their caps, and what is posted was emitted.
TypeOK ==
    /\ rules \in [Events -> Rules \cup {NoRule}]
    /\ \A t \in Threads : th[t].pc \in {"idle", "dedup", "send"}
    /\ emits \in 0..MaxEmits
    /\ last \in [Events -> [Keys -> 0..MaxAge]]
    /\ first \in [Events -> [Keys -> 0..emits]]
    /\ \A e \in Events : buffers[e] = NoRule \/ \A n \in DOMAIN buffers[e].lines :
           buffers[e].lines[n].age \in 0..Interval
    /\ captured \subseteq 1..emits
    /\ \A i \in Ids : posted[i] # <<>> => i <= emits

\* An event dropped as a repeat repeats one that is in a thread's hand, in a buffer,
\* or was handed to the Slack client. Whether Slack then takes it is another matter:
\* post_message is fire-and-forget, and a post that fails silences the repeats too.
RepeatHasOriginal ==
    \A r \in repeats : InHand(r[2]) \/ Queued(r[2]) \/ posted[r[2]] # <<>>

\* An event to be sent is in one place: a thread's hand, a buffer, or with the Slack
\* client, to which it was handed once. Nothing else is handed to it.
PostedOnce ==
    \A i \in Ids :
        /\ Len(posted[i]) <= 1
        /\ (IF InHand(i) THEN 1 ELSE 0) + (IF Queued(i) THEN 1 ELSE 0) + Len(posted[i])
               = (IF i \in kept THEN 1 ELSE 0)

\* Some line waits for the flusher. Every such line is drained in the end, which
\* with PostedOnce is to say that the Slack client is handed it.
LinesWait == \E i \in Ids : Queued(i)
=============================================================================
