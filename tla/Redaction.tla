----------------------------- MODULE Redaction -----------------------------
(***************************************************************************)
(* What leaves the process about its requests: the secrets `secrets.rs`    *)
(* takes out of every log line and notification, and the payloads          *)
(* `mcp/observe` lets an observer see.                                     *)
(*                                                                         *)
(* A text is a sequence.  For secrets an element is a run of four          *)
(* characters, so that two of them make a value long enough to register;   *)
(* for a captured payload an element is a character, written as its width  *)
(* in bytes.  The shapes masked without being registered (bearer           *)
(* credentials, JWTs, URL passwords) are left out.                         *)
(***************************************************************************)
EXTENDS Integers, Sequences, SequencesExt

-----------------------------------------------------------------------------
(* Registered secrets. A variable is [segments, value]: its name split at  *)
(* the underscores, and what it holds.                                     *)

RunLen       == 4
MinSecretLen == 8
Mask         == "[REDACTED]"

SecretWords ==
    { <<"TOKEN">>, <<"SECRET">>, <<"PASSWORD">>, <<"API", "KEY">>, <<"KEY">>, <<"PAT">>,
      <<"CREDENTIALS">>, <<"DSN">> }

NonSecretQualifiers ==
    { "COUNT", "DAYS", "DIR", "ENABLED", "EXPIRY", "FILE", "HEADER", "HOURS", "ID", "LEN",
      "LENGTH", "LIFETIME", "LIMIT", "MAX", "MIN", "MINUTES", "MS", "NAME", "PATH", "PREFIX",
      "SECS", "SECONDS", "SIZE", "STEP", "TIMEOUT", "TTL", "URL" }

\* A credential word, with no qualifier anywhere after it.
IsSecretName(segments) ==
    \E word \in SecretWords : \E at \in 0..(Len(segments) - Len(word)) :
        /\ SubSeq(segments, at + 1, at + Len(word)) = word
        /\ \A i \in (at + Len(word) + 1)..Len(segments) : segments[i] \notin NonSecretQualifiers

Registrable(secrets, value) == RunLen * Len(value) >= MinSecretLen /\ ~Contains(secrets, value)

\* Mutant: the secrets are kept in the order they were registered.
RegisterUnsorted(secrets, value) ==
    IF Registrable(secrets, value) THEN Append(secrets, value) ELSE secrets

\* `register`: pushed, then sorted by length, the longest first.
Register(secrets, value) ==
    IF Registrable(secrets, value)
    THEN SelectSeq(secrets, LAMBDA s : Len(s) >= Len(value)) \o <<value>>
             \o SelectSeq(secrets, LAMBDA s : Len(s) < Len(value))
    ELSE secrets

RegisterEnv(env) ==
    FoldLeft(LAMBDA secrets, var : IF IsSecretName(var.segments)
                                   THEN Register(secrets, var.value) ELSE secrets, <<>>, env)

OccursAt(text, part, i) ==
    i + Len(part) - 1 <= Len(text) /\ SubSeq(text, i, i + Len(part) - 1) = part

Occurs(text, part) == \E i \in DOMAIN text : OccursAt(text, part, i)

\* `str::replace`: every occurrence from the left, none overlapping another.
Replace(text, secret) ==
    FoldLeft(LAMBDA done, i :
                IF i < done.next THEN done
                ELSE IF OccursAt(text, secret, i)
                THEN [out |-> Append(done.out, Mask), next |-> i + Len(secret)]
                ELSE [out |-> Append(done.out, text[i]), next |-> i + 1],
             [out |-> <<>>, next |-> 1], [i \in DOMAIN text |-> i]).out

\* `redact`, up to the token shapes: the secrets one after the other.
Redact(secrets, text) == FoldLeft(Replace, text, secrets)
-----------------------------------------------------------------------------
(* Captured payloads. A policy is [arguments, results, max_bytes]; what    *)
(* its redactor leaves of a payload is Withdrawn or a text.                *)

TruncationMarker == 14
Withdrawn        == <<-1>>

Size(text) == FoldLeft(LAMBDA sum, width : sum + width, 0, text)

\* The longest prefix that ends on a character and within the budget.
FloorCharBoundary(text, budget) ==
    LET fits == {n \in 0..Len(text) : Size(SubSeq(text, 1, n)) <= budget}
    IN  SubSeq(text, 1, CHOOSE n \in fits : \A k \in fits : k <= n)

Omitted(reason)     == [omitted |-> reason, text |-> <<>>, size |-> 0]
Captured(text, end) == [omitted |-> "no", text |-> text, size |-> Size(text) + end]

TruncateUtf8(text, max_bytes) ==
    IF Size(text) <= max_bytes THEN Captured(text, 0)
    ELSE IF max_bytes < TruncationMarker THEN Omitted("limit_too_small")
    ELSE Captured(FloorCharBoundary(text, max_bytes - TruncationMarker), TruncationMarker)

Capture(policy, redacted) ==
    IF redacted = Withdrawn THEN Omitted("redacted")
    ELSE TruncateUtf8(redacted, policy.max_bytes)

\* `OperationInfo::of`: what the observer sees of a call's arguments.
ArgumentsSeen(policy, method, redacted) ==
    IF policy.arguments /\ method = "tools/call" THEN Capture(policy, redacted)
    ELSE Omitted("not_asked")

\* `OperationOutcome::of`: the kind of outcome, and what is seen of the result.
ResultSeen(policy, method, answer, redacted) ==
    LET seen == IF policy.results THEN Capture(policy, redacted) ELSE Omitted("not_asked")
        none == Omitted("not_asked")
    IN  CASE answer = "nothing" -> [outcome |-> "notification_accepted", payload |-> none]
          [] answer = "error"   -> [outcome |-> "failed", payload |-> none]
          [] method # "tools/call" -> [outcome |-> "completed", payload |-> none]
          [] answer = "task"    -> [outcome |-> "task_created", payload |-> none]
          [] answer = "tool_error" -> [outcome |-> "tool_error", payload |-> seen]
          [] OTHER              -> [outcome |-> "completed", payload |-> seen]
=============================================================================
