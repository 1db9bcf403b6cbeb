--------------------------- MODULE MCSessionStore ---------------------------
(* Instances of SessionStore for TLC. *)
EXTENDS SessionStore, TLC

CONSTANTS alice, bob, carol, s1, s2, s3, s4, r1, r2

\* Two sessions of one caller and one each of two others: with room for two
\* sessions in all and one a caller, each limit can be met without the other.
MCCallerOf == [s \in Sid |-> CASE s = s3 -> bob [] s = s4 -> carol [] OTHER -> alice]

\* The two others and their sessions, exchanged together.
OtherCallers == (bob :> carol) @@ (carol :> bob) @@ (s3 :> s4) @@ (s4 :> s3)

Symmetry == Permutations(Req) \cup Permutations({s1, s2}) \cup {OtherCallers}

\* last_seen is not read again of a session that is neither in the map nor on its
\* way there, until its id is minted again.
LastSeen == [s \in Sid |->
    IF s \in live \/ \E r \in Req : req[r] # NoReq /\ req[r].kind = "init" /\ req[r].sid = s
    THEN seen[s] ELSE 0]

WhatCounts == <<now, minted, live, ended, LastSeen, active, lastSweep, req>>
=============================================================================
