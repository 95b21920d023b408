--------------------------- MODULE SessionContract ---------------------------
(***************************************************************************)
(* What refresh tokens promise to a user: a session has at most one token  *)
(* that can refresh it, a token serves one session and one refresh, and a  *)
(* session that ended never comes back.  Requests, row locks and the       *)
(* tables are left out.  RefreshTokens implements this module.             *)
(***************************************************************************)
EXTENDS Naturals

CONSTANTS Sessions, Tokens

VARIABLES opened,  \* sessions ever opened
          bearer,  \* bearer[s]: the token that can refresh s, 0 if none
          spent    \* tokens that were given to some session

vars == <<opened, bearer, spent>>

Init == opened = {} /\ bearer = [s \in Sessions |-> 0] /\ spent = {}

\* A login; its token may have been revoked before the session was stored.
Open(s, n) ==
  /\ s \notin opened
  /\ n \notin spent
  /\ opened' = opened \union {s}
  /\ spent' = spent \union {n}
  /\ \E b \in {0, n} : bearer' = [bearer EXCEPT ![s] = b]

Refresh(s, n) ==
  /\ bearer[s] # 0
  /\ n \notin spent
  /\ bearer' = [bearer EXCEPT ![s] = n]
  /\ spent' = spent \union {n}
  /\ UNCHANGED opened

End(S) ==
  /\ bearer' = [s \in Sessions |-> IF s \in S THEN 0 ELSE bearer[s]]
  /\ UNCHANGED <<opened, spent>>

Next ==
  \/ \E s \in Sessions, n \in Tokens : Open(s, n) \/ Refresh(s, n)
  \/ \E S \in SUBSET Sessions : End(S)

Spec == Init /\ [][Next]_vars

=============================================================================
