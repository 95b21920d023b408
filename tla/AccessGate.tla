----------------------------- MODULE AccessGate ------------------------------
(***************************************************************************)
(* How a request passes api-gateway-node while auth-service ends sessions. *)
(* auth-service signs access tokens that nobody can take back and writes   *)
(* sessions and single tokens to a denylist in Redis; the gateway admits a *)
(* token that is not expired and not listed (authMiddleware), and for a    *)
(* sensitive write a step-up token whose id it can record as used          *)
(* (mfaStepUpMiddleware).  Every entry in Redis runs out by itself, so the *)
(* clock is part of the state, and all are lost when Redis starts again.   *)
(*                                                                         *)
(* A refresh token of an inactive session is not rotated, so it makes no   *)
(* difference here when the token itself is deleted: RefreshTokens has     *)
(* those statements.                                                       *)
(***************************************************************************)
EXTENDS Naturals, FiniteSets

CONSTANTS Sessions,   \* sessions of one user
          Refreshes,  \* requests that sign an access token: POST /refresh, and
                      \* logins, whose session counts as there from the start
          Logouts,    \* POST /logout requests
          Deletes,    \* DELETE /sessions/:id and DELETE /sessions requests
          Requests,   \* requests to the gateway
          NoOne,      \* no session, no token
          Second,     \* ticks of the clock in one second
          AccessTTL,  \* ACCESS_EXPIRY, in ticks
          DenyTTL,    \* EX of the denylist entries, in ticks
          StepExp,    \* when the step-up token expires
          MaxTime,    \* bound on the clock
          MaxRequests \* bound on requests to the two services

ASSUME GateAssumption ==
  /\ Second \in Nat \ {0} /\ MaxTime \in Nat /\ MaxRequests \in Nat
  /\ AccessTTL \in Nat /\ DenyTTL \in Nat /\ AccessTTL <= DenyTTL
  /\ StepExp \in Nat /\ StepExp % Second = 0
  /\ NoOne \notin Sessions \union Refreshes
  /\ Logouts \intersect Deletes = {}
  /\ Refreshes \intersect (Logouts \union Deletes \union Requests) = {}
  /\ Requests \intersect (Logouts \union Deletes) = {}

Enders == Logouts \union Deletes

VARIABLES
  now,      \* the clock
  redis,    \* Redis answers
  active,   \* sessions whose row says is_active
  deny,     \* deny[k]: when denylist:sid:k or denylist:jti:k runs out
  used,     \* when mfa_jti:<jti> of the step-up token runs out
  pc,       \* pc[p]: the next step of each request of either service
  sid,      \* sid[r]: the session refresh r works for
  exp,      \* exp[r]: exp of the access token r signed, 0 before
  todo,     \* todo[d]: keys d has still to list
  own,      \* own[d]: keys of the caller's token, which d may list as well
  bearer,   \* bearer[q]: the access token q carries, named by its signer
  ttl,      \* ttl[q]: the lifetime q asks for its mark in Redis
  wrote,    \* wrote[q]: when q was admitted as a sensitive write
  writers,  \* requests that wrote since Redis last lost its keys
  aimed,    \* aimed[d]: tokens signed so far of the sessions d is to list
  skipped,  \* requests of Deletes that found Redis closed
  revoked   \* tokens whose end was reported since Redis last lost its keys

sessions == <<active, sid, exp>>
redisKeys == <<deny, used>>
gate == <<bearer, ttl, wrote, writers>>
ending == <<todo, own, aimed, skipped, revoked>>
vars == <<now, redis, sessions, redisKeys, gate, ending, pc>>

\* A token is named by the refresh that signed it.
Keys == Sessions \union Refreshes

Signed == {r \in Refreshes : exp[r] > 0}

Init ==
  /\ now = 0 /\ redis = TRUE
  /\ active = Sessions
  /\ deny = [k \in Keys |-> 0] /\ used = 0
  /\ pc = [p \in Refreshes \union Enders \union Requests |-> "idle"]
  /\ sid = [r \in Refreshes |-> NoOne]
  /\ exp = [r \in Refreshes |-> 0]
  /\ todo = [d \in Enders |-> {}] /\ own = [d \in Enders |-> {}]
  /\ bearer = [q \in Requests |-> NoOne]
  /\ ttl = [q \in Requests |-> 0] /\ wrote = [q \in Requests |-> 0] /\ writers = {}
  /\ aimed = [d \in Enders |-> {}] /\ skipped = {} /\ revoked = {}

Goto(p, step) == pc' = [pc EXCEPT ![p] = step]

Idle(p) == pc[p] = "idle" /\ Cardinality({o \in DOMAIN pc : pc[o] # "idle"}) < MaxRequests

-----------------------------------------------------------------------------
\* auth-service

\* rotateRefreshToken, or issueLoginSession, commits for an active session ...
Rotate(r, s) ==
  /\ Idle(r) /\ s \in active
  /\ sid' = [sid EXCEPT ![r] = s]
  /\ Goto(r, "sign")
  /\ UNCHANGED <<now, redis, active, exp, redisKeys, gate, ending>>

\* expiresIn counts from iat, the second begun.
Expiry == (now - (now % Second)) + AccessTTL

\* ... and signAccessToken follows.
Sign(r) ==
  /\ pc[r] = "sign"
  /\ exp' = [exp EXCEPT ![r] = Expiry]
  /\ Goto(r, "done")
  /\ UNCHANGED <<now, redis, active, sid, redisKeys, gate, ending>>

\* d goes on to list the keys K, and is to end the tokens of the sessions in K.
Begin(d, K) ==
  /\ todo' = [todo EXCEPT ![d] = K]
  /\ aimed' = [aimed EXCEPT ![d] = {r \in Signed : sid[r] \in K}]
  /\ Goto(d, "list")

\* d ends, or is sent again; nothing of it is kept.
Finish(d, step) ==
  /\ todo' = [todo EXCEPT ![d] = {}] /\ own' = [own EXCEPT ![d] = {}]
  /\ aimed' = [aimed EXCEPT ![d] = {}] /\ skipped' = skipped \ {d}
  /\ Goto(d, step)

\* POST /logout: the refresh token in the cookie ends its session, or, replayed,
\* every session; there may be none, or an unknown one.
EndByCookie(d, S) ==
  /\ Idle(d) /\ d \in Logouts
  /\ active' = active \ S
  /\ Goto(d, "named")
  /\ UNCHANGED <<now, redis, sid, exp, redisKeys, gate, ending>>

\* The x-session-id, if there is one, ends its session; the session and the
\* bearer token with its sid are to be listed.  Nothing else is: the session of
\* the cookie may be another one, and a logout by cookie alone lists nothing.
EndByHeader(d, h, b) ==
  /\ pc[d] = "named"
  /\ active' = active \ {h}
  /\ Begin(d, ({h, b} \union {sid[r] : r \in {b} \intersect Refreshes}) \ {NoOne})
  /\ UNCHANGED <<now, redis, sid, exp, redisKeys, gate, own, skipped, revoked>>

\* DELETE /sessions/:id and DELETE /sessions: the UPDATE of the sessions S.
End(d, S, K) ==
  /\ Idle(d) /\ d \in Deletes
  /\ active' = active \ S
  /\ own' = [own EXCEPT ![d] = K]
  /\ Begin(d, S)
  /\ UNCHANGED <<now, redis, sid, exp, redisKeys, gate, skipped, revoked>>

\* Mutant of ListedUntil: the entry lasts as long as a step-up token.
ListedBriefly == now + DenyTTL - Second

\* EX 15 * 60.
ListedUntil == now + DenyTTL

\* One SET of denylist:sid:k or denylist:jti:k.  Inactive sessions keep their
\* hash, so DELETE /sessions finds each by the hash its UPDATE returned.
List(d, k) ==
  /\ pc[d] = "list" /\ k \in todo[d] /\ redis
  /\ deny' = [deny EXCEPT ![k] = ListedUntil]
  /\ todo' = [todo EXCEPT ![d] = @ \ {k}]
  /\ UNCHANGED <<now, redis, sessions, used, gate, own, aimed, skipped, revoked, pc>>

\* Redis is closed.  A logout is refused and may be tried again; a DELETE
\* leaves the entry out.
ListFails(d, k) ==
  /\ pc[d] = "list" /\ k \in todo[d] /\ ~redis
  /\ \/ d \in Logouts /\ Finish(d, "idle")
     \/ /\ d \in Deletes
        /\ todo' = [todo EXCEPT ![d] = @ \ {k}] /\ skipped' = skipped \union {d}
        /\ UNCHANGED <<own, aimed, pc>>
  /\ UNCHANGED <<now, redis, sessions, redisKeys, gate, revoked>>

\* A DELETE then lists its caller's token too, unless Redis is closed or a SET
\* fails, which it does not report.
ListOwn(d, k) ==
  /\ pc[d] = "list" /\ todo[d] = {} /\ k \in own[d] /\ redis
  /\ deny' = [deny EXCEPT ![k] = ListedUntil]
  /\ own' = [own EXCEPT ![d] = @ \ {k}]
  /\ UNCHANGED <<now, redis, sessions, used, gate, todo, aimed, skipped, revoked, pc>>

\* "Logged out successfully", "Session revoked", "Other sessions revoked".
Report(d) ==
  /\ pc[d] = "list" /\ todo[d] = {}
  /\ revoked' = IF d \in skipped THEN revoked ELSE revoked \union aimed[d]
  /\ Finish(d, "done")
  /\ UNCHANGED <<now, redis, sessions, redisKeys, gate>>

\* The process dies, or a statement or SET throws: 500, or no answer at all.
Fail(d) ==
  /\ pc[d] \in {"named", "list"}
  /\ Finish(d, "idle")
  /\ UNCHANGED <<now, redis, sessions, redisKeys, gate, revoked>>

-----------------------------------------------------------------------------
\* The gateway

\* authMiddleware: jwt.verify.
Arrive(q, r) ==
  /\ Idle(q)
  /\ r \in Signed /\ now < exp[r]
  /\ bearer' = [bearer EXCEPT ![q] = r]
  /\ Goto(q, "check")
  /\ UNCHANGED <<now, redis, sessions, redisKeys, ttl, wrote, writers, ending>>

Listed(k) == deny[k] > now

\* Mutant of Lifetime: rounded down.
LifetimeDown == ((StepExp - now) \div Second) * Second

\* Math.max(1, Math.ceil((expMs - Date.now()) / 1000)) seconds.
Lifetime == ((StepExp - now + Second - 1) \div Second) * Second

\* revokeCheck refuses when Redis is closed; what passes goes on to its service,
\* or, as a sensitive write, to the step-up token it carries.
Check(q) ==
  /\ pc[q] = "check"
  /\ bearer' = [bearer EXCEPT ![q] = NoOne]
  /\ IF ~redis \/ Listed(bearer[q]) \/ Listed(sid[bearer[q]])
     THEN Goto(q, "refused") /\ UNCHANGED ttl
     ELSE \/ Goto(q, "admitted") /\ UNCHANGED ttl
          \/ /\ now < StepExp
             /\ ttl' = [ttl EXCEPT ![q] = Lifetime]
             /\ Goto(q, "consume")
  /\ UNCHANGED <<now, redis, sessions, redisKeys, wrote, writers, ending>>

\* consumeMfaJti: SET mfa_jti:<jti> EX ttl NX, as Redis executes it.
Consume(q) ==
  /\ pc[q] = "consume"
  /\ ttl' = [ttl EXCEPT ![q] = 0]
  /\ IF ~redis \/ used > now THEN Goto(q, "refused") /\ UNCHANGED <<used, wrote, writers>>
     ELSE /\ used' = now + ttl[q]
          /\ wrote' = [wrote EXCEPT ![q] = now] /\ writers' = writers \union {q}
          /\ Goto(q, "written")
  /\ UNCHANGED <<now, redis, sessions, deny, bearer, ending>>

-----------------------------------------------------------------------------
\* Redis goes away or comes back.
Outage == redis' = ~redis /\ UNCHANGED <<now, sessions, redisKeys, gate, ending, pc>>

\* It comes back empty: it keeps nothing on disk.
LoseKeys ==
  /\ ~redis
  /\ deny' = [k \in Keys |-> 0] /\ used' = 0
  /\ aimed' = [d \in Enders |-> {}] /\ revoked' = {} /\ writers' = {}
  /\ UNCHANGED <<now, redis, sessions, bearer, ttl, wrote, todo, own, skipped, pc>>

Tick ==
  /\ now < MaxTime
  /\ now' = now + 1
  /\ UNCHANGED <<redis, sessions, redisKeys, gate, ending, pc>>

Logout(d) ==
  \/ \E S \in {{}, Sessions} \union {{s} : s \in Sessions} : EndByCookie(d, S)
  \/ \E h \in Sessions \union {NoOne}, b \in Signed \union {NoOne} : EndByHeader(d, h, b)

\* requireRole, then: one session, with the caller's token and session; or all,
\* or all but the one it is sent from, with the caller's token.
Delete(d) ==
  \E b \in {r \in Signed : now < exp[r]} :
    \/ \E s \in Sessions : End(d, {s}, {b, sid[b]})
    \/ \E S \in {Sessions} \union {Sessions \ {s} : s \in Sessions} : End(d, S, {b})

Next ==
  \/ \E r \in Refreshes : Sign(r) \/ \E s \in Sessions : Rotate(r, s)
  \/ \E d \in Logouts : Logout(d)
  \/ \E d \in Deletes : Delete(d)
  \/ \E d \in Enders :
       Report(d) \/ Fail(d) \/ \E k \in Keys : List(d, k) \/ ListFails(d, k) \/ ListOwn(d, k)
  \/ \E q \in Requests : Check(q) \/ Consume(q) \/ \E r \in Refreshes : Arrive(q, r)
  \/ Outage \/ LoseKeys \/ Tick

Spec == Init /\ [][Next]_vars

-----------------------------------------------------------------------------
TypeOK ==
  /\ now \in Nat /\ redis \in BOOLEAN /\ active \subseteq Sessions
  /\ deny \in [Keys -> Nat] /\ used \in Nat
  /\ pc \in [Refreshes \union Enders \union Requests ->
               {"idle", "sign", "named", "list", "check", "consume",
                "admitted", "written", "refused", "done"}]
  /\ sid \in [Refreshes -> Sessions \union {NoOne}] /\ exp \in [Refreshes -> Nat]
  /\ todo \in [Enders -> SUBSET Keys] /\ own \in [Enders -> SUBSET Keys]
  /\ aimed \in [Enders -> SUBSET Refreshes]
  /\ bearer \in [Requests -> Refreshes \union {NoOne}]
  /\ ttl \in [Requests -> Nat] /\ wrote \in [Requests -> Nat]
  /\ writers \subseteq Requests
  /\ skipped \subseteq Deletes /\ revoked \subseteq Refreshes

\* Once a logout or a DELETE has reported success, no request is let through
\* with a token that had been signed by then of a session it was to list,
\* whatever entries run out and however often Redis goes away, until Redis
\* starts again without its keys: at most a request whose token expired while
\* its entry was being looked up (authMiddleware, revokeCheck).  To list are the
\* sessions a DELETE ended, and of a logout the x-session-id and the sid of the
\* bearer token; a DELETE that found Redis closed is excepted, as the code does.
RevokedStaysOut ==
  [][\A q \in Requests :
       pc[q] = "check" /\ pc'[q] \in {"admitted", "consume"}
       => bearer[q] \notin revoked \/ exp[bearer[q]] <= now]_vars

\* A step-up token carries one write as long as Redis keeps its keys: of two,
\* one reached Redis after the token had expired and its mark with it
\* (consumeMfaJti).
StepUpOnce ==
  \A p, q \in writers : p # q => wrote[p] >= StepExp \/ wrote[q] >= StepExp

=============================================================================
