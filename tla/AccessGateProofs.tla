-------------------------- MODULE AccessGateProofs ---------------------------
(* What AccessGate guarantees for any number of sessions and requests, for *)
(* every resolution of the clock and every pair of lifetimes of which the  *)
(* denylist entry's is not the shorter.                                    *)
EXTENDS AccessGate, TLAPS

\* A lifetime rounded up to seconds is not shorter than what is left of the
\* step-up token (consumeMfaJti, Math.ceil).
LEMMA RoundedUp ==
  ASSUME now \in Nat, now < StepExp
  PROVE  Lifetime \in Nat /\ now + Lifetime >= StepExp
  BY GateAssumption DEF Lifetime

\* A token expires at most AccessTTL after it was signed (iat is rounded down).
LEMMA RoundedDown ==
  ASSUME now \in Nat
  PROVE  Expiry \in Nat /\ Expiry <= now + AccessTTL
  BY GateAssumption DEF Expiry

-----------------------------------------------------------------------------
\* A signed token belongs to a session, its signer is done, and it expires
\* no later than an entry written now would.
Tokens ==
  \A r \in Refreshes :
    /\ pc[r] # "idle" => sid[r] \in Sessions
    /\ exp[r] > 0 => pc[r] = "done"
    /\ exp[r] <= now + AccessTTL

\* What a running revocation is to end: each token is of a session that is
\* still to be listed, or is listed for longer than the token lives, unless
\* Redis was found closed, which a logout that runs has not.
Aims ==
  \A d \in Enders :
    pc[d] = "list" =>
      \A r \in aimed[d] : /\ exp[r] > 0
                          /\ \/ sid[r] \in todo[d] \/ d \in skipped
                             \/ exp[r] <= deny[sid[r]]

\* A token reported as ended is listed for as long as it lives.
Covered == \A r \in revoked : exp[r] > 0 /\ exp[r] <= deny[sid[r]]

\* A request in the gateway carries a token, and a mark it writes for its
\* step-up token outlives it; so did the mark of every write before.
Carried ==
  \A q \in Requests :
    /\ pc[q] = "check" => bearer[q] \in Refreshes
    /\ pc[q] = "consume" => now + ttl[q] >= StepExp
    /\ q \in writers => pc[q] = "written" /\ (wrote[q] >= StepExp \/ used >= StepExp)

IInv == TypeOK /\ Tokens /\ Aims /\ Covered /\ Carried /\ StepUpOnce

-----------------------------------------------------------------------------
\* The invariant holds before any request.
LEMMA Initially == Init => IInv
  BY GateAssumption
  DEF Init, IInv, TypeOK, Tokens, Aims, Covered, Carried, StepUpOnce, Enders

\* rotateRefreshToken touches nothing but its own request.
LEMMA RotateKeeps ==
  ASSUME IInv, NEW r \in Refreshes, NEW s \in Sessions, Rotate(r, s)
  PROVE  IInv'
<1> USE GateAssumption DEF IInv, Rotate, Idle, Goto, redisKeys, gate, ending, Enders
<1>1. TypeOK'
  BY DEF TypeOK
<1>2. Tokens'
  BY DEF TypeOK, Tokens
<1>3. Aims'
  BY DEF TypeOK, Tokens, Aims
<1>4. Covered'
  BY DEF TypeOK, Tokens, Covered
<1>5. Carried' /\ StepUpOnce'
  BY DEF TypeOK, Carried, StepUpOnce
<1> QED
  BY <1>1, <1>2, <1>3, <1>4, <1>5

\* signAccessToken adds a token that no revocation aims at.
LEMMA SignKeeps ==
  ASSUME IInv, NEW r \in Refreshes, Sign(r)
  PROVE  IInv'
<1> USE GateAssumption DEF IInv, Sign, Goto, redisKeys, gate, ending, Enders
<1>0. Expiry \in Nat /\ Expiry <= now + AccessTTL
  BY RoundedDown DEF TypeOK
<1>1. TypeOK'
  BY <1>0 DEF TypeOK
<1>2. Tokens'
  BY <1>0 DEF TypeOK, Tokens
<1>3. exp[r] = 0
  BY DEF TypeOK, Tokens
<1>4. Aims'
  BY <1>3 DEF TypeOK, Aims
<1>5. Covered'
  BY <1>3 DEF TypeOK, Covered
<1>6. Carried' /\ StepUpOnce'
  BY DEF TypeOK, Carried, StepUpOnce
<1> QED
  BY <1>1, <1>2, <1>4, <1>5, <1>6

\* The refresh token of a logout ends sessions, and nothing is listed yet.
LEMMA EndByCookieKeeps ==
  ASSUME IInv, NEW d \in Logouts, NEW S \in SUBSET Sessions, EndByCookie(d, S)
  PROVE  IInv'
<1> USE GateAssumption DEF IInv, EndByCookie, Idle, Goto, redisKeys, gate, ending, Enders
<1>1. TypeOK'
  BY DEF TypeOK
<1>2. Tokens'
  BY DEF TypeOK, Tokens
<1>3. Aims' /\ Covered'
  BY DEF TypeOK, Aims, Covered
<1>4. Carried' /\ StepUpOnce'
  BY DEF TypeOK, Carried, StepUpOnce
<1> QED
  BY <1>1, <1>2, <1>3, <1>4

\* Who sets out to list the keys K aims at no token of another session.
LEMMA BeginAims ==
  ASSUME IInv, NEW d \in Enders, NEW K \in SUBSET Keys, Begin(d, K),
         UNCHANGED <<sid, exp, deny, skipped>>
  PROVE  Aims'
<1> USE GateAssumption DEF IInv, Begin, Goto, Enders
<1> SUFFICES ASSUME NEW e \in Enders, pc'[e] = "list", NEW r \in aimed'[e]
             PROVE  /\ exp[r] > 0
                    /\ \/ sid[r] \in todo'[e] \/ e \in skipped
                       \/ exp[r] <= deny[sid[r]]
  BY DEF Aims
<1>1. CASE e = d
  BY <1>1 DEF TypeOK, Signed
<1>2. CASE e # d
  BY <1>2 DEF TypeOK, Aims
<1> QED
  BY <1>1, <1>2

\* The rest of a logout sets out to list the keys its headers name.
LEMMA EndByHeaderKeeps ==
  ASSUME IInv, NEW d \in Logouts, NEW h \in Sessions \union {NoOne},
         NEW b \in Signed \union {NoOne}, EndByHeader(d, h, b)
  PROVE  IInv'
<1> DEFINE K == ({h, b} \union {sid[r] : r \in {b} \intersect Refreshes}) \ {NoOne}
<1> USE GateAssumption DEF IInv, redisKeys, gate, Enders
<1>1. K \subseteq Keys
  BY DEF TypeOK, Keys, Signed
<1>2. Begin(d, K) /\ UNCHANGED <<now, redis, sid, exp, redisKeys, gate, own, skipped, revoked>>
      /\ pc[d] = "named" /\ active' = active \ {h}
  BY DEF EndByHeader
<1> HIDE DEF K
<1>3. TypeOK'
  BY <1>1, <1>2 DEF TypeOK, Begin, Goto, Signed
<1>4. Tokens'
  BY <1>2 DEF TypeOK, Tokens, Begin, Goto
<1>5. Aims'
  BY <1>1, <1>2, BeginAims
<1>6. Covered'
  BY <1>2 DEF TypeOK, Covered
<1>7. Carried' /\ StepUpOnce'
  BY <1>2 DEF TypeOK, Carried, StepUpOnce, Begin, Goto
<1> QED
  BY <1>3, <1>4, <1>5, <1>6, <1>7

\* A DELETE sets out to list the sessions its UPDATE ended.
LEMMA EndKeeps ==
  ASSUME IInv, NEW d \in Deletes, NEW S \in SUBSET Sessions, NEW K \in SUBSET Keys,
         End(d, S, K)
  PROVE  IInv'
<1> USE GateAssumption DEF IInv, End, Idle, redisKeys, gate, Enders
<1>1. TypeOK'
  BY DEF TypeOK, Begin, Goto, Signed, Keys
<1>2. Tokens'
  BY DEF TypeOK, Tokens, Begin, Goto
<1>3. Aims'
  BY BeginAims DEF Keys
<1>4. Covered'
  BY DEF TypeOK, Covered
<1>5. Carried' /\ StepUpOnce'
  BY DEF TypeOK, Carried, StepUpOnce, Begin, Goto
<1> QED
  BY <1>1, <1>2, <1>3, <1>4, <1>5

\* A denylist entry outlives every token signed before it was written.
LEMMA EntryKeeps ==
  ASSUME IInv, NEW k \in Keys, deny' = [deny EXCEPT ![k] = ListedUntil],
         UNCHANGED <<sid, exp, aimed, skipped, revoked, pc>>,
         \A e \in Enders : todo[e] \ {k} \subseteq todo'[e]
  PROVE  Aims' /\ Covered' /\ deny' \in [Keys -> Nat]
<1> USE GateAssumption DEF IInv, Enders, Keys
<1>0. /\ ListedUntil \in Nat
      /\ \A r \in Refreshes : exp[r] <= ListedUntil
  BY DEF TypeOK, Tokens, ListedUntil
<1>1. Aims'
  <2> SUFFICES ASSUME NEW e \in Enders, pc[e] = "list", NEW r \in aimed[e]
               PROVE  /\ exp[r] > 0
                      /\ \/ sid[r] \in todo'[e] \/ e \in skipped
                         \/ exp[r] <= deny'[sid[r]]
    BY DEF Aims
  <2>1. r \in Refreshes /\ exp[r] > 0 /\ sid[r] \in Sessions
    BY DEF TypeOK, Tokens, Aims
  <2>2. CASE sid[r] = k
    BY <1>0, <2>1, <2>2 DEF TypeOK
  <2>3. CASE sid[r] # k
    BY <2>1, <2>3 DEF TypeOK, Aims
  <2> QED
    BY <2>2, <2>3
<1>2. Covered'
  <2> SUFFICES ASSUME NEW r \in revoked
               PROVE  exp[r] > 0 /\ exp[r] <= deny'[sid[r]]
    BY DEF Covered
  <2>1. r \in Refreshes /\ exp[r] > 0 /\ sid[r] \in Sessions
    BY DEF TypeOK, Tokens, Covered
  <2>2. CASE sid[r] = k
    BY <1>0, <2>1, <2>2 DEF TypeOK
  <2>3. CASE sid[r] # k
    BY <2>1, <2>3 DEF TypeOK, Covered
  <2> QED
    BY <2>2, <2>3
<1> QED
  BY <1>0, <1>1, <1>2 DEF TypeOK

\* A revocation lists a key it was to list ...
LEMMA ListKeeps ==
  ASSUME IInv, NEW d \in Enders, NEW k \in Keys, List(d, k)
  PROVE  IInv'
<1> USE GateAssumption DEF IInv, List, sessions, gate, Enders
<1>1. Aims' /\ Covered' /\ deny' \in [Keys -> Nat]
  <2>1. \A e \in Enders : todo[e] \ {k} \subseteq todo'[e]
    BY DEF TypeOK
  <2> QED
    BY <2>1, EntryKeeps
<1>2. TypeOK'
  BY <1>1 DEF TypeOK
<1>3. Tokens'
  BY DEF TypeOK, Tokens
<1>4. Carried' /\ StepUpOnce'
  BY DEF TypeOK, Carried, StepUpOnce
<1> QED
  BY <1>1, <1>2, <1>3, <1>4

\* ... or, after those, its caller's own token.
LEMMA ListOwnKeeps ==
  ASSUME IInv, NEW d \in Enders, NEW k \in Keys, ListOwn(d, k)
  PROVE  IInv'
<1> USE GateAssumption DEF IInv, ListOwn, sessions, gate, Enders
<1>1. Aims' /\ Covered' /\ deny' \in [Keys -> Nat]
  BY EntryKeeps
<1>2. TypeOK'
  BY <1>1 DEF TypeOK
<1>3. Tokens'
  BY DEF TypeOK, Tokens
<1>4. Carried' /\ StepUpOnce'
  BY DEF TypeOK, Carried, StepUpOnce
<1> QED
  BY <1>1, <1>2, <1>3, <1>4

\* A revocation that finds Redis closed says so, or starts again.
LEMMA ListFailsKeeps ==
  ASSUME IInv, NEW d \in Enders, NEW k \in Keys, ListFails(d, k)
  PROVE  IInv'
<1> USE GateAssumption DEF IInv, ListFails, Finish, Goto, sessions, redisKeys, gate, Enders
<1>1. TypeOK'
  BY DEF TypeOK
<1>2. Tokens'
  BY DEF TypeOK, Tokens
<1>3. Aims'
  BY DEF TypeOK, Aims
<1>4. Covered'
  BY DEF TypeOK, Covered
<1>5. Carried' /\ StepUpOnce'
  BY DEF TypeOK, Carried, StepUpOnce
<1> QED
  BY <1>1, <1>2, <1>3, <1>4, <1>5

\* A reported revocation has listed every session it was to list.
LEMMA ReportKeeps ==
  ASSUME IInv, NEW d \in Enders, Report(d)
  PROVE  IInv'
<1> USE GateAssumption DEF IInv, Report, Finish, Goto, sessions, redisKeys, gate, Enders
<1>1. TypeOK'
  BY DEF TypeOK
<1>2. Tokens'
  BY DEF TypeOK, Tokens
<1>3. Aims'
  BY DEF TypeOK, Aims
<1>4. Covered'
  BY DEF TypeOK, Aims, Covered
<1>5. Carried' /\ StepUpOnce'
  BY DEF TypeOK, Carried, StepUpOnce
<1> QED
  BY <1>1, <1>2, <1>3, <1>4, <1>5

\* A revocation that breaks off reports nothing.
LEMMA FailKeeps ==
  ASSUME IInv, NEW d \in Enders, Fail(d)
  PROVE  IInv'
<1> USE GateAssumption DEF IInv, Fail, Finish, Goto, sessions, redisKeys, gate, Enders
<1>1. TypeOK'
  BY DEF TypeOK
<1>2. Tokens'
  BY DEF TypeOK, Tokens
<1>3. Aims'
  BY DEF TypeOK, Aims
<1>4. Covered'
  BY DEF TypeOK, Covered
<1>5. Carried' /\ StepUpOnce'
  BY DEF TypeOK, Carried, StepUpOnce
<1> QED
  BY <1>1, <1>2, <1>3, <1>4, <1>5

\* A request arrives with a signed token.
LEMMA ArriveKeeps ==
  ASSUME IInv, NEW q \in Requests, NEW r \in Refreshes, Arrive(q, r)
  PROVE  IInv'
<1> USE GateAssumption DEF IInv, Arrive, Idle, Goto, sessions, redisKeys, ending, Enders
<1>1. TypeOK'
  BY DEF TypeOK
<1>2. Tokens'
  BY DEF TypeOK, Tokens
<1>3. Aims' /\ Covered'
  BY DEF TypeOK, Aims, Covered
<1>4. Carried' /\ StepUpOnce'
  BY DEF TypeOK, Carried, StepUpOnce
<1> QED
  BY <1>1, <1>2, <1>3, <1>4

\* The mark a sensitive write asks for outlives the step-up token.
LEMMA CheckKeeps ==
  ASSUME IInv, NEW q \in Requests, Check(q)
  PROVE  IInv'
<1> USE GateAssumption DEF IInv, Check, Goto, sessions, redisKeys, ending, Enders
<1>0. now < StepExp => Lifetime \in Nat /\ now + Lifetime >= StepExp
  BY RoundedUp DEF TypeOK
<1>1. TypeOK'
  BY <1>0 DEF TypeOK
<1>2. Tokens'
  BY DEF TypeOK, Tokens
<1>3. Aims' /\ Covered'
  BY DEF TypeOK, Aims, Covered
<1>4. Carried'
  BY <1>0 DEF TypeOK, Carried
<1>5. StepUpOnce'
  BY DEF TypeOK, StepUpOnce
<1> QED
  BY <1>1, <1>2, <1>3, <1>4, <1>5

\* A second write of one step-up token finds its mark, or the token expired.
LEMMA ConsumeKeeps ==
  ASSUME IInv, NEW q \in Requests, Consume(q)
  PROVE  IInv'
<1> USE GateAssumption DEF IInv, Consume, Goto, sessions, ending, Enders
<1>1. TypeOK'
  BY DEF TypeOK
<1>2. Tokens'
  BY DEF TypeOK, Tokens
<1>3. Aims' /\ Covered'
  BY DEF TypeOK, Aims, Covered
<1>4. Carried'
  BY DEF TypeOK, Carried
<1>5. StepUpOnce'
  BY DEF TypeOK, Carried, StepUpOnce
<1> QED
  BY <1>1, <1>2, <1>3, <1>4, <1>5

\* Redis starts again without its keys, and nothing is claimed of what was
\* listed or marked before.
LEMMA LoseKeysKeeps ==
  ASSUME IInv, LoseKeys
  PROVE  IInv'
<1> USE GateAssumption DEF IInv, LoseKeys, sessions, Enders
<1>1. TypeOK'
  BY DEF TypeOK
<1>2. Tokens'
  BY DEF TypeOK, Tokens
<1>3. Aims' /\ Covered'
  BY DEF TypeOK, Aims, Covered
<1>4. Carried' /\ StepUpOnce'
  BY DEF TypeOK, Carried, StepUpOnce
<1> QED
  BY <1>1, <1>2, <1>3, <1>4

\* The clock, and Redis answering or not.
LEMMA TimeKeeps ==
  ASSUME IInv, Outage \/ Tick \/ UNCHANGED vars
  PROVE  IInv'
<1> USE GateAssumption
    DEF IInv, Outage, Tick, vars, sessions, redisKeys, gate, ending, Enders
<1>0. redis' \in BOOLEAN
  BY Zenon DEF TypeOK
<1>1. TypeOK'
  BY <1>0 DEF TypeOK
<1>2. Tokens'
  BY DEF TypeOK, Tokens
<1>3. Aims' /\ Covered'
  BY DEF TypeOK, Aims, Covered
<1>4. Carried' /\ StepUpOnce'
  BY DEF TypeOK, Carried, StepUpOnce
<1> QED
  BY <1>1, <1>2, <1>3, <1>4

\* IInv is an invariant.
THEOREM Invariance == Spec => []IInv
<1>1. IInv /\ [Next]_vars => IInv'
  <2> SUFFICES ASSUME IInv, [Next]_vars PROVE IInv'
    OBVIOUS
  <2>1. ASSUME NEW d \in Logouts, Logout(d) PROVE IInv'
    BY <2>1, EndByCookieKeeps, EndByHeaderKeeps DEF Logout
  <2>2. ASSUME NEW d \in Deletes, Delete(d) PROVE IInv'
    <3>1. PICK b \in Signed : \/ \E s \in Sessions : End(d, {s}, {b, sid[b]})
                             \/ \E S \in SUBSET Sessions : End(d, S, {b})
      BY <2>2 DEF Delete
    <3>2. {b} \subseteq Keys /\ {b, sid[b]} \subseteq Keys
      BY <3>1, GateAssumption DEF IInv, TypeOK, Tokens, Signed, Keys
    <3> QED
      BY <3>1, <3>2, EndKeeps
  <2> QED
    BY <2>1, <2>2, RotateKeeps, SignKeeps, ListKeeps, ListFailsKeeps, ListOwnKeeps, ReportKeeps,
       FailKeeps, ArriveKeeps, CheckKeeps, ConsumeKeeps, LoseKeysKeeps, TimeKeeps DEF Next
<1> QED
  BY <1>1, Initially, PTL DEF Spec

-----------------------------------------------------------------------------
\* The variables of both services stay well typed.
THEOREM TypeCorrect == Spec => []TypeOK
  BY Invariance, PTL DEF IInv

\* No two writes pass with one step-up token unless one of them reached Redis
\* after the token had expired, or Redis lost its keys in between, for every
\* resolution of the clock: the mark consumeMfaJti sets never runs out early.
THEOREM StepUpIsSingleUse == Spec => []StepUpOnce
  BY Invariance, PTL DEF IInv

\* A live token of a session that a logout or a DELETE was to list is not
\* admitted once that request has reported success with Redis open, for as long
\* as Redis keeps its keys: whichever statements of refreshes and of other
\* revocations come in between, and whenever the connection was lost.
THEOREM RevokedTokensStayOut == Spec => RevokedStaysOut
<1> DEFINE Stays ==
      \A q \in Requests :
        pc[q] = "check" /\ pc'[q] \in {"admitted", "consume"}
        => bearer[q] \notin revoked \/ exp[bearer[q]] <= now
<1>1. ASSUME IInv, [Next]_vars PROVE [Stays]_vars
  <2> SUFFICES ASSUME NEW q \in Requests, pc[q] = "check",
                      pc'[q] \in {"admitted", "consume"}, bearer[q] \in revoked
               PROVE  exp[bearer[q]] <= now
    OBVIOUS
  <2> USE <1>1, GateAssumption DEF IInv, TypeOK, Goto
  <2>1. Check(q)
    <3>1. q \notin Refreshes \union Enders /\ q \in DOMAIN pc
      BY DEF Enders
    <3>2. \A d \in Logouts : ~Logout(d)
      BY <3>1 DEF Logout, EndByCookie, EndByHeader, Begin, Enders
    <3>3. \A d \in Deletes : ~Delete(d)
      BY <3>1 DEF Delete, End, Begin, Enders
    <3>4. \A d \in Enders :
            /\ ~Report(d) /\ ~Fail(d)
            /\ \A k \in Keys : ~List(d, k) /\ ~ListFails(d, k) /\ ~ListOwn(d, k)
      BY <3>1 DEF Report, Fail, List, ListFails, ListOwn, Finish
    <3>5. \A r \in Refreshes : ~Sign(r) /\ \A s \in Sessions : ~Rotate(r, s)
      BY <3>1 DEF Rotate, Sign
    <3>6. \A p \in Requests : ~Consume(p) /\ \A r \in Refreshes : ~Arrive(p, r)
      BY <3>1 DEF Arrive, Idle, Consume
    <3>7. ~Outage /\ ~LoseKeys /\ ~Tick /\ ~UNCHANGED vars
      BY DEF Outage, LoseKeys, Tick, vars
    <3>8. \A p \in Requests : Check(p) => p = q
      BY DEF Check
    <3> QED
      BY <3>2, <3>3, <3>4, <3>5, <3>6, <3>7, <3>8 DEF Next
  <2>2. bearer[q] \in Refreshes /\ sid[bearer[q]] \in Keys
    BY DEF Tokens, Covered, Carried, Keys
  <2>3. deny[sid[bearer[q]]] <= now
    BY <2>1, <2>2 DEF Check, Listed
  <2> QED
    BY <2>2, <2>3 DEF Covered
<1> QED
  BY <1>1, Invariance, PTL DEF Spec, RevokedStaysOut

=============================================================================
