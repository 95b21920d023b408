---------------------------- MODULE RefreshTokens ----------------------------
(***************************************************************************)
(* Refresh-token rotation of auth-service over PostgreSQL: logins,         *)
(* refreshes, logouts, session revocations and password resets of one user *)
(* as concurrent requests.  A step is one SQL statement, the lock a        *)
(* many-row statement takes on one row, or the rest of a transaction once  *)
(* it holds its row locks.  Statements run at READ COMMITTED: a statement  *)
(* that must change a locked row waits, keeping the rows it has locked,    *)
(* and looks at the row again; a row inserted after it began is not seen.  *)
(* Tokens are numbered in the order they are minted.                       *)
(***************************************************************************)
EXTENDS Naturals, FiniteSets

CONSTANTS Logins,     \* login requests; each opens the session of its name
          Refreshes,  \* POST /refresh
          Logouts,    \* POST /logout
          Revokers,   \* DELETE /sessions/:id and DELETE /sessions
          Resets,     \* password resets
          MaxTokens,  \* bound on the tokens minted
          MaxExpired, \* bound on the tokens that expire
          MaxFails,   \* bound on the requests that fail
          MaxRequests \* bound on the requests that are made

Requests == Logins \union Refreshes \union Logouts \union Revokers \union Resets
Sessions == Logins
Tokens   == 1..MaxTokens
Nobody   == "nobody"

ASSUME RequestsAssumption ==
  /\ MaxTokens \in Nat /\ MaxExpired \in Nat /\ MaxFails \in Nat /\ MaxRequests \in Nat
  /\ Logins \intersect (Refreshes \union Logouts \union Revokers \union Resets) = {}
  /\ Refreshes \intersect (Logouts \union Revokers \union Resets) = {}
  /\ Logouts \intersect (Revokers \union Resets) = {}
  /\ Revokers \intersect Resets = {}
  /\ Nobody \notin Sessions
  /\ Sessions \intersect Tokens = {}

VARIABLES
  pc,        \* where each request is
  arg,       \* arg[r]: token r presented
  minted,    \* minted[r]: token r created, 0 if none
  snap,      \* snap[r]: rows the running statement of r has still to lock, or
             \*          token hashes a revoker has still to delete
  held,      \* held[r]: rows it has locked and not yet changed for good
  issued,    \* tokens minted so far
  live,      \* committed rows of refresh_tokens
  expired,   \* tokens past expires_at
  rotated,   \* rows of rotated_tokens
  aged,      \* tokens rotated more than an hour ago
  sessTok,   \* token_hash of each session row, 0 if there is no row
  active,    \* sessions with is_active = true
  fam,       \* fam[t]: the session t was minted for
  caught,    \* tokens whose replay was detected
  condemned  \* condemned[r]: session rows there were when r's revocation began

requestVars == <<pc, arg, minted, snap, held>>
tokenVars == <<issued, live, expired, rotated, aged>>
sessionVars == <<sessTok, active>>
history == <<fam, caught, condemned>>
vars == <<requestVars, tokenVars, sessionVars, history>>

Goto(r, l) == pc' = [pc EXCEPT ![r] = l]

Running == {"login", "claim", "session", "swap", "sweep", "end", "reuse",
            "mark", "marking", "purge", "purging", "drop"}
Ended == {"ok", "revoked", "revokedAll", "invalid", "done", "error"}

\* Another request may be made.
Room == Cardinality({r \in Requests : pc[r] # "idle"}) < MaxRequests

Rows == {s \in Sessions : sessTok[s] # 0}
Owner(t) == {s \in Rows : sessTok[s] = t}

\* Tokens some client has: the response left only when the request was done.
Given == {minted[r] : r \in {q \in Logins \union Refreshes : pc[q] = "ok"}}

(***************************************************************************)
(* Row locks, held until the transaction ends.                             *)
(***************************************************************************)
HoldsToken(r, t) ==
  \/ t \in held[r]
  \/ pc[r] \in {"session", "swap", "end"} /\ arg[r] = t

HoldsSession(r, s) ==
  \/ s \in held[r]
  \/ pc[r] = "swap" /\ sessTok[s] = arg[r]

\* Mutant of RowFree: the token is looked up first and deleted later.
LooksFirst(t) == TRUE

RowFree(t) == \A r \in Requests : ~ HoldsToken(r, t)

\* Mutant of SessionFree: the session is read without FOR UPDATE.
ReadsUnlocked(s) == TRUE

SessionFree(s) == \A r \in Requests : ~ HoldsSession(r, s)

Init ==
  /\ pc = [r \in Requests |-> "idle"]
  /\ arg = [r \in Requests |-> 0]
  /\ minted = [r \in Requests |-> 0]
  /\ snap = [r \in Requests |-> {}] /\ held = [r \in Requests |-> {}]
  /\ issued = 0 /\ live = {} /\ expired = {} /\ rotated = {} /\ aged = {}
  /\ sessTok = [s \in Sessions |-> 0] /\ active = {}
  /\ fam = [t \in Tokens |-> Nobody] /\ caught = {}
  /\ condemned = [r \in Requests |-> {}]

(***************************************************************************)
(* issueLoginSession: two statements, each committed on its own.           *)
(***************************************************************************)
LoginToken(r) ==
  /\ r \in Logins
  /\ pc[r] = "idle" /\ Room
  /\ issued < MaxTokens
  /\ issued' = issued + 1
  /\ live' = live \union {issued + 1}
  /\ minted' = [minted EXCEPT ![r] = issued + 1]
  /\ Goto(r, "login")
  /\ UNCHANGED <<arg, snap, held, expired, rotated, aged, sessionVars, history>>

LoginSession(r) ==
  /\ r \in Logins
  /\ pc[r] = "login"
  /\ sessTok' = [sessTok EXCEPT ![r] = minted[r]]
  /\ active' = active \union {r}
  /\ fam' = [fam EXCEPT ![minted[r]] = r]
  /\ Goto(r, "ok")
  /\ UNCHANGED <<arg, minted, snap, held, tokenVars, caught, condemned>>

(***************************************************************************)
(* rotateRefreshToken.                                                     *)
(***************************************************************************)
Present(r, t) ==
  /\ r \in Refreshes \union Logouts
  /\ pc[r] = "idle" /\ Room
  /\ t \in Given
  /\ arg' = [arg EXCEPT ![r] = t]
  /\ Goto(r, "claim")
  /\ UNCHANGED <<minted, snap, held, tokenVars, sessionVars, history>>

\* DELETE ... RETURNING inside the transaction: a claim, or zero rows.
Claim(r) ==
  /\ r \in Refreshes
  /\ pc[r] = "claim"
  /\ RowFree(arg[r])
  /\ Goto(r, IF arg[r] \in live \ expired THEN "session" ELSE "reuse")
  /\ UNCHANGED <<arg, minted, snap, held, tokenVars, sessionVars, history>>

\* Mutant of Refused: the session is not looked at.
NeverRefused(t) == FALSE

Refused(t) == ~ Owner(t) \subseteq active

\* Mutant of AfterRefusal: the transaction is left open.
KeepsTheClaim == "session"

AfterRefusal == "reuse"

\* SELECT ... FOR UPDATE; an inactive session rolls the claim back.
LockSession(r) ==
  /\ r \in Refreshes
  /\ pc[r] = "session"
  /\ \A s \in Owner(arg[r]) : SessionFree(s)
  /\ Goto(r, IF Refused(arg[r]) THEN AfterRefusal ELSE "swap")
  /\ UNCHANGED <<arg, minted, snap, held, tokenVars, sessionVars, history>>

Replaced(t) == {t}

\* Mutant of RotationRecord: the record is not part of the transaction.
NoRecord(t) == {}

RotationRecord(t) == {t}

\* The rest of the transaction: record, replacement, session row, COMMIT.
Swap(r) ==
  LET t == arg[r]
      n == issued + 1
  IN /\ r \in Refreshes
     /\ pc[r] = "swap"
     /\ issued < MaxTokens
     /\ issued' = n
     /\ live' = (live \ Replaced(t)) \union {n}
     /\ rotated' = rotated \union RotationRecord(t)
     /\ sessTok' = [s \in Sessions |-> IF s \in Owner(t) THEN n ELSE sessTok[s]]
     /\ minted' = [minted EXCEPT ![r] = n]
     /\ fam' = [fam EXCEPT ![n] = fam[t]]
     /\ Goto(r, "sweep")
     /\ UNCHANGED <<arg, snap, held, expired, aged, active, caught, condemned>>

\* Rotation records older than an hour go.
Sweep(r) ==
  /\ r \in Refreshes
  /\ pc[r] = "sweep"
  /\ rotated' = rotated \ aged
  /\ Goto(r, "ok")
  /\ UNCHANGED <<arg, minted, snap, held, issued, live, expired, aged, sessionVars, history>>

(***************************************************************************)
(* revokeRefreshTokenForLogout.                                            *)
(***************************************************************************)
LogoutClaim(r) ==
  /\ r \in Logouts
  /\ pc[r] = "claim"
  /\ RowFree(arg[r])
  /\ Goto(r, IF arg[r] \in live THEN "end" ELSE "reuse")
  /\ UNCHANGED <<arg, minted, snap, held, tokenVars, sessionVars, history>>

\* Mutant of EndedBy: the session row is forgotten.
EndsNothing(t) == {}

EndedBy(t) == Owner(t)

LogoutEnd(r) ==
  /\ r \in Logouts
  /\ pc[r] = "end"
  /\ \A s \in Owner(arg[r]) : SessionFree(s)
  /\ live' = live \ {arg[r]}
  /\ active' = active \ EndedBy(arg[r])
  /\ Goto(r, "revoked")
  /\ UNCHANGED <<arg, minted, snap, held, issued, expired, rotated, aged, sessTok, history>>

\* X-Session-Id: whatever became of the token, its session is deactivated too.
LeaveSession(r) ==
  /\ r \in Logouts
  /\ pc[r] \in {"revoked", "revokedAll", "invalid"}
  /\ fam[arg[r]] \in active /\ SessionFree(fam[arg[r]])
  /\ active' = active \ {fam[arg[r]]}
  /\ UNCHANGED <<requestVars, tokenVars, sessTok, history>>

(***************************************************************************)
(* revokeOnRotatedTokenReuse and revokeAllUserSessions: three statements,  *)
(* each committed on its own; the last two wait for locked rows.           *)
(***************************************************************************)
DetectReuse(r) ==
  /\ pc[r] = "reuse"
  /\ \/ /\ arg[r] \in rotated
        /\ rotated' = rotated \ {arg[r]}
        /\ caught' = caught \union {arg[r]}
        /\ condemned' = [condemned EXCEPT ![r] = Rows]
        /\ Goto(r, "mark")
     \/ /\ arg[r] \notin rotated
        /\ Goto(r, "invalid")
        /\ UNCHANGED <<rotated, caught, condemned>>
  /\ UNCHANGED <<arg, minted, snap, held, issued, live, expired, aged, sessionVars, fam>>

\* A password reset revokes too; the password itself is left out.
StartReset(r) ==
  /\ r \in Resets
  /\ pc[r] = "idle" /\ Room
  /\ condemned' = [condemned EXCEPT ![r] = Rows]
  /\ Goto(r, "mark")
  /\ UNCHANGED <<arg, minted, snap, held, tokenVars, sessionVars, fam, caught>>

BeginMark(r) ==
  /\ pc[r] = "mark"
  /\ snap' = [snap EXCEPT ![r] = Rows]
  /\ Goto(r, "marking")
  /\ UNCHANGED <<arg, minted, held, tokenVars, sessionVars, history>>

\* The UPDATE comes to a row, in no particular order, and locks it.
MarkRow(r, s) ==
  /\ pc[r] = "marking"
  /\ s \in snap[r]
  /\ SessionFree(s)
  /\ snap' = [snap EXCEPT ![r] = @ \ {s}]
  /\ held' = [held EXCEPT ![r] = @ \union {s}]
  /\ UNCHANGED <<pc, arg, minted, tokenVars, sessionVars, history>>

\* Mutant of KeptLocks: revokeAllUserSessions runs in one transaction.
KeepsUntilPurged(r) == IF r \in Revokers THEN {} ELSE held[r]

KeptLocks(r) == {}

\* It has all of them and commits; DELETE /sessions gets their token hashes.
EndMark(r) ==
  /\ pc[r] = "marking"
  /\ snap[r] = {}
  /\ active' = active \ held[r]
  /\ held' = [held EXCEPT ![r] = KeptLocks(r)]
  /\ \/ /\ r \in Revokers
        /\ snap' = [snap EXCEPT ![r] = {sessTok[s] : s \in held[r]}]
        /\ Goto(r, "drop")
     \/ /\ r \notin Revokers
        /\ Goto(r, "purge")
        /\ UNCHANGED snap
  /\ UNCHANGED <<arg, minted, tokenVars, sessTok, history>>

BeginPurge(r) ==
  /\ pc[r] = "purge"
  /\ snap' = [snap EXCEPT ![r] = live]
  /\ Goto(r, "purging")
  /\ UNCHANGED <<arg, minted, held, tokenVars, sessionVars, history>>

\* The DELETE comes to a row; one that is gone by now is passed over.
PurgeRow(r, t) ==
  /\ pc[r] = "purging"
  /\ t \in snap[r]
  /\ RowFree(t)
  /\ snap' = [snap EXCEPT ![r] = @ \ {t}]
  /\ held' = [held EXCEPT ![r] = @ \union ({t} \intersect live)]
  /\ UNCHANGED <<pc, arg, minted, tokenVars, sessionVars, history>>

EndPurge(r) ==
  /\ pc[r] = "purging"
  /\ snap[r] = {}
  /\ live' = live \ held[r]
  /\ held' = [held EXCEPT ![r] = {}]
  /\ Goto(r, "revokedAll")
  /\ UNCHANGED <<arg, minted, snap, issued, expired, rotated, aged, sessionVars, history>>

(***************************************************************************)
(* DELETE /sessions/:id and DELETE /sessions: deactivate one row, all rows *)
(* or all but one, then delete the tokens these rows had, one by one.      *)
(***************************************************************************)
\* Of no row there is nothing to do (404, or an empty loop).
StartRevoke(r, S) ==
  /\ r \in Revokers
  /\ pc[r] = "idle" /\ Room
  /\ S # {} /\ S \subseteq Rows
  /\ Cardinality(S) = 1 \/ Cardinality(Rows \ S) <= 1
  /\ snap' = [snap EXCEPT ![r] = S]
  /\ condemned' = [condemned EXCEPT ![r] = S]
  /\ Goto(r, "marking")
  /\ UNCHANGED <<arg, minted, held, tokenVars, sessionVars, fam, caught>>

DropToken(r, t) ==
  /\ pc[r] = "drop"
  /\ t \in snap[r]
  /\ RowFree(t)
  /\ live' = live \ {t}
  /\ rotated' = rotated \ {t}
  /\ snap' = [snap EXCEPT ![r] = @ \ {t}]
  /\ Goto(r, IF snap[r] = {t} THEN "done" ELSE "drop")
  /\ UNCHANGED <<arg, minted, held, issued, expired, aged, sessionVars, history>>

(***************************************************************************)
(* Time and failures.                                                      *)
(***************************************************************************)
Expire(t) ==
  /\ t \in live \ expired
  /\ Cardinality(expired) < MaxExpired
  /\ expired' = expired \union {t}
  /\ UNCHANGED <<requestVars, issued, live, rotated, aged, sessionVars, history>>

\* An hour is longer than any request.
HourPasses ==
  /\ \A r \in Requests : pc[r] \notin Running
  /\ ~ rotated \subseteq aged
  /\ aged' = aged \union rotated
  /\ UNCHANGED <<requestVars, issued, live, expired, rotated, sessionVars, history>>

\* A statement throws, PostgreSQL picks it out of a deadlock, or the process
\* dies: an open transaction rolls back, what was committed before stays.
Fail(r) ==
  /\ pc[r] \in Running
  /\ Cardinality({q \in Requests : pc[q] = "error"}) < MaxFails
  /\ snap' = [snap EXCEPT ![r] = {}]
  /\ held' = [held EXCEPT ![r] = {}]
  /\ Goto(r, "error")
  /\ UNCHANGED <<arg, minted, tokenVars, sessionVars, history>>

Work(r) ==
  \/ LoginSession(r)
  \/ Claim(r) \/ LockSession(r) \/ Swap(r) \/ Sweep(r)
  \/ LogoutClaim(r) \/ LogoutEnd(r)
  \/ DetectReuse(r) \/ BeginMark(r) \/ EndMark(r) \/ BeginPurge(r) \/ EndPurge(r)
  \/ \E s \in Sessions : MarkRow(r, s)
  \/ \E t \in Tokens : PurgeRow(r, t) \/ DropToken(r, t)

Next ==
  \/ \E r \in Requests :
        \/ LoginToken(r) \/ StartReset(r) \/ Work(r) \/ LeaveSession(r) \/ Fail(r)
        \/ \E t \in Tokens : Present(r, t)
        \/ \E S \in SUBSET Sessions : StartRevoke(r, S)
  \/ \E t \in Tokens : Expire(t)
  \/ HourPasses

Spec == Init /\ [][Next]_vars

-----------------------------------------------------------------------------
TypeOK ==
  /\ pc \in [Requests -> Running \union Ended \union {"idle"}]
  /\ arg \in [Requests -> 0..MaxTokens] /\ minted \in [Requests -> 0..MaxTokens]
  /\ snap \in [Requests -> SUBSET (Sessions \union Tokens)]
  /\ held \in [Requests -> SUBSET (Sessions \union Tokens)]
  /\ issued \in 0..MaxTokens
  /\ live \subseteq 1..issued /\ expired \subseteq 1..issued
  /\ rotated \subseteq 1..issued /\ live \intersect rotated = {}
  /\ aged \subseteq 1..issued
  /\ sessTok \in [Sessions -> 0..MaxTokens]
  /\ active \subseteq Rows
  /\ fam \in [Tokens -> Sessions \union {Nobody}]
  /\ caught \subseteq 1..issued
  /\ condemned \in [Requests -> SUBSET Sessions]

Dead(S) == \A s \in S : s \notin active /\ \A t \in live : fam[t] # s

\* A token buys one refresh: of the requests that present it at most one is
\* answered with a new token (rotateRefreshToken's claim).
SingleUse ==
  \A r, q \in Refreshes : minted[r] # 0 /\ minted[q] # 0 /\ arg[r] = arg[q] => r = q

\* A session never has two live refresh tokens, whatever rotations, failures
\* and revocations overlap.
OneLiveToken == \A t, u \in live : fam[t] = fam[u] /\ fam[t] # Nobody => t = u

\* When a detected replay, a password reset or a DELETE of sessions is
\* answered, every session it is about, or that was there when it began, is
\* inactive and has no refresh token left, also the token a racing refresh was
\* about to get (revokeAllUserSessions, DELETE /sessions;
\* test_refresh_rotation.js assertFamilyRevoked).
RevocationIsComplete ==
  \A r \in Requests : pc[r] \in {"revokedAll", "done"} => Dead(condemned[r])

\* A logout that reports success ends the session of its token, although a
\* refresh may have replaced the token meanwhile (revokeRefreshTokenForLogout).
LogoutEndsSession ==
  \A r \in Logouts : pc[r] \in {"revoked", "revokedAll"} => Dead({fam[arg[r]]})

\* The loser of a rotation is never told merely "invalid" while the
\* rotation goes unnoticed: it found the record, another replay did, or an
\* hour has passed (rotateRefreshToken).
LoserFindsRotation ==
  \A r, q \in Requests :
     /\ pc[r] = "invalid"
     /\ q \in Refreshes /\ minted[q] # 0 /\ arg[q] = arg[r]
     => arg[r] \in caught \union aged

\* A session that was revoked is never given another token.
RevokedStaysRevoked ==
  [][\A s \in Rows \ active : s \notin active' /\ sessTok'[s] = sessTok[s]]_vars

Contract == INSTANCE SessionContract
              WITH opened <- Rows,
                   bearer <- [s \in Sessions |->
                                IF s \in active /\ sessTok[s] \in live THEN sessTok[s] ELSE 0],
                   spent <- {t \in Tokens : fam[t] # Nobody}

\* The tables implement the contract of sessions.
ImplementsContract == Contract!Spec

\* Rows the running or next statement of r has still to lock.
NeedsTokens(r) ==
  {t \in {arg[r]} : pc[r] = "claim"}
    \union {t \in snap[r] : pc[r] \in {"purging", "drop"}}

NeedsSessions(r) ==
  {s \in Owner(arg[r]) : pc[r] \in {"session", "end"}}
    \union {s \in snap[r] : pc[r] = "marking"}

\* r may come to a row that q has locked.
WaitsFor(r, q) ==
  /\ r # q
  /\ \/ \E t \in NeedsTokens(r) : HoldsToken(q, t)
     \/ \E s \in NeedsSessions(r) : HoldsSession(q, s)

Waiting == {r \in Requests : \E q \in Requests : WaitsFor(r, q)}

Deadlocked(S) == S # {} /\ \A r \in S : \E q \in S : WaitsFor(r, q)

\* Two many-row statements of one kind that met in opposite orders.  PostgreSQL
\* detects it and fails one of them.
Knot(S) == Deadlocked(S) /\ \E l \in {"marking", "purging"} : \A r \in S : pc[r] = l

\* That is the only deadlock there can be: whichever requests wait for each
\* other in a circle, refreshes, logouts, logins and the deletes of single
\* tokens are not what closes it (rotateRefreshToken locks token, then session;
\* revokeAllUserSessions and DELETE /sessions keep no lock between statements).
OnlyKnots == \A S \in SUBSET Waiting : Deadlocked(S) => \E T \in SUBSET S : Knot(T)

Ready(r) ==
  /\ pc[r] \in Running
  /\ r \notin Waiting
  /\ pc[r] = "swap" => issued < MaxTokens

\* The bound on tokens never stops a request.
EnoughTokens ==
  IsFiniteSet(Logins \union Refreshes) /\ Cardinality(Logins \union Refreshes) <= MaxTokens

\* While requests are running some request waits for nobody, or there is a
\* knot, which PostgreSQL unties.
SomeoneReady ==
  EnoughTokens /\ (\E r \in Requests : pc[r] \in Running)
    => (\E r \in Requests : Ready(r)) \/ \E S \in SUBSET Waiting : Knot(S)

\* The requests never all wait for each other's row locks, although the
\* many-row statements lock row by row and keep what they have; and a request
\* that waits for nobody can take its next step without a failure.  Every
\* request takes finitely many, so each one ends.
NeverStuck ==
  /\ OnlyKnots
  /\ SomeoneReady
  /\ \A r \in Requests : Ready(r) => ENABLED <<Work(r)>>_vars

\* A replay that was detected revokes every session of the user, whatever
\* becomes of the request that detected it (comment on
\* revokeOnRotatedTokenReuse).
DetectedMeansRevoked ==
  \A r \in Refreshes \union Logouts :
     pc[r] \in Ended /\ arg[r] \in caught => Dead(condemned[r])

=============================================================================
