------------------------------- MODULE SignIn --------------------------------
(***************************************************************************)
(* The ways into one account of auth-service: password logins with their   *)
(* lockout counter, the MFA challenge a login may end in and its           *)
(* validation, magic links, and the password resets that close what is     *)
(* open.  Every SQL statement and Redis command is a step; a request may   *)
(* end after any of them.                                                  *)
(***************************************************************************)
EXTENDS Naturals, FiniteSets

CONSTANTS Logins,       \* POST /login requests, repeated until one succeeds
          Validations,  \* POST /mfa/validate requests
          Verifies,     \* POST /auth/passwordless/verify requests
          Resets,       \* password resets, with a mailed token or by an administrator
          Nobody,       \* no login
          MaxFailed,    \* MAX_FAILED_ATTEMPTS
          MaxVersion    \* bound on the passwords the account ever has

ASSUME SignInAssumption ==
  /\ IsFiniteSet(Logins) /\ IsFiniteSet(Validations) /\ IsFiniteSet(Verifies)
  /\ MaxFailed \in Nat \ {0} /\ MaxVersion \in Nat \ {0}
  /\ Nobody \notin Logins
  /\ Logins \intersect (Validations \union Verifies \union Resets) = {}
  /\ Validations \intersect (Verifies \union Resets) = {}
  /\ Verifies \intersect Resets = {}

Clients == Logins \union Validations \union Verifies

VARIABLES
  attempts,   \* failed_attempts.attempts, 0 when there is no row
  lock,       \* locked_until: "none", in the future "live", or "past"
  active,     \* users.active
  version,    \* which password users.password is the hash of
  pc,         \* pc[c]: the next step of each request
  proved,     \* proved[l]: the password l was compared with and matched, or 0
  of,         \* of[v]: the login whose challenge v presents
  challenge,  \* challenge[l]: the Redis key mfa_challenge:<jti>
  link,       \* the magic link: "none", "sent" or "used" (or expired)
  ticket,     \* the reset token, likewise
  token,      \* token[c]: the refresh token of c is in refresh_tokens
  session,    \* session[c]: the row of c in sessions
  failures,   \* wrong passwords compared since failed_attempts was last
              \* cleared, less those that could not be recorded
  spanned,    \* sign-ins that were under way when a reset revoked the sessions
  halfway     \* a reset ended between the new password and the revocation

counter == <<attempts, lock, failures>>
account == <<active, version>>
grants == <<challenge, link, ticket>>
opened == <<token, session>>
input == <<proved, of>>
ghosts == <<spanned, halfway>>
vars == <<counter, account, grants, opened, input, pc, ghosts>>

Init ==
  /\ attempts = 0 /\ lock = "none" /\ failures = 0
  /\ active = TRUE /\ version = 1
  /\ pc = [c \in Clients \union Resets |-> "idle"]
  /\ proved = [l \in Logins |-> 0]
  /\ of = [v \in Validations |-> Nobody]
  /\ challenge = [l \in Logins |-> "none"]
  /\ link = "none" /\ ticket = "none"
  /\ token = [c \in Clients |-> FALSE]
  /\ session = [c \in Clients |-> "none"]
  /\ spanned = {} /\ halfway = FALSE

Goto(c, step) == pc' = [pc EXCEPT ![c] = step]

\* Mutant of NoRow: only the lock is taken off.
OnlyUnlocked == lock' = "none" /\ failures' = 0 /\ UNCHANGED attempts

\* DELETE FROM failed_attempts.
NoRow == attempts' = 0 /\ lock' = "none" /\ failures' = 0

-----------------------------------------------------------------------------
\* POST /login

\* isAccountLocked reads the row: a live lock ends the request; a past lock
\* or a row untouched for an hour is to be deleted.
Check(l) ==
  /\ pc[l] = "idle"
  /\ CASE lock = "live" -> Goto(l, "idle")
       [] lock = "past" -> Goto(l, "unlock")
       [] OTHER         -> Goto(l, "read") \/ (attempts > 0 /\ Goto(l, "unlock"))
  /\ UNCHANGED <<counter, account, grants, opened, input, ghosts>>

\* isAccountLocked deletes the row, whatever it holds by now.
Unlock(l) ==
  /\ pc[l] = "unlock"
  /\ NoRow
  /\ Goto(l, "read")
  /\ UNCHANGED <<account, grants, opened, input, ghosts>>

\* SELECT * FROM users, and bcrypt.compare with the hash it returned.
Read(l) ==
  /\ pc[l] = "read"
  /\ \/ ~active /\ Goto(l, "idle") /\ UNCHANGED <<proved, failures>>
     \/ /\ active /\ Goto(l, "clear")
        /\ proved' = [proved EXCEPT ![l] = version] /\ UNCHANGED failures
     \/ active /\ Goto(l, "record") /\ failures' = failures + 1 /\ UNCHANGED proved
  /\ UNCHANGED <<attempts, lock, account, grants, opened, of, ghosts>>

\* Mutant of Locks: off by one in the number of attempts.
LocksLate(n) == n > MaxFailed

Locks(n) == n >= MaxFailed

\* recordFailedAttempt: one upsert.
Record(l) ==
  /\ pc[l] = "record"
  /\ attempts' = attempts + 1
  /\ lock' = IF Locks(attempts + 1) THEN "live" ELSE lock
  /\ Goto(l, "idle")
  /\ UNCHANGED <<failures, account, grants, opened, input, ghosts>>

\* clearFailedAttempts, and the look at user_mfa, which may say either.
Clear(l) ==
  /\ pc[l] = "clear"
  /\ NoRow
  /\ Goto(l, "challenge") \/ Goto(l, "token")
  /\ UNCHANGED <<account, grants, opened, input, ghosts>>

\* storeMfaChallengeJti; if Redis refuses, so does the login.
Challenge(l) ==
  /\ pc[l] = "challenge"
  /\ \/ challenge' = [challenge EXCEPT ![l] = "stored"] /\ Goto(l, "done")
     \/ challenge' = challenge /\ Goto(l, "idle")
  /\ UNCHANGED <<counter, account, link, ticket, opened, input, ghosts>>

-----------------------------------------------------------------------------
\* POST /mfa/validate, in the login challenge flow

\* mfaChallengeJtiExists: GET.
Exists(v, l) ==
  /\ pc[v] = "idle"
  /\ challenge[l] # "none"
  /\ of' = [of EXCEPT ![v] = l]
  /\ Goto(v, IF challenge[l] = "stored" THEN "user" ELSE "idle")
  /\ UNCHANGED <<counter, account, grants, opened, proved, ghosts>>

\* The TOTP code or backup code is right or wrong.
Factor(v) ==
  /\ pc[v] = "factor"
  /\ Goto(v, "consume") \/ Goto(v, "idle")
  /\ UNCHANGED <<counter, account, grants, opened, input, ghosts>>

\* consumeMfaChallengeJti: DEL, whose count is not looked at.
Consume(v) ==
  /\ pc[v] = "consume"
  /\ challenge' = [challenge EXCEPT ![of[v]] = "gone"]
  /\ Goto(v, "token")
  /\ UNCHANGED <<counter, account, link, ticket, opened, input, ghosts>>

-----------------------------------------------------------------------------
\* Magic links

\* POST /auth/passwordless/request stores the hash of a new link.
SendLink ==
  /\ active /\ link = "none"
  /\ link' = "sent"
  /\ UNCHANGED <<counter, account, challenge, ticket, opened, input, pc, ghosts>>

\* Mutant of Redeemable: the guard of the UPDATE forgets used = false.
Known(grant) == grant # "none"

\* The WHERE clause of the UPDATE that consumes a link or a reset token.
Redeemable(grant) == grant = "sent"

\* UPDATE passwordless_tokens SET used = true ... RETURNING.
Redeem(m) ==
  /\ pc[m] = "idle" /\ Redeemable(link)
  /\ link' = "used"
  /\ Goto(m, "user")
  /\ UNCHANGED <<counter, account, challenge, ticket, opened, input, ghosts>>

\* SELECT * FROM users: a deactivated account goes no further.
User(c) ==
  /\ c \in Validations \union Verifies
  /\ pc[c] = "user"
  /\ Goto(c, IF ~active THEN "idle" ELSE IF c \in Validations THEN "factor" ELSE "token")
  /\ UNCHANGED <<counter, account, grants, opened, input, ghosts>>

-----------------------------------------------------------------------------
\* issueLoginSession, the end of every sign-in

IssueToken(c) ==
  /\ pc[c] = "token"
  /\ token' = [token EXCEPT ![c] = TRUE]
  /\ Goto(c, "session")
  /\ UNCHANGED <<counter, account, grants, session, input, ghosts>>

IssueSession(c) ==
  /\ pc[c] = "session"
  /\ session' = [session EXCEPT ![c] = "active"]
  /\ Goto(c, "done")
  /\ UNCHANGED <<counter, account, grants, token, input, ghosts>>

-----------------------------------------------------------------------------
\* Password resets

\* POST /auth/password/reset-request replaces the tokens of the user.
SendTicket ==
  /\ active /\ ticket = "none"
  /\ ticket' = "sent"
  /\ UNCHANGED <<counter, account, challenge, link, opened, input, pc, ghosts>>

\* POST /auth/password/reset: UPDATE password_reset_tokens SET used = true ...
Claim(r) ==
  /\ pc[r] = "idle" /\ Redeemable(ticket)
  /\ ticket' = "used"
  /\ Goto(r, "checks")
  /\ UNCHANGED <<counter, account, challenge, link, opened, input, ghosts>>

\* The user is active and the password meets policy and history, or not: the
\* token is used up either way.
Admit(r) ==
  /\ pc[r] = "checks"
  /\ \/ active /\ Goto(r, "set")
     \/ Goto(r, "done")
  /\ UNCHANGED <<counter, account, grants, opened, input, ghosts>>

\* POST /auth/admin/password-reset, which needs no token and no active user.
AdminStart(r) ==
  /\ pc[r] = "idle"
  /\ Goto(r, "set")
  /\ UNCHANGED <<counter, account, grants, opened, input, ghosts>>

\* setUserPassword.
SetPassword(r) ==
  /\ pc[r] = "set" /\ version < MaxVersion
  /\ version' = version + 1
  /\ Goto(r, "forget")
  /\ UNCHANGED <<counter, active, grants, opened, input, ghosts>>

\* Mutant of Forget: revokeAllUserSessions is not called.
ForgetAndRelease(r) ==
  /\ pc[r] = "forget"
  /\ ticket' = IF ticket = "sent" THEN "used" ELSE ticket
  /\ Goto(r, "release")
  /\ UNCHANGED <<counter, account, challenge, link, opened, input, ghosts>>

\* The reset tokens of the user are used up or deleted.
Forget(r) ==
  /\ pc[r] = "forget"
  /\ ticket' = IF ticket = "sent" THEN "used" ELSE ticket
  /\ Goto(r, "sessions")
  /\ UNCHANGED <<counter, account, challenge, link, opened, input, ghosts>>

\* Past the password check, and not yet at its session.
UnderWay(c) ==
  \/ c \in Logins /\ (pc[c] \in {"clear", "challenge", "token", "session"} \/ challenge[c] = "stored")
  \/ c \in Validations /\ pc[c] \notin {"idle", "done"}

\* revokeAllUserSessions: UPDATE sessions ...
RevokeSessions(r) ==
  /\ pc[r] = "sessions"
  /\ session' = [c \in Clients |-> IF session[c] = "active" THEN "inactive" ELSE session[c]]
  /\ spanned' = spanned \union {c \in Clients : UnderWay(c)}
  /\ Goto(r, "tokens")
  /\ UNCHANGED <<counter, account, grants, token, input, halfway>>

\* ... and DELETE FROM refresh_tokens.
RevokeTokens(r) ==
  /\ pc[r] = "tokens"
  /\ token' = [c \in Clients |-> FALSE]
  /\ Goto(r, "release")
  /\ UNCHANGED <<counter, account, grants, session, input, ghosts>>

\* clearFailedAttempts.
Release(r) ==
  /\ pc[r] = "release"
  /\ NoRow
  /\ Goto(r, "done")
  /\ UNCHANGED <<account, grants, opened, input, ghosts>>

-----------------------------------------------------------------------------
\* Anywhere

\* A statement fails or the process dies: what was committed stays.
Abort(c) ==
  /\ pc[c] \notin {"idle", "done"}
  /\ Goto(c, IF c \in Logins \union Validations /\ pc[c] # "session" THEN "idle" ELSE "done")
  /\ halfway' = (halfway \/ (c \in Resets /\ pc[c] \in {"forget", "sessions"}))
  /\ failures' = IF pc[c] = "record" /\ failures > 0 THEN failures - 1 ELSE failures
  /\ UNCHANGED <<attempts, lock, account, grants, opened, input, spanned>>

\* SCIM deactivates the account (DELETE, PATCH active) or activates it again.
Toggle ==
  /\ active' = ~active
  /\ UNCHANGED <<counter, version, grants, opened, input, pc, ghosts>>

\* Time passes: a lock runs out, a grant expires.
Expire ==
  /\ \/ lock = "live" /\ lock' = "past" /\ UNCHANGED grants
     \/ /\ UNCHANGED lock
        /\ \/ link = "sent" /\ link' = "used" /\ UNCHANGED <<challenge, ticket>>
           \/ ticket = "sent" /\ ticket' = "used" /\ UNCHANGED <<challenge, link>>
           \/ /\ \E l \in Logins : challenge[l] = "stored" /\ challenge' = [challenge EXCEPT ![l] = "gone"]
              /\ UNCHANGED <<link, ticket>>
  /\ UNCHANGED <<attempts, failures, account, opened, input, pc, ghosts>>

\* The sweep deletes a row whose lock ran out or that is an hour old.
Sweep ==
  /\ attempts > 0 /\ lock # "live"
  /\ NoRow
  /\ UNCHANGED <<account, grants, opened, input, pc, ghosts>>

Login(l) == Check(l) \/ Unlock(l) \/ Read(l) \/ Record(l) \/ Clear(l) \/ Challenge(l)
Validate(v) == (\E l \in Logins : Exists(v, l)) \/ Factor(v) \/ Consume(v)
Issue(c) == User(c) \/ IssueToken(c) \/ IssueSession(c)
Reset(r) ==
  \/ Claim(r) \/ Admit(r) \/ AdminStart(r) \/ SetPassword(r) \/ Forget(r)
  \/ RevokeSessions(r) \/ RevokeTokens(r) \/ Release(r)

Next ==
  \/ \E l \in Logins : Login(l)
  \/ \E v \in Validations : Validate(v)
  \/ \E m \in Verifies : Redeem(m)
  \/ \E c \in Clients : Issue(c)
  \/ \E r \in Resets : Reset(r)
  \/ \E c \in Clients \union Resets : Abort(c)
  \/ SendLink \/ SendTicket \/ Toggle \/ Expire \/ Sweep

Spec == Init /\ [][Next]_vars

-----------------------------------------------------------------------------
Steps == {"idle", "unlock", "read", "record", "clear", "challenge", "user", "factor",
          "consume", "token", "session", "checks", "set", "forget", "sessions", "tokens",
          "release", "done"}

TypeOK ==
  /\ attempts \in Nat /\ failures \in Nat /\ lock \in {"none", "live", "past"}
  /\ active \in BOOLEAN /\ version \in 1..MaxVersion
  /\ pc \in [Clients \union Resets -> Steps]
  /\ proved \in [Logins -> 0..MaxVersion]
  /\ of \in [Validations -> Logins \union {Nobody}]
  /\ challenge \in [Logins -> {"none", "stored", "gone"}]
  /\ link \in {"none", "sent", "used"} /\ ticket \in {"none", "sent", "used"}
  /\ token \in [Clients -> BOOLEAN]
  /\ session \in [Clients -> {"none", "active", "inactive"}]
  /\ spanned \subseteq Clients /\ halfway \in BOOLEAN

\* However many logins run at once, the wrong passwords compared between two
\* clearings of the counter are fewer than MAX_FAILED_ATTEMPTS plus one per
\* login that was past isAccountLocked when the lock was set.
AttemptsBounded == failures < MaxFailed + Cardinality(Logins)

\* The account is locked only after MAX_FAILED_ATTEMPTS wrong passwords, less
\* those of logins that were between bcrypt and recordFailedAttempt when the
\* counter was cleared.
LockEarned == lock # "none" => failures + Cardinality(Logins) >= MaxFailed

\* However often the form is submitted, a magic link opens one session (the
\* guarded UPDATE of /auth/passwordless/verify).
LinkOpensOnce ==
  \A m, n \in Verifies : session[m] # "none" /\ session[n] # "none" => m = n

\* The login whose password stands behind a session.
Via(c) == IF c \in Logins THEN c ELSE of[c]

\* A session that can be refreshed was opened with the current password,
\* unless its sign-in was under way when the reset revoked the sessions, or
\* a reset is still between the two or ended there (reset, issueLoginSession).
OldPasswordNeedsOverlap ==
  \A c \in Logins \union Validations :
    session[c] = "active" /\ token[c] /\ proved[Via(c)] # version
    => \/ {c, Via(c)} \intersect spanned # {} \/ halfway
       \/ \E r \in Resets : pc[r] \in {"forget", "sessions"}

\* "short-lived (5m), single-use challenge token that is only valid for
\* /mfa/validate" (index.js:2192): no two validations of one challenge open a
\* session.
ChallengeOpensOnce ==
  \A u, v \in Validations :
    of[u] = of[v] /\ session[u] # "none" /\ session[v] # "none" => u = v

=============================================================================
