---------------------------- MODULE SignInProofs -----------------------------
(* What SignIn guarantees for any number of logins, validations, magic-link *)
(* uses and resets, and for every MAX_FAILED_ATTEMPTS.                      *)
EXTENDS SignIn, FiniteSetTheorems, TLAPS

\* The logins that f has at a step.
At(f, step) == {l \in Logins : f[l] = step}

-----------------------------------------------------------------------------
\* A login is at one step at a time.
LEMMA AtSizes ==
  ASSUME NEW f
  PROVE  /\ Cardinality(Logins) \in Nat
         /\ Cardinality(At(f, "read")) \in Nat /\ Cardinality(At(f, "record")) \in Nat
         /\ Cardinality(At(f, "read")) + Cardinality(At(f, "record")) <= Cardinality(Logins)
<1>1. IsFiniteSet(Logins) /\ IsFiniteSet(Logins \ At(f, "record"))
  BY SignInAssumption, FS_Subset
<1>2. IsFiniteSet(At(f, "read")) /\ IsFiniteSet(At(f, "record"))
  BY <1>1, FS_Subset DEF At
<1>3. /\ Cardinality(Logins) \in Nat /\ Cardinality(Logins \ At(f, "record")) \in Nat
      /\ Cardinality(At(f, "read")) \in Nat /\ Cardinality(At(f, "record")) \in Nat
  BY <1>1, <1>2, FS_CardinalityType
<1>4. Logins \intersect At(f, "record") = At(f, "record")
  BY DEF At
<1>5. Cardinality(Logins \ At(f, "record")) = Cardinality(Logins) - Cardinality(At(f, "record"))
  BY <1>1, <1>4, FS_Difference
<1>6. At(f, "read") \subseteq Logins \ At(f, "record")
  BY DEF At
<1>7. Cardinality(At(f, "read")) <= Cardinality(Logins \ At(f, "record"))
  BY <1>1, <1>6, FS_Subset
<1> QED
  BY <1>3, <1>5, <1>7

\* A request that goes on makes one more login at a step, or one less, or
\* none.
LEMMA Moves ==
  ASSUME TypeOK, NEW r \in Clients \union Resets, NEW to, Goto(r, to), NEW step
  PROVE  /\ pc'[r] = to
         /\ r \notin Logins \/ (pc[r] = step <=> to = step) => At(pc', step) = At(pc, step)
         /\ r \in Logins /\ pc[r] = step /\ to # step
            => Cardinality(At(pc', step)) = Cardinality(At(pc, step)) - 1
         /\ r \in Logins /\ pc[r] # step /\ to = step
            => Cardinality(At(pc', step)) = Cardinality(At(pc, step)) + 1
<1>1. IsFiniteSet(At(pc, step))
  BY SignInAssumption, FS_Subset DEF At
<1>2. pc'[r] = to /\ \A k \in Logins \ {r} : pc'[k] = pc[k]
  BY DEF TypeOK, Goto, Clients
<1>3. r \notin Logins \/ (pc[r] = step <=> to = step) => At(pc', step) = At(pc, step)
  BY <1>2 DEF At
<1>4. ASSUME r \in Logins, pc[r] = step, to # step
      PROVE  Cardinality(At(pc', step)) = Cardinality(At(pc, step)) - 1
  <2>1. At(pc', step) = At(pc, step) \ {r} /\ r \in At(pc, step)
    BY <1>2, <1>4 DEF At
  <2> QED
    BY <1>1, <2>1, FS_RemoveElement
<1>5. ASSUME r \in Logins, pc[r] # step, to = step
      PROVE  Cardinality(At(pc', step)) = Cardinality(At(pc, step)) + 1
  <2>1. At(pc', step) = At(pc, step) \union {r} /\ r \notin At(pc, step)
    BY <1>2, <1>5 DEF At
  <2> QED
    BY <1>1, <2>1, FS_AddElement
<1> QED
  BY <1>2, <1>3, <1>4, <1>5

-----------------------------------------------------------------------------
\* Each kind of request has its own steps, a session is its last,
\* and a validation has the login of a challenge.
Kinds ==
  /\ \A l \in Logins : pc[l] \in {"idle", "unlock", "read", "record", "clear", "challenge",
                                  "token", "session", "done"}
  /\ \A v \in Validations : pc[v] \in {"idle", "user", "factor", "consume", "token",
                                       "session", "done"}
  /\ \A m \in Verifies : pc[m] \in {"idle", "user", "token", "session", "done"}
  /\ \A r \in Resets : pc[r] \in {"idle", "checks", "set", "forget", "sessions", "tokens",
                                  "release", "done"}
  /\ \A c \in Logins \union Validations : session[c] # "none" => pc[c] = "done"
  /\ \A v \in Validations : pc[v] = "idle" \/ of[v] \in Logins

\* The lock is on exactly from MAX_FAILED_ATTEMPTS, and the wrong passwords
\* and the recorded ones differ by the logins in between.
Counted ==
  /\ lock = "none" <=> attempts < MaxFailed
  /\ failures <= attempts + Cardinality(At(pc, "record"))
  /\ attempts + Cardinality(At(pc, "record")) <= failures + Cardinality(Logins)
  /\ failures + Cardinality(At(pc, "read")) < MaxFailed + Cardinality(Logins)

\* The magic link is used up by the first use that gets anywhere.
Once ==
  /\ \A m \in Verifies : pc[m] # "idle" \/ session[m] # "none" => link = "used"
  /\ \A m, n \in Verifies :
        /\ pc[m] # "idle" \/ session[m] # "none"
        /\ pc[n] # "idle" \/ session[n] # "none"
        => m = n

\* Sign-ins past the password check and open sessions stand for the current
\* password, but for those the last revocation overtook.
Fresh(c) ==
  UnderWay(c) \/ session[c] = "active"
  => proved[Via(c)] = version \/ {c, Via(c)} \intersect spanned # {}

Broken == halfway \/ \E r \in Resets : pc[r] \in {"forget", "sessions"}

Overlap == Broken \/ \A c \in Logins \union Validations : Fresh(c)

IInv == TypeOK /\ Kinds /\ Counted /\ Once /\ Overlap

-----------------------------------------------------------------------------
\* The invariant holds before any request.
LEMMA Initially == Init => IInv
<1> SUFFICES ASSUME Init PROVE IInv
  OBVIOUS
<1>1. TypeOK
  <2>1. pc \in [Clients \union Resets -> Steps] /\ of \in [Validations -> Logins \union {Nobody}]
    BY DEF Init, Steps
  <2>2. proved \in [Logins -> 0..MaxVersion] /\ version \in 1..MaxVersion
    BY SignInAssumption DEF Init
  <2> QED
    BY <2>1, <2>2 DEF Init, TypeOK
<1>2. Kinds /\ Once
  BY SignInAssumption DEF Init, Kinds, Once, Clients
<1>3. Counted
  <2>1. At(pc, "read") = {} /\ At(pc, "record") = {}
    BY DEF Init, At, Clients
  <2> QED
    BY <2>1, AtSizes, FS_EmptySet, SignInAssumption DEF Init, Counted
<1>4. Overlap
  BY DEF Init, Overlap, Fresh, UnderWay, Clients, Goto
<1> QED
  BY <1>1, <1>2, <1>3, <1>4 DEF IInv

\* isAccountLocked lets a login on only below the limit, or to delete the row.
LEMMA CheckKeeps ==
  ASSUME IInv, NEW l \in Logins, Check(l)
  PROVE  IInv'
<1> USE SignInAssumption
    DEF IInv, Check, counter, account,
      grants, opened, input, ghosts
<1>1. TypeOK'
  BY DEF TypeOK, Steps, Clients, Goto
<1>2. Kinds'
  BY DEF TypeOK, Kinds, Clients, Goto
<1>3. Counted'
  <2>1. At(pc', "record") = At(pc, "record")
    BY Moves DEF Kinds, Clients
  <2>2. /\ Cardinality(At(pc, "read")) \in Nat /\ Cardinality(At(pc, "record")) \in Nat
        /\ Cardinality(At(pc', "read")) + Cardinality(At(pc', "record")) <= Cardinality(Logins)
        /\ Cardinality(At(pc', "read")) \in Nat /\ Cardinality(Logins) \in Nat
    BY AtSizes
  <2>3. CASE lock = "none" /\ pc'[l] = "read"
    BY <2>1, <2>2, <2>3 DEF TypeOK, Counted
  <2>4. CASE pc'[l] # "read"
    <3>1. At(pc', "read") = At(pc, "read")
      BY <2>4, Moves DEF Kinds, Clients
    <3> QED
      BY <2>1, <3>1 DEF Counted
  <2>5. pc'[l] = "read" => lock = "none"
    BY DEF TypeOK, Clients, Goto
  <2> QED
    BY <2>3, <2>4, <2>5
<1>4. Once'
  BY DEF TypeOK, Once, Clients, Goto
<1>5. Overlap'
  <2>1. Broken => Broken'
    BY DEF TypeOK, Broken, Goto, Clients
  <2>2. ASSUME NEW d \in Logins \union Validations, Fresh(d) PROVE Fresh(d)'
    BY <2>2 DEF TypeOK, Kinds, Fresh, UnderWay, Via, Clients, Goto
  <2> QED
    BY <2>1, <2>2 DEF Overlap
<1> QED
  BY <1>1, <1>2, <1>3, <1>4, <1>5

\* A deleted row starts the count again.
LEMMA UnlockKeeps ==
  ASSUME IInv, NEW l \in Logins, Unlock(l)
  PROVE  IInv'
<1> USE SignInAssumption
    DEF IInv, Unlock, NoRow, counter, account,
      grants, opened, input, ghosts
<1>1. TypeOK'
  BY DEF TypeOK, Steps, Clients, Goto
<1>2. Kinds'
  BY DEF TypeOK, Kinds, Clients, Goto
<1>3. Counted'
  <2>1. /\ Cardinality(Logins) \in Nat
        /\ Cardinality(At(pc', "read")) \in Nat /\ Cardinality(At(pc', "record")) \in Nat
        /\ Cardinality(At(pc', "read")) + Cardinality(At(pc', "record")) <= Cardinality(Logins)
    BY AtSizes
  <2> QED
    BY <2>1, SignInAssumption DEF Counted, NoRow
<1>4. Once'
  BY DEF TypeOK, Once, Clients, Goto
<1>5. Overlap'
  <2>1. Broken => Broken'
    BY DEF TypeOK, Broken, Goto, Clients
  <2>2. ASSUME NEW d \in Logins \union Validations, Fresh(d) PROVE Fresh(d)'
    BY <2>2 DEF TypeOK, Kinds, Fresh, UnderWay, Via, Clients, Goto
  <2> QED
    BY <2>1, <2>2 DEF Overlap
<1> QED
  BY <1>1, <1>2, <1>3, <1>4, <1>5

\* A login that compared a password leaves the check behind it.
LEMMA ReadKeeps ==
  ASSUME IInv, NEW l \in Logins, Read(l)
  PROVE  IInv'
<1> USE SignInAssumption
    DEF IInv, Read, counter, account,
      grants, opened, input, ghosts
<1>1. TypeOK'
  BY DEF TypeOK, Steps, Clients, Goto
<1>2. Kinds'
  BY DEF TypeOK, Kinds, Clients, Goto
<1>3. Counted'
  <2>0. /\ Cardinality(Logins) \in Nat
        /\ Cardinality(At(pc, "read")) \in Nat /\ Cardinality(At(pc, "record")) \in Nat
    BY AtSizes
  <2>1. Cardinality(At(pc', "read")) = Cardinality(At(pc, "read")) - 1
    BY Moves DEF Kinds, Clients
  <2>2. CASE pc'[l] = "record"
    <3>1. Cardinality(At(pc', "record")) = Cardinality(At(pc, "record")) + 1
      BY <2>2, Moves DEF Kinds, Clients
    <3>2. failures' = failures + 1
      BY <2>2 DEF TypeOK, Clients, Goto
    <3> QED
      BY <2>0, <2>1, <3>1, <3>2 DEF TypeOK, Counted
  <2>3. CASE pc'[l] # "record"
    <3>1. At(pc', "record") = At(pc, "record")
      BY <2>3, Moves DEF Kinds, Clients
    <3>2. failures' = failures
      BY <2>3 DEF TypeOK, Clients, Goto
    <3> QED
      BY <2>0, <2>1, <3>1, <3>2 DEF TypeOK, Counted
  <2> QED
    BY <2>2, <2>3
<1>4. Once'
  BY DEF TypeOK, Once, Clients, Goto
<1>5. Overlap'
  <2>1. Broken => Broken'
    BY DEF TypeOK, Broken, Goto, Clients
  <2>2. ASSUME NEW c \in Logins \union Validations, Fresh(c) PROVE Fresh(c)'
    <3>1. CASE Via(c) = l /\ pc'[l] = "clear"
      BY <3>1 DEF TypeOK, Fresh, Via, Clients, Goto
    <3>2. CASE Via(c) # l
      BY <2>2, <3>2 DEF TypeOK, Kinds, Fresh, UnderWay, Via, Clients, Goto
    <3>3. CASE pc'[l] # "clear"
      BY <2>2, <3>3 DEF TypeOK, Kinds, Fresh, UnderWay, Via, Clients, Goto
    <3> QED
      BY <3>1, <3>2, <3>3
  <2> QED
    BY <2>1, <2>2 DEF Overlap
<1> QED
  BY <1>1, <1>2, <1>3, <1>4, <1>5

\* The upsert of recordFailedAttempt locks at the limit.
LEMMA RecordKeeps ==
  ASSUME IInv, NEW l \in Logins, Record(l)
  PROVE  IInv'
<1> USE SignInAssumption
    DEF IInv, Record, counter, account,
      grants, opened, input, ghosts
<1>1. TypeOK'
  BY DEF TypeOK, Steps, Clients, Goto
<1>2. Kinds'
  BY DEF TypeOK, Kinds, Clients, Goto
<1>3. Counted'
  <2>0. /\ Cardinality(Logins) \in Nat
        /\ Cardinality(At(pc, "read")) \in Nat /\ Cardinality(At(pc, "record")) \in Nat
    BY AtSizes
  <2>1. Cardinality(At(pc', "record")) = Cardinality(At(pc, "record")) - 1
    BY Moves DEF Kinds, Clients
  <2>2. At(pc', "read") = At(pc, "read")
    BY Moves DEF Kinds, Clients
  <2> QED
    BY <2>0, <2>1, <2>2, SignInAssumption DEF TypeOK, Counted, Locks
<1>4. Once'
  BY DEF TypeOK, Once, Clients, Goto
<1>5. Overlap'
  <2>1. Broken => Broken'
    BY DEF TypeOK, Broken, Goto, Clients
  <2>2. ASSUME NEW d \in Logins \union Validations, Fresh(d) PROVE Fresh(d)'
    BY <2>2 DEF TypeOK, Kinds, Fresh, UnderWay, Via, Clients, Goto
  <2> QED
    BY <2>1, <2>2 DEF Overlap
<1> QED
  BY <1>1, <1>2, <1>3, <1>4, <1>5

\* clearFailedAttempts starts the count again.
LEMMA ClearKeeps ==
  ASSUME IInv, NEW l \in Logins, Clear(l)
  PROVE  IInv'
<1> USE SignInAssumption
    DEF IInv, Clear, NoRow, counter, account,
      grants, opened, input, ghosts
<1>1. TypeOK'
  BY DEF TypeOK, Steps, Clients, Goto
<1>2. Kinds'
  BY DEF TypeOK, Kinds, Clients, Goto
<1>3. Counted'
  <2>1. /\ Cardinality(Logins) \in Nat
        /\ Cardinality(At(pc', "read")) \in Nat /\ Cardinality(At(pc', "record")) \in Nat
        /\ Cardinality(At(pc', "read")) + Cardinality(At(pc', "record")) <= Cardinality(Logins)
    BY AtSizes
  <2> QED
    BY <2>1, SignInAssumption DEF Counted, NoRow
<1>4. Once'
  BY DEF TypeOK, Once, Clients, Goto
<1>5. Overlap'
  <2>1. Broken => Broken'
    BY DEF TypeOK, Broken, Goto, Clients
  <2>2. ASSUME NEW d \in Logins \union Validations, Fresh(d) PROVE Fresh(d)'
    BY <2>2 DEF TypeOK, Kinds, Fresh, UnderWay, Via, Clients, Goto
  <2> QED
    BY <2>1, <2>2 DEF Overlap
<1> QED
  BY <1>1, <1>2, <1>3, <1>4, <1>5

\* The challenge keeps a login under way.
LEMMA ChallengeKeeps ==
  ASSUME IInv, NEW l \in Logins, Challenge(l)
  PROVE  IInv'
<1> USE SignInAssumption
    DEF IInv, Challenge, counter, account,
      grants, opened, input, ghosts
<1>1. TypeOK'
  BY DEF TypeOK, Steps, Clients, Goto
<1>2. Kinds'
  BY DEF TypeOK, Kinds, Clients, Goto
<1>3. Counted'
  <2>1. At(pc', "read") = At(pc, "read") /\ At(pc', "record") = At(pc, "record")
    BY Moves DEF Kinds, Clients
  <2> QED
    BY <2>1 DEF Counted
<1>4. Once'
  BY DEF TypeOK, Once, Clients, Goto
<1>5. Overlap'
  <2>1. Broken => Broken'
    BY DEF TypeOK, Broken, Goto, Clients
  <2>2. ASSUME NEW d \in Logins \union Validations, Fresh(d) PROVE Fresh(d)'
    BY <2>2 DEF TypeOK, Kinds, Fresh, UnderWay, Via, Clients, Goto
  <2> QED
    BY <2>1, <2>2 DEF Overlap
<1> QED
  BY <1>1, <1>2, <1>3, <1>4, <1>5

\* A validation takes the password over from the login of its challenge.
LEMMA ExistsKeeps ==
  ASSUME IInv, NEW v \in Validations, NEW l \in Logins, Exists(v, l)
  PROVE  IInv'
<1> USE SignInAssumption
    DEF IInv, Exists, counter, account,
      grants, opened, input, ghosts
<1>1. TypeOK'
  BY DEF TypeOK, Steps, Clients, Goto
<1>2. Kinds'
  BY DEF TypeOK, Kinds, Clients, Goto
<1>3. Counted'
  <2>1. At(pc', "read") = At(pc, "read") /\ At(pc', "record") = At(pc, "record")
    BY Moves DEF Kinds, Clients
  <2> QED
    BY <2>1 DEF Counted
<1>4. Once'
  BY DEF TypeOK, Once, Clients, Goto
<1>5. Overlap'
  <2>1. Broken => Broken'
    BY DEF TypeOK, Broken, Goto, Clients
  <2>2. ASSUME NEW c \in Logins \union Validations, Fresh(c), Fresh(l) PROVE Fresh(c)'
    <3>1. CASE c = v /\ challenge[l] = "stored"
      BY <2>2, <3>1 DEF TypeOK, Fresh, UnderWay, Via, Clients, Goto
    <3>2. CASE c = v /\ challenge[l] # "stored"
      BY <3>2 DEF TypeOK, Kinds, Fresh, UnderWay, Clients, Goto
    <3>3. CASE c # v
      BY <2>2, <3>3 DEF TypeOK, Fresh, UnderWay, Via, Clients, Goto
    <3> QED
      BY <3>1, <3>2, <3>3
  <2> QED
    BY <2>1, <2>2 DEF Overlap
<1> QED
  BY <1>1, <1>2, <1>3, <1>4, <1>5

\* The second factor decides whether the validation goes on.
LEMMA FactorKeeps ==
  ASSUME IInv, NEW v \in Validations, Factor(v)
  PROVE  IInv'
<1> USE SignInAssumption
    DEF IInv, Factor, counter, account,
      grants, opened, input, ghosts
<1>1. TypeOK'
  BY DEF TypeOK, Steps, Clients, Goto
<1>2. Kinds'
  BY DEF TypeOK, Kinds, Clients, Goto
<1>3. Counted'
  <2>1. At(pc', "read") = At(pc, "read") /\ At(pc', "record") = At(pc, "record")
    BY Moves DEF Kinds, Clients
  <2> QED
    BY <2>1 DEF Counted
<1>4. Once'
  BY DEF TypeOK, Once, Clients, Goto
<1>5. Overlap'
  <2>1. Broken => Broken'
    BY DEF TypeOK, Broken, Goto, Clients
  <2>2. ASSUME NEW d \in Logins \union Validations, Fresh(d) PROVE Fresh(d)'
    BY <2>2 DEF TypeOK, Kinds, Fresh, UnderWay, Via, Clients, Goto
  <2> QED
    BY <2>1, <2>2 DEF Overlap
<1> QED
  BY <1>1, <1>2, <1>3, <1>4, <1>5

\* A consumed challenge leaves the validation under way.
LEMMA ConsumeKeeps ==
  ASSUME IInv, NEW v \in Validations, Consume(v)
  PROVE  IInv'
<1> USE SignInAssumption
    DEF IInv, Consume, counter, account,
      grants, opened, input, ghosts
<1>1. TypeOK'
  BY DEF TypeOK, Steps, Clients, Goto
<1>2. Kinds'
  BY DEF TypeOK, Kinds, Clients, Goto
<1>3. Counted'
  <2>1. At(pc', "read") = At(pc, "read") /\ At(pc', "record") = At(pc, "record")
    BY Moves DEF Kinds, Clients
  <2> QED
    BY <2>1 DEF Counted
<1>4. Once'
  BY DEF TypeOK, Once, Clients, Goto
<1>5. Overlap'
  <2>1. Broken => Broken'
    BY DEF TypeOK, Broken, Goto, Clients
  <2>2. ASSUME NEW d \in Logins \union Validations, Fresh(d) PROVE Fresh(d)'
    BY <2>2 DEF TypeOK, Kinds, Fresh, UnderWay, Via, Clients, Goto
  <2> QED
    BY <2>1, <2>2 DEF Overlap
<1> QED
  BY <1>1, <1>2, <1>3, <1>4, <1>5

\* The guarded UPDATE lets one use of the link through.
LEMMA RedeemKeeps ==
  ASSUME IInv, NEW m \in Verifies, Redeem(m)
  PROVE  IInv'
<1> USE SignInAssumption
    DEF IInv, Redeem, Redeemable, counter, account,
      grants, opened, input, ghosts
<1>1. TypeOK'
  BY DEF TypeOK, Steps, Clients, Goto
<1>2. Kinds'
  BY DEF TypeOK, Kinds, Clients, Goto
<1>3. Counted'
  <2>1. At(pc', "read") = At(pc, "read") /\ At(pc', "record") = At(pc, "record")
    BY Moves DEF Kinds, Clients
  <2> QED
    BY <2>1 DEF Counted
<1>4. Once'
  BY DEF TypeOK, Once, Clients, Goto
<1>5. Overlap'
  <2>1. Broken => Broken'
    BY DEF TypeOK, Broken, Goto, Clients
  <2>2. ASSUME NEW d \in Logins \union Validations, Fresh(d) PROVE Fresh(d)'
    BY <2>2 DEF TypeOK, Kinds, Fresh, UnderWay, Via, Clients, Goto
  <2> QED
    BY <2>1, <2>2 DEF Overlap
<1> QED
  BY <1>1, <1>2, <1>3, <1>4, <1>5

\* A deactivated account goes no further.
LEMMA UserKeeps ==
  ASSUME IInv, NEW c \in Clients, User(c)
  PROVE  IInv'
<1> USE SignInAssumption
    DEF IInv, User, counter, account,
      grants, opened, input, ghosts
<1>1. TypeOK'
  BY DEF TypeOK, Steps, Clients, Goto
<1>2. Kinds'
  BY DEF TypeOK, Kinds, Clients, Goto
<1>3. Counted'
  <2>1. At(pc', "read") = At(pc, "read") /\ At(pc', "record") = At(pc, "record")
    BY Moves DEF Kinds, Clients
  <2> QED
    BY <2>1 DEF Counted
<1>4. Once'
  BY DEF TypeOK, Once, Clients, Goto
<1>5. Overlap'
  <2>1. Broken => Broken'
    BY DEF TypeOK, Broken, Goto, Clients
  <2>2. ASSUME NEW d \in Logins \union Validations, Fresh(d) PROVE Fresh(d)'
    BY <2>2 DEF TypeOK, Kinds, Fresh, UnderWay, Via, Clients, Goto
  <2> QED
    BY <2>1, <2>2 DEF Overlap
<1> QED
  BY <1>1, <1>2, <1>3, <1>4, <1>5

\* createRefreshToken.
LEMMA IssueTokenKeeps ==
  ASSUME IInv, NEW c \in Clients, IssueToken(c)
  PROVE  IInv'
<1> USE SignInAssumption
    DEF IInv, IssueToken, counter, account,
      grants, opened, input, ghosts
<1>1. TypeOK'
  BY DEF TypeOK, Steps, Clients, Goto
<1>2. Kinds'
  BY DEF TypeOK, Kinds, Clients, Goto
<1>3. Counted'
  <2>1. At(pc', "read") = At(pc, "read") /\ At(pc', "record") = At(pc, "record")
    BY Moves DEF Kinds, Clients
  <2> QED
    BY <2>1 DEF Counted
<1>4. Once'
  BY DEF TypeOK, Once, Clients, Goto
<1>5. Overlap'
  <2>1. Broken => Broken'
    BY DEF TypeOK, Broken, Goto, Clients
  <2>2. ASSUME NEW d \in Logins \union Validations, Fresh(d) PROVE Fresh(d)'
    BY <2>2 DEF TypeOK, Kinds, Fresh, UnderWay, Via, Clients, Goto
  <2> QED
    BY <2>1, <2>2 DEF Overlap
<1> QED
  BY <1>1, <1>2, <1>3, <1>4, <1>5

\* A session is opened by a sign-in that was under way.
LEMMA IssueSessionKeeps ==
  ASSUME IInv, NEW c \in Clients, IssueSession(c)
  PROVE  IInv'
<1> USE SignInAssumption
    DEF IInv, IssueSession, counter, account,
      grants, opened, input, ghosts
<1>1. TypeOK'
  BY DEF TypeOK, Steps, Clients, Goto
<1>2. Kinds'
  BY DEF TypeOK, Kinds, Clients, Goto
<1>3. Counted'
  <2>1. At(pc', "read") = At(pc, "read") /\ At(pc', "record") = At(pc, "record")
    BY Moves DEF Kinds, Clients
  <2> QED
    BY <2>1 DEF Counted
<1>4. Once'
  BY DEF TypeOK, Once, Clients, Goto
<1>5. Overlap'
  <2>1. Broken => Broken'
    BY DEF TypeOK, Broken, Goto, Clients
  <2>2. ASSUME NEW d \in Logins \union Validations, Fresh(d) PROVE Fresh(d)'
    BY <2>2 DEF TypeOK, Kinds, Fresh, UnderWay, Via, Clients, Goto
  <2> QED
    BY <2>1, <2>2 DEF Overlap
<1> QED
  BY <1>1, <1>2, <1>3, <1>4, <1>5

\* A reset token is used up.
LEMMA ClaimKeeps ==
  ASSUME IInv, NEW r \in Resets, Claim(r)
  PROVE  IInv'
<1> USE SignInAssumption
    DEF IInv, Claim, Redeemable, counter, account,
      grants, opened, input, ghosts
<1>1. TypeOK'
  BY DEF TypeOK, Steps, Clients, Goto
<1>2. Kinds'
  BY DEF TypeOK, Kinds, Clients, Goto
<1>3. Counted'
  <2>1. At(pc', "read") = At(pc, "read") /\ At(pc', "record") = At(pc, "record")
    BY Moves DEF Kinds, Clients
  <2> QED
    BY <2>1 DEF Counted
<1>4. Once'
  BY DEF TypeOK, Once, Clients, Goto
<1>5. Overlap'
  <2>1. Broken => Broken'
    BY DEF TypeOK, Broken, Goto, Clients
  <2>2. ASSUME NEW d \in Logins \union Validations, Fresh(d) PROVE Fresh(d)'
    BY <2>2 DEF TypeOK, Kinds, Fresh, UnderWay, Via, Clients, Goto
  <2> QED
    BY <2>1, <2>2 DEF Overlap
<1> QED
  BY <1>1, <1>2, <1>3, <1>4, <1>5

\* The checks before the new password.
LEMMA AdmitKeeps ==
  ASSUME IInv, NEW r \in Resets, Admit(r)
  PROVE  IInv'
<1> USE SignInAssumption
    DEF IInv, Admit, counter, account,
      grants, opened, input, ghosts
<1>1. TypeOK'
  BY DEF TypeOK, Steps, Clients, Goto
<1>2. Kinds'
  BY DEF TypeOK, Kinds, Clients, Goto
<1>3. Counted'
  <2>1. At(pc', "read") = At(pc, "read") /\ At(pc', "record") = At(pc, "record")
    BY Moves DEF Kinds, Clients
  <2> QED
    BY <2>1 DEF Counted
<1>4. Once'
  BY DEF TypeOK, Once, Clients, Goto
<1>5. Overlap'
  <2>1. Broken => Broken'
    BY DEF TypeOK, Broken, Goto, Clients
  <2>2. ASSUME NEW d \in Logins \union Validations, Fresh(d) PROVE Fresh(d)'
    BY <2>2 DEF TypeOK, Kinds, Fresh, UnderWay, Via, Clients, Goto
  <2> QED
    BY <2>1, <2>2 DEF Overlap
<1> QED
  BY <1>1, <1>2, <1>3, <1>4, <1>5

\* An administrator needs no token.
LEMMA AdminStartKeeps ==
  ASSUME IInv, NEW r \in Resets, AdminStart(r)
  PROVE  IInv'
<1> USE SignInAssumption
    DEF IInv, AdminStart, counter, account,
      grants, opened, input, ghosts
<1>1. TypeOK'
  BY DEF TypeOK, Steps, Clients, Goto
<1>2. Kinds'
  BY DEF TypeOK, Kinds, Clients, Goto
<1>3. Counted'
  <2>1. At(pc', "read") = At(pc, "read") /\ At(pc', "record") = At(pc, "record")
    BY Moves DEF Kinds, Clients
  <2> QED
    BY <2>1 DEF Counted
<1>4. Once'
  BY DEF TypeOK, Once, Clients, Goto
<1>5. Overlap'
  <2>1. Broken => Broken'
    BY DEF TypeOK, Broken, Goto, Clients
  <2>2. ASSUME NEW d \in Logins \union Validations, Fresh(d) PROVE Fresh(d)'
    BY <2>2 DEF TypeOK, Kinds, Fresh, UnderWay, Via, Clients, Goto
  <2> QED
    BY <2>1, <2>2 DEF Overlap
<1> QED
  BY <1>1, <1>2, <1>3, <1>4, <1>5

\* From the new password to the revocation, old ones are accounted for by the reset.
LEMMA SetPasswordKeeps ==
  ASSUME IInv, NEW r \in Resets, SetPassword(r)
  PROVE  IInv'
<1> USE SignInAssumption
    DEF IInv, SetPassword, counter, account,
      grants, opened, input, ghosts
<1>1. TypeOK'
  BY DEF TypeOK, Steps, Clients, Goto
<1>2. Kinds'
  BY DEF TypeOK, Kinds, Clients, Goto
<1>3. Counted'
  <2>1. At(pc', "read") = At(pc, "read") /\ At(pc', "record") = At(pc, "record")
    BY Moves DEF Kinds, Clients
  <2> QED
    BY <2>1 DEF Counted
<1>4. Once'
  BY DEF TypeOK, Once, Clients, Goto
<1>5. Overlap'
  BY DEF TypeOK, Overlap, Broken, Clients, Goto
<1> QED
  BY <1>1, <1>2, <1>3, <1>4, <1>5

\* The reset goes on to the revocation.
LEMMA ForgetKeeps ==
  ASSUME IInv, NEW r \in Resets, Forget(r)
  PROVE  IInv'
<1> USE SignInAssumption
    DEF IInv, Forget, counter, account,
      grants, opened, input, ghosts
<1>1. TypeOK'
  BY DEF TypeOK, Steps, Clients, Goto
<1>2. Kinds'
  BY DEF TypeOK, Kinds, Clients, Goto
<1>3. Counted'
  <2>1. At(pc', "read") = At(pc, "read") /\ At(pc', "record") = At(pc, "record")
    BY Moves DEF Kinds, Clients
  <2> QED
    BY <2>1 DEF Counted
<1>4. Once'
  BY DEF TypeOK, Once, Clients, Goto
<1>5. Overlap'
  <2>1. Broken => Broken'
    BY DEF TypeOK, Broken, Goto, Clients
  <2>2. ASSUME NEW d \in Logins \union Validations, Fresh(d) PROVE Fresh(d)'
    BY <2>2 DEF TypeOK, Kinds, Fresh, UnderWay, Via, Clients, Goto
  <2> QED
    BY <2>1, <2>2 DEF Overlap
<1> QED
  BY <1>1, <1>2, <1>3, <1>4, <1>5

\* The revocation leaves no active session and knows who was under way.
LEMMA RevokeSessionsKeeps ==
  ASSUME IInv, NEW r \in Resets, RevokeSessions(r)
  PROVE  IInv'
<1> USE SignInAssumption
    DEF IInv, RevokeSessions, counter, account,
      grants, opened, input, ghosts
<1>1. TypeOK'
  BY DEF TypeOK, Steps, Clients, Goto
<1>2. Kinds'
  BY DEF TypeOK, Kinds, Clients, Goto
<1>3. Counted'
  <2>1. At(pc', "read") = At(pc, "read") /\ At(pc', "record") = At(pc, "record")
    BY Moves DEF Kinds, Clients
  <2> QED
    BY <2>1 DEF Counted
<1>4. Once'
  BY DEF TypeOK, Once, Clients, Goto
<1>5. Overlap'
  <2>1. ASSUME NEW c \in Logins \union Validations PROVE Fresh(c)'
    <3>1. UnderWay(c)' => UnderWay(c)
      BY DEF TypeOK, UnderWay, Clients, Goto
    <3>2. UnderWay(c) => c \in spanned'
      BY DEF Clients
    <3>3. session'[c] # "active"
      BY DEF TypeOK, Clients
    <3> QED
      BY <3>1, <3>2, <3>3 DEF Fresh
  <2> QED
    BY <2>1 DEF Overlap
<1> QED
  BY <1>1, <1>2, <1>3, <1>4, <1>5

\* The refresh tokens go.
LEMMA RevokeTokensKeeps ==
  ASSUME IInv, NEW r \in Resets, RevokeTokens(r)
  PROVE  IInv'
<1> USE SignInAssumption
    DEF IInv, RevokeTokens, counter, account,
      grants, opened, input, ghosts
<1>1. TypeOK'
  BY DEF TypeOK, Steps, Clients, Goto
<1>2. Kinds'
  BY DEF TypeOK, Kinds, Clients, Goto
<1>3. Counted'
  <2>1. At(pc', "read") = At(pc, "read") /\ At(pc', "record") = At(pc, "record")
    BY Moves DEF Kinds, Clients
  <2> QED
    BY <2>1 DEF Counted
<1>4. Once'
  BY DEF TypeOK, Once, Clients, Goto
<1>5. Overlap'
  <2>1. Broken => Broken'
    BY DEF TypeOK, Broken, Goto, Clients
  <2>2. ASSUME NEW d \in Logins \union Validations, Fresh(d) PROVE Fresh(d)'
    BY <2>2 DEF TypeOK, Kinds, Fresh, UnderWay, Via, Clients, Goto
  <2> QED
    BY <2>1, <2>2 DEF Overlap
<1> QED
  BY <1>1, <1>2, <1>3, <1>4, <1>5

\* The count starts again after a reset.
LEMMA ReleaseKeeps ==
  ASSUME IInv, NEW r \in Resets, Release(r)
  PROVE  IInv'
<1> USE SignInAssumption
    DEF IInv, Release, NoRow, counter, account,
      grants, opened, input, ghosts
<1>1. TypeOK'
  BY DEF TypeOK, Steps, Clients, Goto
<1>2. Kinds'
  BY DEF TypeOK, Kinds, Clients, Goto
<1>3. Counted'
  <2>1. /\ Cardinality(Logins) \in Nat
        /\ Cardinality(At(pc', "read")) \in Nat /\ Cardinality(At(pc', "record")) \in Nat
        /\ Cardinality(At(pc', "read")) + Cardinality(At(pc', "record")) <= Cardinality(Logins)
    BY AtSizes
  <2> QED
    BY <2>1, SignInAssumption DEF Counted, NoRow
<1>4. Once'
  BY DEF TypeOK, Once, Clients, Goto
<1>5. Overlap'
  <2>1. Broken => Broken'
    BY DEF TypeOK, Broken, Goto, Clients
  <2>2. ASSUME NEW d \in Logins \union Validations, Fresh(d) PROVE Fresh(d)'
    BY <2>2 DEF TypeOK, Kinds, Fresh, UnderWay, Via, Clients, Goto
  <2> QED
    BY <2>1, <2>2 DEF Overlap
<1> QED
  BY <1>1, <1>2, <1>3, <1>4, <1>5

\* A failed statement is counted when it was to record, and remembered when it was to revoke.
LEMMA AbortKeeps ==
  ASSUME IInv, NEW c \in Clients \union Resets, Abort(c)
  PROVE  IInv'
<1> USE SignInAssumption
    DEF IInv, Abort, counter, account,
      grants, opened, input, ghosts
<1>1. TypeOK'
  BY DEF TypeOK, Steps, Clients, Goto
<1>2. Kinds'
  BY DEF TypeOK, Kinds, Clients, Goto
<1>3. Counted'
  <2>0. /\ Cardinality(Logins) \in Nat
        /\ Cardinality(At(pc, "read")) \in Nat /\ Cardinality(At(pc, "record")) \in Nat
        /\ Cardinality(At(pc', "read")) \in Nat /\ Cardinality(At(pc', "record")) \in Nat
        /\ Cardinality(At(pc', "read")) + Cardinality(At(pc', "record")) <= Cardinality(Logins)
    BY AtSizes
  <2>1. CASE pc[c] = "record"
    <3>1. c \in Logins
      BY <2>1 DEF Kinds, Clients
    <3>2. Cardinality(At(pc', "record")) = Cardinality(At(pc, "record")) - 1
      BY <2>1, <3>1, Moves DEF Kinds, Clients
    <3>3. At(pc', "read") = At(pc, "read")
      BY <2>1, <3>1, Moves DEF Kinds, Clients
    <3> QED
      BY <2>0, <2>1, <3>2, <3>3 DEF TypeOK, Counted
  <2>2. CASE pc[c] = "read"
    <3>1. c \in Logins
      BY <2>2 DEF Kinds, Clients
    <3>2. Cardinality(At(pc', "read")) = Cardinality(At(pc, "read")) - 1
      BY <2>2, <3>1, Moves DEF Kinds, Clients
    <3>3. At(pc', "record") = At(pc, "record")
      BY <2>2, <3>1, Moves DEF Kinds, Clients
    <3> QED
      BY <2>0, <2>2, <3>2, <3>3 DEF TypeOK, Counted
  <2>3. CASE pc[c] \notin {"read", "record"}
    <3>1. At(pc', "read") = At(pc, "read") /\ At(pc', "record") = At(pc, "record")
      BY <2>3, Moves DEF Kinds, Clients
    <3> QED
      BY <2>3, <3>1 DEF Counted
  <2> QED
    BY <2>1, <2>2, <2>3
<1>4. Once'
  BY DEF TypeOK, Once, Clients, Goto
<1>5. Overlap'
  <2>1. Broken => Broken'
    BY DEF TypeOK, Kinds, Broken, Clients, Goto
  <2>2. ASSUME NEW d \in Logins \union Validations, Fresh(d) PROVE Fresh(d)'
    BY <2>2 DEF TypeOK, Kinds, Fresh, UnderWay, Via, Clients, Goto
  <2> QED
    BY <2>1, <2>2 DEF Overlap
<1> QED
  BY <1>1, <1>2, <1>3, <1>4, <1>5

\* A mail that is sent, an account switched on or off, and time.
LEMMA GrantKeeps ==
  ASSUME IInv, SendLink \/ SendTicket \/ Toggle \/ Expire \/ UNCHANGED vars
  PROVE  IInv'
<1> USE SignInAssumption
    DEF IInv, SendLink, SendTicket, Toggle, Expire, vars, counter, account,
      grants, opened, input, ghosts
<1>1. TypeOK'
  <2>1. CASE SendLink \/ SendTicket \/ Toggle \/ UNCHANGED vars
    BY ZenonT(60), <2>1 DEF TypeOK
  <2>2. CASE Expire
    <3>1. challenge' \in [Logins -> {"none", "stored", "gone"}]
      BY <2>2 DEF TypeOK
    <3>2. lock' \in {"none", "live", "past"} /\ link' \in {"none", "sent", "used"}
          /\ ticket' \in {"none", "sent", "used"}
      BY <2>2 DEF TypeOK
    <3> QED
      BY <2>2, <3>1, <3>2 DEF TypeOK
  <2> QED
    BY <2>1, <2>2
<1>2. Kinds'
  BY DEF TypeOK, Kinds, Clients, Goto
<1>3. Counted'
  BY DEF TypeOK, Counted
<1>4. Once'
  BY DEF TypeOK, Once, Clients, Goto
<1>5. Overlap'
  <2>1. Broken => Broken'
    BY DEF TypeOK, Broken, Goto, Clients
  <2>2. ASSUME NEW d \in Logins \union Validations, Fresh(d) PROVE Fresh(d)'
    BY <2>2 DEF TypeOK, Kinds, Fresh, UnderWay, Via, Clients, Goto
  <2> QED
    BY <2>1, <2>2 DEF Overlap
<1> QED
  BY <1>1, <1>2, <1>3, <1>4, <1>5

\* The sweep starts the count again.
LEMMA SweepKeeps ==
  ASSUME IInv, Sweep
  PROVE  IInv'
<1> USE SignInAssumption
    DEF IInv, Sweep, NoRow, counter, account,
      grants, opened, input, ghosts
<1>1. TypeOK'
  BY DEF TypeOK, Steps, Clients, Goto
<1>2. Kinds'
  BY DEF TypeOK, Kinds, Clients, Goto
<1>3. Counted'
  <2>1. /\ Cardinality(Logins) \in Nat
        /\ Cardinality(At(pc', "read")) \in Nat /\ Cardinality(At(pc', "record")) \in Nat
        /\ Cardinality(At(pc', "read")) + Cardinality(At(pc', "record")) <= Cardinality(Logins)
    BY AtSizes
  <2> QED
    BY <2>1, SignInAssumption DEF Counted, NoRow
<1>4. Once'
  BY DEF TypeOK, Once, Clients, Goto
<1>5. Overlap'
  <2>1. Broken => Broken'
    BY DEF TypeOK, Broken, Goto, Clients
  <2>2. ASSUME NEW d \in Logins \union Validations, Fresh(d) PROVE Fresh(d)'
    BY <2>2 DEF TypeOK, Kinds, Fresh, UnderWay, Via, Clients, Goto
  <2> QED
    BY <2>1, <2>2 DEF Overlap
<1> QED
  BY <1>1, <1>2, <1>3, <1>4, <1>5

\* IInv is an invariant.
THEOREM Invariance == Spec => []IInv
<1>1. IInv /\ [Next]_vars => IInv'
  BY CheckKeeps, UnlockKeeps, ReadKeeps,
      RecordKeeps, ClearKeeps, ChallengeKeeps, ExistsKeeps, FactorKeeps, ConsumeKeeps, RedeemKeeps,
      UserKeeps, IssueTokenKeeps, IssueSessionKeeps, ClaimKeeps, AdmitKeeps, AdminStartKeeps,
      SetPasswordKeeps, ForgetKeeps, RevokeSessionsKeeps, RevokeTokensKeeps, ReleaseKeeps, AbortKeeps,
     GrantKeeps, SweepKeeps
  DEF Next, Login, Validate, Issue, Reset
<1> QED
  BY <1>1, Initially, PTL DEF Spec

-----------------------------------------------------------------------------
\* The rows and requests of the account stay well typed.
THEOREM TypeCorrect == Spec => []TypeOK
  BY Invariance, PTL DEF IInv

\* Wrong passwords between two clearings of the counter are fewer than
\* MAX_FAILED_ATTEMPTS plus the number of logins that can be in flight.
THEOREM GuessesBounded == Spec => []AttemptsBounded
<1>1. IInv => AttemptsBounded
  BY AtSizes, SignInAssumption DEF IInv, TypeOK, Counted, AttemptsBounded
<1> QED
  BY <1>1, Invariance, PTL

\* A lock was earned by wrong passwords, but for those of logins in flight
\* when the counter was cleared.
THEOREM LocksEarned == Spec => []LockEarned
<1>1. IInv => LockEarned
  BY AtSizes, SignInAssumption DEF IInv, TypeOK, Counted, LockEarned
<1> QED
  BY <1>1, Invariance, PTL

\* A magic link opens one session.
THEOREM OneSessionPerLink == Spec => []LinkOpensOnce
<1>1. IInv => LinkOpensOnce
  BY DEF IInv, Once, LinkOpensOnce
<1> QED
  BY <1>1, Invariance, PTL

\* A session opened with a replaced password overlapped with the reset, or
\* the reset broke off.
THEOREM ReplacedPasswordsOverlap == Spec => []OldPasswordNeedsOverlap
<1>1. IInv => OldPasswordNeedsOverlap
  BY DEF IInv, Overlap, Broken, Fresh, OldPasswordNeedsOverlap
<1> QED
  BY <1>1, Invariance, PTL

=============================================================================
