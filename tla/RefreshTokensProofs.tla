------------------------- MODULE RefreshTokensProofs -------------------------
(***************************************************************************)
(* Theorems about refresh-token rotation, for any number of devices,       *)
(* requests and tokens.                                                    *)
(***************************************************************************)
EXTENDS RefreshTokens, FiniteSetTheorems, TLAPS

\* Requests that hold the row lock of their token.
Claimers == {r \in Refreshes : pc[r] \in {"session", "swap"}}
              \union {r \in Logouts : pc[r] = "end"}

\* Which request may be where, and what it knows there.
Places ==
  /\ \A r \in Requests : pc[r] \in {"session", "swap", "sweep"} => r \in Refreshes
  /\ \A r \in Requests : pc[r] \in {"end", "revoked"} => r \in Logouts
  /\ \A r \in Requests : pc[r] \in {"claim", "reuse", "invalid"} => r \in Refreshes \union Logouts
  /\ \A r \in Requests : pc[r] \in {"drop", "done"} => r \in Revokers
  /\ \A r \in Requests : pc[r] = "login" => r \in Logins
  /\ \A r \in Requests : pc[r] # "idle" /\ r \in Refreshes \union Logouts
        => arg[r] \in 1..issued /\ fam[arg[r]] \in Sessions
  /\ \A r \in Logins : pc[r] = "ok" => minted[r] \in 1..issued /\ fam[minted[r]] \in Sessions
  /\ \A r \in Refreshes :
        /\ pc[r] \in {"idle", "claim", "session", "swap"} => minted[r] = 0
        /\ pc[r] \in {"sweep", "ok"} => minted[r] # 0
        /\ minted[r] # 0 => minted[r] \in 1..issued /\ fam[minted[r]] \in Sessions /\ arg[r] \in 1..issued

\* A login between its two statements has a token of its own and no row.
Opening ==
  /\ \A r \in Logins : pc[r] \in {"idle", "login"} => sessTok[r] = 0
  /\ \A r \in Logins : pc[r] = "login" => minted[r] \in 1..issued /\ fam[minted[r]] = Nobody
  /\ \A r, q \in Logins : r # q /\ pc[r] = "login" /\ pc[q] = "login" => minted[r] # minted[q]

\* Session rows and tokens point at each other: a row at the newest token of
\* its family, and no live token of the family is older.
Families ==
  /\ \A t \in Tokens : t > issued => fam[t] = Nobody
  /\ \A t \in Tokens : fam[t] \in Sessions => fam[t] \in Rows
  /\ \A s \in Rows : sessTok[s] \in 1..issued /\ fam[sessTok[s]] = s
  /\ \A t \in live : fam[t] \in Sessions => sessTok[fam[t]] = t

\* The row locks at work: those of single rows, and those a many-row statement
\* collects, which no request with a single row holds at the same time.
LocksHold ==
  /\ \A r \in Claimers : arg[r] \in live
  /\ \A r, q \in Claimers : r # q => arg[r] # arg[q]
  /\ \A r \in Refreshes : pc[r] = "swap" => fam[arg[r]] \in active
  /\ \A r \in Requests : pc[r] \notin {"marking", "purging"} => held[r] = {}
  /\ \A r \in Requests : pc[r] = "marking" =>
        /\ snap[r] \subseteq Rows /\ held[r] \subseteq Rows
        /\ \A q \in Refreshes : pc[q] = "swap" => fam[arg[q]] \notin held[r]
  /\ \A r \in Requests : pc[r] = "purging" =>
        /\ snap[r] \subseteq Tokens /\ held[r] \subseteq Tokens
        /\ \A q \in Claimers : arg[q] \notin held[r]

\* A revocation on its way: what it has dealt with stays dealt with.
Revoking ==
  \A r \in Requests :
     /\ condemned[r] \subseteq Rows
     /\ pc[r] = "marking" => condemned[r] \subseteq snap[r] \union held[r]
     /\ pc[r] \in {"purge", "purging", "revokedAll", "drop", "done"}
          => condemned[r] \intersect active = {}
     /\ pc[r] \in {"purging", "drop"}
          => \A t \in live : fam[t] \in condemned[r] => t \in snap[r] \union held[r]
     /\ pc[r] \in {"revokedAll", "done"} => Dead(condemned[r])

LoggedOut ==
  \A r \in Logouts :
     /\ pc[r] = "revoked" => Dead({fam[arg[r]]})
     /\ pc[r] \in {"mark", "marking", "purge", "purging", "revokedAll"}
          => fam[arg[r]] \in condemned[r]

\* A token that was rotated is gone for good, and somebody remembers it.
Remembered ==
  /\ \A r \in Refreshes : minted[r] # 0 =>
        /\ arg[r] \notin live
        /\ sessTok[fam[arg[r]]] # arg[r]
        /\ arg[r] \in rotated \union caught \union aged
  /\ \A r \in Requests : pc[r] = "drop" => \A t \in snap[r] :
        t \in 1..issued /\ fam[t] \in Rows \ active /\ sessTok[fam[t]] = t
  /\ SingleUse

\* A request that was turned away was turned away for good.
TurnedAway ==
  \A r \in Refreshes \union Logouts : pc[r] \in {"reuse", "invalid"} =>
     \/ arg[r] \notin live
     \/ arg[r] \in expired /\ \A q \in Refreshes \intersect Claimers : arg[q] # arg[r]
     \/ fam[arg[r]] \notin active

\* The inductive invariant.
IInv ==
  /\ TypeOK /\ Places /\ Opening /\ Families /\ LocksHold
  /\ Revoking /\ LoggedOut /\ Remembered /\ TurnedAway /\ LoserFindsRotation

LEMMA InitIInv == Init => IInv
  BY RequestsAssumption DEF Init, IInv, TypeOK, Places, Opening, Families, LocksHold, Claimers,
     Revoking, LoggedOut, Remembered, SingleUse, TurnedAway, LoserFindsRotation, Rows,
     Requests, Sessions, Tokens, Running, Ended, Dead

LEMMA LoginTokenIInv ==
  ASSUME IInv, NEW r \in Requests, LoginToken(r)
  PROVE  IInv'
  <1> USE RequestsAssumption DEF IInv, LoginToken, Goto, TypeOK, Requests, Sessions, Tokens, Rows,
          Places, requestVars, tokenVars, sessionVars, history
  <1>1. TypeOK'
    BY SMTT(40) DEF Running, Ended, Opening
  <1>2. Places'
    BY SMTT(40) DEF Opening
  <1>3. Opening'
    BY DEF Opening, Families
  <1>4. Families'
    BY DEF Families, Opening
  <1>5. LocksHold'
    BY DEF LocksHold, Claimers, RowFree, SessionFree, HoldsToken, HoldsSession, Families
  <1>6. Revoking'
    BY SMTT(40) DEF Revoking, Dead, Families, Opening, LocksHold
  <1>7. LoggedOut'
    BY DEF LoggedOut, Dead, Revoking, Families
  <1>8. Remembered'
    BY DEF Remembered, SingleUse, Families, LocksHold, Claimers
  <1>9. TurnedAway'
    BY DEF TurnedAway, Claimers, RowFree, HoldsToken, Refused, Owner, Families, LocksHold
  <1>10. LoserFindsRotation'
    BY SMTT(40) DEF LoserFindsRotation, TurnedAway, Remembered, SingleUse, LocksHold
  <1>11. QED
    BY <1>1, <1>2, <1>3, <1>4, <1>5, <1>6, <1>7, <1>8, <1>9, <1>10

LEMMA LoginSessionIInv ==
  ASSUME IInv, NEW r \in Requests, LoginSession(r)
  PROVE  IInv'
  <1> USE RequestsAssumption DEF IInv, LoginSession, Goto, TypeOK, Requests, Sessions, Tokens, Rows,
          Places, requestVars, tokenVars, sessionVars, history
  <1>a. /\ r \notin Rows /\ Rows' = Rows \union {r} /\ minted[r] \in 1..issued /\ r # Nobody
       /\ fam[minted[r]] = Nobody /\ \A t \in Tokens : t # minted[r] => fam'[t] = fam[t]
       /\ fam'[minted[r]] = r
    BY DEF Opening
  <1>b. \A q \in Refreshes \union Logouts : pc[q] # "idle" =>
           /\ fam[arg[q]] \in Sessions /\ fam'[arg[q]] = fam[arg[q]]
           /\ fam[arg[q]] # r /\ arg[q] # minted[r]
    BY <1>a DEF Families
  <1>1. TypeOK'
    BY SMTT(40) DEF Running, Ended, Opening
  <1>2. Places'
    BY DEF Opening
  <1>3. Opening'
    BY DEF Opening, Families
  <1>4. Families'
    BY DEF Families, Opening
  <1>5. LocksHold'
    <2>1. \A q \in Requests : q # r => pc'[q] = pc[q]
      OBVIOUS
    <2>2. /\ pc'[r] = "ok" /\ r \notin Refreshes /\ r \notin Logouts /\ pc[r] = "login"
          /\ UNCHANGED <<arg, snap, held, live>>
      OBVIOUS
    <2>3. Claimers' = Claimers /\ Claimers \subseteq Refreshes \union Logouts
      BY <2>1, <2>2 DEF Claimers
    <2>4. active \subseteq active' /\ LocksHold
      OBVIOUS
    <2>5. \A q \in Refreshes : pc'[q] = "swap" => pc[q] = "swap" /\ fam'[arg[q]] = fam[arg[q]]
      BY <1>b, <2>1, <2>2
    <2> HIDE DEF IInv, LoginSession, TypeOK, Places, Requests, Tokens, Rows
    <2>6. QED
      BY <1>a, <2>1, <2>2, <2>3, <2>4, <2>5 DEF LocksHold
  <1>6. Revoking'
    BY SMTT(40) DEF Revoking, Dead, Families, Opening, LocksHold
  <1>7. LoggedOut'
    BY <1>a, <1>b DEF LoggedOut, Dead, Revoking, Families
  <1>8. Remembered'
    BY <1>a, <1>b DEF Remembered, SingleUse, Families, LocksHold, Claimers
  <1>9. TurnedAway'
    BY <1>a, <1>b DEF TurnedAway, Claimers, RowFree, HoldsToken, Refused, Owner, Families, LocksHold
  <1>10. LoserFindsRotation'
    BY SMTT(40) DEF LoserFindsRotation, TurnedAway, Remembered, SingleUse, LocksHold
  <1>11. QED
    BY <1>1, <1>2, <1>3, <1>4, <1>5, <1>6, <1>7, <1>8, <1>9, <1>10

LEMMA PresentIInv ==
  ASSUME IInv, NEW r \in Requests, NEW t \in Tokens, Present(r, t)
  PROVE  IInv'
  <1> USE RequestsAssumption DEF IInv, Present, Goto, TypeOK, Requests, Sessions, Tokens, Rows,
          Places, requestVars, tokenVars, sessionVars, history, Given, Ended
  <1>a. /\ pc' = [pc EXCEPT ![r] = "claim"] /\ arg' = [arg EXCEPT ![r] = t]
        /\ UNCHANGED <<minted, snap, held, issued, live, expired, rotated, aged>>
        /\ UNCHANGED <<sessTok, active, fam, caught, condemned>>
    OBVIOUS
  <1>1. TypeOK'
    <2>1. pc' \in [Requests -> Running \union Ended \union {"idle"}]
      BY <1>a DEF Running
    <2>2. arg' \in [Requests -> 0..MaxTokens]
      BY <1>a
    <2>3. active' \subseteq Rows' /\ held' = held
      BY <1>a
    <2> HIDE DEF IInv, Present, Places, Requests, Sessions, Tokens, Rows, Given, Ended
    <2>4. QED
      BY <1>a, <2>1, <2>2, <2>3 DEF IInv
  <1>2. Places'
    BY SMTT(40) DEF Opening
  <1>3. Opening'
    BY DEF Opening, Families
  <1>4. Families'
    BY DEF Families, Opening
  <1>5. LocksHold'
    BY SMTT(40) DEF LocksHold, Claimers, RowFree, SessionFree, HoldsToken, HoldsSession, Families
  <1>6. Revoking'
    BY SMTT(40) DEF Revoking, Dead, Families, Opening, LocksHold
  <1>7. LoggedOut'
    BY DEF LoggedOut, Dead, Revoking, Families
  <1>8. Remembered'
    <2>1. \A q \in Refreshes : minted[q] # 0 => q # r
      BY <1>a
    <2>2. \A q \in Requests : q # r => arg'[q] = arg[q] /\ pc'[q] = pc[q]
      BY <1>a
    <2>4. Remembered
      OBVIOUS
    <2> HIDE DEF IInv, Present, Places, TypeOK, Sessions, Tokens, Rows, Given, Ended
    <2>5. \A q \in Refreshes : minted[q] # 0 => arg'[q] = arg[q]
      BY <2>1, <2>2
    <2>6. \A q \in Requests : pc'[q] = "drop" => pc[q] = "drop"
      BY <1>a, <2>2
    <2>7. SingleUse'
      BY <1>a, <2>4, <2>5 DEF Remembered, SingleUse
    <2>8. QED
      BY <1>a, <2>4, <2>5, <2>6, <2>7 DEF Remembered, Rows
  <1>9. TurnedAway'
    BY SMTT(40) DEF TurnedAway, Claimers, RowFree, HoldsToken, Refused, Owner, Families, LocksHold
  <1>10. LoserFindsRotation'
    BY DEF LoserFindsRotation, TurnedAway, Remembered, SingleUse, LocksHold
  <1>11. QED
    BY <1>1, <1>2, <1>3, <1>4, <1>5, <1>6, <1>7, <1>8, <1>9, <1>10

LEMMA ClaimIInv ==
  ASSUME IInv, NEW r \in Requests, Claim(r)
  PROVE  IInv'
  <1> USE RequestsAssumption DEF IInv, Claim, Goto, TypeOK, Requests, Sessions, Tokens, Rows,
          Places, requestVars, tokenVars, sessionVars, history
  <1>1. TypeOK'
    BY DEF Running, Ended, Opening
  <1>2. Places'
    BY DEF Opening
  <1>3. Opening'
    BY DEF Opening, Families
  <1>4. Families'
    BY DEF Families, Opening
  <1>5. LocksHold'
    BY DEF LocksHold, Claimers, RowFree, SessionFree, HoldsToken, HoldsSession, Families
  <1>6. Revoking'
    BY DEF Revoking, Dead, Families, Opening, LocksHold
  <1>7. LoggedOut'
    BY DEF LoggedOut, Dead, Revoking, Families
  <1>8. Remembered'
    BY DEF Remembered, SingleUse, Families, LocksHold, Claimers
  <1>9. TurnedAway'
    BY DEF TurnedAway, Claimers, RowFree, HoldsToken, Refused, Owner, Families, LocksHold
  <1>10. LoserFindsRotation'
    BY DEF LoserFindsRotation, TurnedAway, Remembered, SingleUse, LocksHold
  <1>11. QED
    BY <1>1, <1>2, <1>3, <1>4, <1>5, <1>6, <1>7, <1>8, <1>9, <1>10

LEMMA LockSessionIInv ==
  ASSUME IInv, NEW r \in Requests, LockSession(r)
  PROVE  IInv'
  <1> USE RequestsAssumption DEF IInv, LockSession, Goto, TypeOK, Requests, Sessions, Tokens, Rows,
          Places, requestVars, tokenVars, sessionVars, history, AfterRefusal, Refused, Owner, Running
  <1>1. TypeOK'
    BY DEF Running, Ended, Opening
  <1>2. Places'
    BY DEF Opening
  <1>3. Opening'
    BY DEF Opening, Families
  <1>4. Families'
    BY DEF Families, Opening
  <1>5. LocksHold'
    BY DEF LocksHold, Claimers, RowFree, SessionFree, HoldsToken, HoldsSession, Families
  <1>6. Revoking'
    BY DEF Revoking, Dead, Families, Opening, LocksHold
  <1>7. LoggedOut'
    BY DEF LoggedOut, Dead, Revoking, Families
  <1>8. Remembered'
    BY DEF Remembered, SingleUse, Families, LocksHold, Claimers
  <1>9. TurnedAway'
    BY DEF TurnedAway, Claimers, RowFree, HoldsToken, Refused, Owner, Families, LocksHold
  <1>10. LoserFindsRotation'
    BY DEF LoserFindsRotation, TurnedAway, Remembered, SingleUse, LocksHold
  <1>11. QED
    BY <1>1, <1>2, <1>3, <1>4, <1>5, <1>6, <1>7, <1>8, <1>9, <1>10

LEMMA SwapIInv ==
  ASSUME IInv, NEW r \in Requests, Swap(r)
  PROVE  IInv'
  <1> USE RequestsAssumption DEF IInv, Swap, Goto, TypeOK, Requests, Sessions, Tokens, Rows,
          Places, requestVars, tokenVars, sessionVars, history, Replaced, RotationRecord, Owner, Running
  <1>a. /\ arg[r] \in 1..issued /\ arg[r] \in live /\ fam[arg[r]] \in active
       /\ sessTok[fam[arg[r]]] = arg[r] /\ minted[r] = 0 /\ r \in Claimers
    BY DEF LocksHold, Claimers, Families
  <1>b. Owner(arg[r]) = {fam[arg[r]]} /\ Rows' = Rows
    BY <1>a DEF Families
  <1>c. issued + 1 \in Tokens /\ issued' = issued + 1 /\ fam[issued + 1] = Nobody
    BY DEF Families
  <1>d. \A t \in 1..issued : fam'[t] = fam[t]
    BY <1>c
  <1>1. TypeOK'
    <2>1. pc' \in [Requests -> Running \union Ended \union {"idle"}]
      BY DEF Running
    <2>2. /\ minted' \in [Requests -> 0..MaxTokens] /\ issued' \in 0..MaxTokens
          /\ sessTok' \in [Sessions -> 0..MaxTokens]
          /\ fam' \in [Tokens -> Sessions \union {Nobody}]
      BY <1>c
    <2>3. live' \subseteq 1..issued' /\ rotated' \subseteq 1..issued' /\ live' \intersect rotated' = {}
      <3>1. live' = (live \ {arg[r]}) \union {issued + 1} /\ rotated' = rotated \union {arg[r]}
        OBVIOUS
      <3>2. issued + 1 \notin rotated /\ issued + 1 # arg[r]
        BY <1>a
      <3>3. 1..issued \subseteq 1..issued' /\ issued + 1 \in 1..issued'
        BY <1>c
      <3>4. live \intersect rotated = {} /\ rotated \subseteq 1..issued /\ live \subseteq 1..issued
        OBVIOUS
      <3> HIDE DEF IInv, TypeOK, Places, Swap
      <3>5. live' \intersect rotated' = {}
        BY <3>1, <3>2, <3>4
      <3>6. live' \subseteq 1..issued'
        BY <3>1, <3>3, <3>4
      <3>7. rotated' \subseteq 1..issued'
        BY <1>a, <3>1, <3>3, <3>4
      <3>8. QED
        BY <3>5, <3>6, <3>7
    <2>4. expired' \subseteq 1..issued' /\ aged' \subseteq 1..issued' /\ caught' \subseteq 1..issued'
      BY <1>c
    <2>5. active' \subseteq Rows'
      BY <1>b
    <2>6. QED
      BY <2>1, <2>2, <2>3, <2>4, <2>5
  <1>2. Places'
    BY SMTT(40) DEF Opening
  <1>3. Opening'
    BY DEF Opening, Families
  <1>4. Families'
    BY <1>a, <1>b, <1>c, <1>d DEF Families, Opening
  <1>5. LocksHold'
    BY <1>a, <1>b, <1>c, <1>d DEF LocksHold, Claimers, RowFree, SessionFree, HoldsToken, HoldsSession, Families
  <1>6. Revoking'
    <2>1. fam'[issued + 1] = fam[arg[r]] /\ live' \subseteq live \union {issued + 1}
      BY <1>a, <1>c
    <2>2. \A q \in Requests : q # r => pc'[q] = pc[q]
      OBVIOUS
    <2>3. /\ pc'[r] = "sweep" /\ active' = active /\ snap' = snap /\ held' = held
          /\ condemned' = condemned
      OBVIOUS
    <2>4. Revoking /\ live \subseteq 1..issued /\ fam[arg[r]] \in active
      BY <1>a
    <2> HIDE DEF IInv, TypeOK, Places, Swap, Requests, Sessions, Tokens, Owner
    <2>5. \A q \in Requests : condemned[q] \intersect active = {}
                                => \A t \in live' : fam'[t] \in condemned[q]
                                                       => t \in live /\ fam[t] = fam'[t]
      BY <1>d, <2>1, <2>4
    <2>6. \A q \in Requests :
             pc'[q] \in {"marking", "purge", "purging", "revokedAll", "drop", "done"} => pc[q] = pc'[q]
      BY <2>2, <2>3
    <2>7. ASSUME NEW q \in Requests
          PROVE  /\ condemned'[q] \subseteq Rows'
                 /\ pc'[q] = "marking" => condemned'[q] \subseteq snap'[q] \union held'[q]
                 /\ pc'[q] \in {"purge", "purging", "revokedAll", "drop", "done"}
                      => condemned'[q] \intersect active' = {}
      BY <1>b, <2>3, <2>4, <2>6 DEF Revoking
    <2>8. ASSUME NEW q \in Requests, pc'[q] \in {"purging", "drop"}
          PROVE  \A t \in live' : fam'[t] \in condemned'[q] => t \in snap'[q] \union held'[q]
      <3>1. pc[q] = pc'[q] /\ condemned[q] \intersect active = {}
        BY <2>4, <2>6, <2>8 DEF Revoking
      <3>2. \A t \in live : fam[t] \in condemned[q] => t \in snap[q] \union held[q]
        BY <2>4, <2>8, <3>1 DEF Revoking
      <3>3. QED
        BY <2>3, <2>5, <3>1, <3>2
    <2>9. ASSUME NEW q \in Requests, pc'[q] \in {"revokedAll", "done"}
          PROVE  Dead(condemned[q])'
      <3>1. Dead(condemned[q]) /\ condemned[q] \intersect active = {}
        BY <2>4, <2>6, <2>9 DEF Revoking
      <3>2. QED
        BY <2>3, <2>5, <3>1 DEF Dead
    <2>10. QED
      BY <2>3, <2>7, <2>8, <2>9 DEF Revoking
  <1>7. LoggedOut'
    BY SMTT(40), <1>a, <1>b, <1>c, <1>d DEF LoggedOut, Dead, Revoking, Families
  <1>8. Remembered'
    <2>1. \A q \in Refreshes : pc[q] # "idle" => arg[q] \in 1..issued
      OBVIOUS
    <2>2. SingleUse'
      BY <1>a DEF Remembered, SingleUse
    <2>3. \A q \in Refreshes : minted'[q] # 0 => arg[q] \notin live'
      BY <1>a, <1>c DEF Remembered
    <2>4. \A q \in Refreshes : minted'[q] # 0 => sessTok'[fam'[arg[q]]] # arg[q]
      <3> SUFFICES ASSUME NEW q \in Refreshes, minted'[q] # 0
                   PROVE  sessTok'[fam'[arg[q]]] # arg[q]
        OBVIOUS
      <3>1. arg[q] \in 1..issued /\ fam'[arg[q]] = fam[arg[q]]
        BY <1>a, <1>d
      <3>2. CASE fam[arg[q]] = fam[arg[r]]
        BY <1>a, <1>b, <1>c, <3>1, <3>2
      <3>3. CASE fam[arg[q]] # fam[arg[r]]
        <4>1. q # r /\ minted[q] # 0
          BY <3>3
        <4>2. sessTok[fam[arg[q]]] # arg[q]
          BY <4>1 DEF Remembered
        <4>3. sessTok'[fam[arg[q]]] = sessTok[fam[arg[q]]]
          BY <1>b, <3>1, <3>3, <4>1
        <4>4. QED
          BY <3>1, <4>2, <4>3
      <3>4. QED
        BY <3>2, <3>3
    <2>5. \A q \in Refreshes : minted'[q] # 0 => arg[q] \in rotated' \union caught \union aged
      BY <1>a DEF Remembered
    <2>6. \A q \in Requests : pc'[q] = "drop" => \A t \in snap'[q] :
             t \in 1..issued' /\ fam'[t] \in Rows' \ active' /\ sessTok'[fam'[t]] = t
      <3> SUFFICES ASSUME NEW q \in Requests, pc[q] = "drop", NEW t \in snap[q]
                   PROVE  t \in 1..issued' /\ fam'[t] \in Rows' \ active' /\ sessTok'[fam'[t]] = t
        OBVIOUS
      <3>1. t \in 1..issued /\ fam[t] \in Rows \ active /\ sessTok[fam[t]] = t
        BY DEF Remembered
      <3>2. fam[t] # fam[arg[r]] /\ fam'[t] = fam[t]
        BY <1>a, <1>d, <3>1
      <3>3. sessTok'[fam[t]] = sessTok[fam[t]]
        BY <1>b, <3>1, <3>2
      <3>4. QED
        BY <1>b, <1>c, <3>1, <3>2, <3>3
    <2>7. QED
      <3>1. \A q \in Refreshes : arg'[q] = arg[q]
        OBVIOUS
      <3> HIDE DEF IInv, Swap, TypeOK, Places, Requests, Tokens, Rows, Goto
      <3>2. \A q \in Refreshes : minted'[q] # 0 =>
              /\ arg'[q] \notin live'
              /\ sessTok'[fam'[arg'[q]]] # arg'[q]
              /\ arg'[q] \in rotated' \union caught' \union aged'
        <4>1. caught' = caught /\ aged' = aged
          BY Zenon DEF Swap, history
        <4>2. QED
          BY <2>3, <2>4, <2>5, <3>1, <4>1
      <3>3. QED
        BY <2>2, <2>6, <3>2 DEF Remembered
  <1>9. TurnedAway'
    BY SMTT(40), <1>a, <1>b, <1>c, <1>d DEF TurnedAway, Claimers, RowFree, HoldsToken, Refused, Owner, Families, LocksHold
  <1>10. LoserFindsRotation'
    BY SMTT(40), <1>a, <1>b, <1>c, <1>d DEF LoserFindsRotation, TurnedAway, Remembered, SingleUse, LocksHold
  <1>11. QED
    BY <1>1, <1>2, <1>3, <1>4, <1>5, <1>6, <1>7, <1>8, <1>9, <1>10

LEMMA SweepIInv ==
  ASSUME IInv, NEW r \in Requests, Sweep(r)
  PROVE  IInv'
  <1> USE RequestsAssumption DEF IInv, Sweep, Goto, TypeOK, Requests, Sessions, Tokens, Rows,
          Places, requestVars, tokenVars, sessionVars, history
  <1>1. TypeOK'
    BY ZenonT(60) DEF Running, Ended, Opening
  <1>2. Places'
    BY DEF Opening
  <1>3. Opening'
    BY DEF Opening, Families
  <1>4. Families'
    BY DEF Families, Opening
  <1>5. LocksHold'
    BY SMTT(40) DEF LocksHold, Claimers, RowFree, SessionFree, HoldsToken, HoldsSession, Families
  <1>6. Revoking'
    BY SMTT(40) DEF Revoking, Dead, Families, Opening, LocksHold
  <1>7. LoggedOut'
    BY DEF LoggedOut, Dead, Revoking, Families
  <1>8. Remembered'
    BY DEF Remembered, SingleUse, Families, LocksHold, Claimers
  <1>9. TurnedAway'
    BY SMTT(40) DEF TurnedAway, Claimers, RowFree, HoldsToken, Refused, Owner, Families, LocksHold
  <1>10. LoserFindsRotation'
    BY ZenonT(60) DEF LoserFindsRotation, TurnedAway, Remembered, SingleUse, LocksHold
  <1>11. QED
    BY <1>1, <1>2, <1>3, <1>4, <1>5, <1>6, <1>7, <1>8, <1>9, <1>10

LEMMA LogoutClaimIInv ==
  ASSUME IInv, NEW r \in Requests, LogoutClaim(r)
  PROVE  IInv'
  <1> USE RequestsAssumption DEF IInv, LogoutClaim, Goto, TypeOK, Requests, Sessions, Tokens, Rows,
          Places, requestVars, tokenVars, sessionVars, history
  <1>1. TypeOK'
    BY DEF Running, Ended, Opening
  <1>2. Places'
    BY DEF Opening
  <1>3. Opening'
    BY DEF Opening, Families
  <1>4. Families'
    BY DEF Families, Opening
  <1>5. LocksHold'
    BY DEF LocksHold, Claimers, RowFree, SessionFree, HoldsToken, HoldsSession, Families
  <1>6. Revoking'
    BY DEF Revoking, Dead, Families, Opening, LocksHold
  <1>7. LoggedOut'
    BY DEF LoggedOut, Dead, Revoking, Families
  <1>8. Remembered'
    BY DEF Remembered, SingleUse, Families, LocksHold, Claimers
  <1>9. TurnedAway'
    BY DEF TurnedAway, Claimers, RowFree, HoldsToken, Refused, Owner, Families, LocksHold
  <1>10. LoserFindsRotation'
    BY DEF LoserFindsRotation, TurnedAway, Remembered, SingleUse, LocksHold
  <1>11. QED
    BY <1>1, <1>2, <1>3, <1>4, <1>5, <1>6, <1>7, <1>8, <1>9, <1>10

LEMMA LogoutEndIInv ==
  ASSUME IInv, NEW r \in Requests, LogoutEnd(r)
  PROVE  IInv'
  <1> USE RequestsAssumption DEF IInv, LogoutEnd, Goto, TypeOK, Requests, Sessions, Tokens, Rows,
          Places, requestVars, tokenVars, sessionVars, history, EndedBy, Owner
  <1>1. TypeOK'
    BY ZenonT(60) DEF Running, Ended, Opening
  <1>2. Places'
    BY DEF Opening
  <1>3. Opening'
    BY DEF Opening, Families
  <1>4. Families'
    BY DEF Families, Opening
  <1>5. LocksHold'
    BY SMTT(60) DEF LocksHold, Claimers, RowFree, SessionFree, HoldsToken, HoldsSession, Families
  <1>6. Revoking'
    BY DEF Revoking, Dead, Families, Opening, LocksHold
  <1>7. LoggedOut'
    <2>1. /\ arg[r] \in 1..issued /\ arg[r] \in live /\ fam[arg[r]] \in Sessions
      BY DEF LocksHold, Claimers
    <2>2. fam[arg[r]] \in Owner(arg[r]) /\ \A t \in live : fam[t] = fam[arg[r]] => t = arg[r]
      BY <2>1 DEF Families
    <2>3. Dead({fam[arg[r]]})'
      BY <2>2 DEF Dead
    <2>4. \A q \in Logouts \ {r} : pc'[q] = "revoked" => Dead({fam[arg[q]]})'
      BY DEF Dead, LoggedOut
    <2>5. QED
      BY <2>3, <2>4 DEF LoggedOut
  <1>8. Remembered'
    BY DEF Remembered, SingleUse, Families, LocksHold, Claimers
  <1>9. TurnedAway'
    BY DEF TurnedAway, Claimers, RowFree, HoldsToken, Refused, Owner, Families, LocksHold
  <1>10. LoserFindsRotation'
    BY DEF LoserFindsRotation, TurnedAway, Remembered, SingleUse, LocksHold
  <1>11. QED
    BY <1>1, <1>2, <1>3, <1>4, <1>5, <1>6, <1>7, <1>8, <1>9, <1>10

LEMMA DetectReuseIInv ==
  ASSUME IInv, NEW r \in Requests, DetectReuse(r)
  PROVE  IInv'
  <1> USE RequestsAssumption DEF IInv, DetectReuse, Goto, TypeOK, Requests, Sessions, Tokens, Rows,
          Places, requestVars, tokenVars, sessionVars, history, Running
  <1>1. TypeOK'
    <2>1. pc' \in [Requests -> Running \union Ended \union {"idle"}]
      <3>1. pc' = [pc EXCEPT ![r] = "mark"] \/ pc' = [pc EXCEPT ![r] = "invalid"]
        OBVIOUS
      <3>2. pc \in [Requests -> Running \union Ended \union {"idle"}]
        OBVIOUS
      <3> HIDE DEF IInv, TypeOK, Places, DetectReuse
      <3>3. QED
        BY <3>1, <3>2 DEF Ended
    <2>2. condemned' \in [Requests -> SUBSET Sessions]
      <3>1. Rows \subseteq Sessions
        OBVIOUS
      <3>2. condemned' = condemned \/ condemned' = [condemned EXCEPT ![r] = Rows]
        OBVIOUS
      <3>3. condemned \in [Requests -> SUBSET Sessions]
        OBVIOUS
      <3> HIDE DEF IInv, TypeOK, Places, DetectReuse
      <3>4. QED
        BY <3>1, <3>2, <3>3
    <2>3. rotated' \subseteq rotated /\ caught' \subseteq caught \union rotated
      OBVIOUS
    <2>4. QED
      BY <2>1, <2>2, <2>3
  <1>2. Places'
    BY SMTT(40) DEF Opening
  <1>3. Opening'
    BY DEF Opening, Families
  <1>4. Families'
    BY DEF Families, Opening
  <1>5. LocksHold'
    <2>1. \A q \in Requests : q # r => pc'[q] = pc[q]
      OBVIOUS
    <2>2. /\ pc'[r] \in {"mark", "invalid"} /\ pc[r] = "reuse"
          /\ UNCHANGED <<arg, snap, held, live, active, fam, sessTok>>
      OBVIOUS
    <2>3. Claimers' = Claimers
      BY <2>1, <2>2 DEF Claimers
    <2>4. LocksHold /\ Refreshes \subseteq Requests
      OBVIOUS
    <2> HIDE DEF IInv, DetectReuse, TypeOK, Places, Requests, Tokens
    <2>5. QED
      BY <2>1, <2>2, <2>3, <2>4 DEF LocksHold
  <1>6. Revoking'
    <2>1. \A q \in Requests \ {r} : pc'[q] = pc[q] /\ condemned'[q] = condemned[q]
      OBVIOUS
    <2>2. pc'[r] \in {"mark", "invalid"} /\ condemned'[r] \subseteq Rows
      BY DEF Revoking
    <2>3. live' = live /\ active' = active /\ fam' = fam /\ snap' = snap /\ Rows' = Rows
      OBVIOUS
    <2>4. \A q \in Requests \ {r} : pc'[q] \in {"revokedAll", "done"} => Dead(condemned[q])'
      BY <2>1, <2>3 DEF Revoking, Dead
    <2>5. held' = held /\ Revoking
      OBVIOUS
    <2> HIDE DEF IInv, DetectReuse, TypeOK, Places, Requests, Tokens
    <2>6. QED
      BY <2>1, <2>2, <2>3, <2>4, <2>5 DEF Revoking
  <1>7. LoggedOut'
    BY DEF LoggedOut, Dead, Revoking, Families
  <1>8. Remembered'
    BY DEF Remembered, SingleUse, Families, LocksHold, Claimers
  <1>9. TurnedAway'
    BY DEF TurnedAway, Claimers, RowFree, HoldsToken, Refused, Owner, Families, LocksHold
  <1>10. LoserFindsRotation'
    BY DEF LoserFindsRotation, TurnedAway, Remembered, SingleUse, LocksHold
  <1>11. QED
    BY <1>1, <1>2, <1>3, <1>4, <1>5, <1>6, <1>7, <1>8, <1>9, <1>10

LEMMA StartResetIInv ==
  ASSUME IInv, NEW r \in Requests, StartReset(r)
  PROVE  IInv'
  <1> USE RequestsAssumption DEF IInv, StartReset, Goto, TypeOK, Requests, Sessions, Tokens, Rows,
          Places, requestVars, tokenVars, sessionVars, history
  <1>1. TypeOK'
    BY DEF Running, Ended, Opening
  <1>2. Places'
    BY DEF Opening
  <1>3. Opening'
    BY DEF Opening, Families
  <1>4. Families'
    BY DEF Families, Opening
  <1>5. LocksHold'
    BY DEF LocksHold, Claimers, RowFree, SessionFree, HoldsToken, HoldsSession, Families
  <1>6. Revoking'
    BY DEF Revoking, Dead, Families, Opening, LocksHold
  <1>7. LoggedOut'
    BY DEF LoggedOut, Dead, Revoking, Families
  <1>8. Remembered'
    BY DEF Remembered, SingleUse, Families, LocksHold, Claimers
  <1>9. TurnedAway'
    BY DEF TurnedAway, Claimers, RowFree, HoldsToken, Refused, Owner, Families, LocksHold
  <1>10. LoserFindsRotation'
    BY DEF LoserFindsRotation, TurnedAway, Remembered, SingleUse, LocksHold
  <1>11. QED
    BY <1>1, <1>2, <1>3, <1>4, <1>5, <1>6, <1>7, <1>8, <1>9, <1>10

LEMMA BeginMarkIInv ==
  ASSUME IInv, NEW r \in Requests, BeginMark(r)
  PROVE  IInv'
  <1> USE RequestsAssumption DEF IInv, BeginMark, Goto, TypeOK, Requests, Sessions, Tokens, Rows,
          Places, requestVars, tokenVars, sessionVars, history
  <1>1. TypeOK'
    BY DEF Running, Ended, Opening
  <1>2. Places'
    BY DEF Opening
  <1>3. Opening'
    BY DEF Opening, Families
  <1>4. Families'
    BY DEF Families, Opening
  <1>5. LocksHold'
    BY DEF LocksHold, Claimers, RowFree, SessionFree, HoldsToken, HoldsSession, Families
  <1>6. Revoking'
    BY DEF Revoking, Dead, Families, Opening, LocksHold
  <1>7. LoggedOut'
    BY DEF LoggedOut, Dead, Revoking, Families
  <1>8. Remembered'
    BY DEF Remembered, SingleUse, Families, LocksHold, Claimers
  <1>9. TurnedAway'
    BY DEF TurnedAway, Claimers, RowFree, HoldsToken, Refused, Owner, Families, LocksHold
  <1>10. LoserFindsRotation'
    BY DEF LoserFindsRotation, TurnedAway, Remembered, SingleUse, LocksHold
  <1>11. QED
    BY <1>1, <1>2, <1>3, <1>4, <1>5, <1>6, <1>7, <1>8, <1>9, <1>10

LEMMA MarkRowIInv ==
  ASSUME IInv, NEW r \in Requests, NEW s \in Sessions, MarkRow(r, s)
  PROVE  IInv'
  <1> USE RequestsAssumption DEF IInv, MarkRow, Goto, TypeOK, Requests, Sessions, Tokens, Rows,
          Places, requestVars, tokenVars, sessionVars, history
  <1>1. TypeOK'
    BY DEF Running, Ended, Opening
  <1>2. Places'
    BY DEF Opening
  <1>3. Opening'
    BY DEF Opening, Families
  <1>4. Families'
    BY DEF Families, Opening
  <1>5. LocksHold'
    BY DEF LocksHold, Claimers, RowFree, SessionFree, HoldsToken, HoldsSession, Families
  <1>6. Revoking'
    BY DEF Revoking, Dead, Families, Opening, LocksHold
  <1>7. LoggedOut'
    BY DEF LoggedOut, Dead, Revoking, Families
  <1>8. Remembered'
    BY DEF Remembered, SingleUse, Families, LocksHold, Claimers
  <1>9. TurnedAway'
    BY DEF TurnedAway, Claimers, RowFree, HoldsToken, Refused, Owner, Families, LocksHold
  <1>10. LoserFindsRotation'
    BY DEF LoserFindsRotation, TurnedAway, Remembered, SingleUse, LocksHold
  <1>11. QED
    BY <1>1, <1>2, <1>3, <1>4, <1>5, <1>6, <1>7, <1>8, <1>9, <1>10

LEMMA EndMarkIInv ==
  ASSUME IInv, NEW r \in Requests, EndMark(r)
  PROVE  IInv'
  <1> USE RequestsAssumption DEF IInv, EndMark, Goto, TypeOK, Requests, Sessions, Tokens, Rows,
          Places, requestVars, tokenVars, sessionVars, history, KeptLocks
  <1>1. TypeOK'
    <2>1. held' = [held EXCEPT ![r] = {}] /\ active' \subseteq active /\ Rows' = Rows
      OBVIOUS
    <2>2. \A s \in held[r] : sessTok[s] \in Tokens
      BY DEF LocksHold, Families
    <2>3. snap' \in [Requests -> SUBSET (Sessions \union Tokens)]
      BY <2>2
    <2>4. pc' \in [Requests -> Running \union Ended \union {"idle"}]
      <3>1. pc' = [pc EXCEPT ![r] = "drop"] \/ pc' = [pc EXCEPT ![r] = "purge"]
        BY Zenon
      <3>2. {"drop", "purge"} \subseteq Running
        BY DEF Running
      <3>3. pc \in [Requests -> Running \union Ended \union {"idle"}]
        OBVIOUS
      <3> HIDE DEF IInv, EndMark, Goto, TypeOK, Requests, Tokens, Rows, Places
      <3>4. QED
        BY <3>1, <3>2, <3>3
    <2>5. QED
      BY <2>1, <2>3, <2>4
  <1>2. Places'
    BY DEF Opening
  <1>3. Opening'
    BY DEF Opening, Families
  <1>4. Families'
    BY DEF Families, Opening
  <1>5. LocksHold'
    BY DEF LocksHold, Claimers, RowFree, SessionFree, HoldsToken, HoldsSession, Families
  <1>6. Revoking'
    BY DEF Revoking, Dead, Families, Opening, LocksHold
  <1>7. LoggedOut'
    BY DEF LoggedOut, Dead, Revoking, Families
  <1>8. Remembered'
    BY DEF Remembered, SingleUse, Families, LocksHold, Claimers
  <1>9. TurnedAway'
    BY DEF TurnedAway, Claimers, RowFree, HoldsToken, Refused, Owner, Families, LocksHold
  <1>10. LoserFindsRotation'
    BY DEF LoserFindsRotation, TurnedAway, Remembered, SingleUse, LocksHold
  <1>11. QED
    BY <1>1, <1>2, <1>3, <1>4, <1>5, <1>6, <1>7, <1>8, <1>9, <1>10

LEMMA BeginPurgeIInv ==
  ASSUME IInv, NEW r \in Requests, BeginPurge(r)
  PROVE  IInv'
  <1> USE RequestsAssumption DEF IInv, BeginPurge, Goto, TypeOK, Requests, Sessions, Tokens, Rows,
          Places, requestVars, tokenVars, sessionVars, history
  <1>1. TypeOK'
    BY DEF Running, Ended, Opening
  <1>2. Places'
    BY DEF Opening
  <1>3. Opening'
    BY DEF Opening, Families
  <1>4. Families'
    BY DEF Families, Opening
  <1>5. LocksHold'
    <2>1. \A q \in Requests : q # r => pc'[q] = pc[q] /\ snap'[q] = snap[q]
      OBVIOUS
    <2>2. /\ pc'[r] = "purging" /\ pc[r] = "purge" /\ snap'[r] \subseteq Tokens
          /\ UNCHANGED <<arg, held, live, active, fam, sessTok>>
      <3>1. 1..issued \subseteq Tokens /\ snap'[r] = live
        BY SMT
      <3>2. pc'[r] = "purging" /\ pc[r] = "purge"
        BY SMT
      <3>3. UNCHANGED <<arg, held, live, active, fam, sessTok>>
        BY Zenon
      <3>4. live \subseteq 1..issued
        BY Zenon
      <3> HIDE DEF IInv, BeginPurge, TypeOK, Places, Requests, Tokens, Goto, Rows, tokenVars
      <3>5. QED
        BY <3>1, <3>2, <3>3, <3>4
    <2>3. Claimers' = Claimers
      BY <2>1, <2>2 DEF Claimers
    <2>4. LocksHold /\ Refreshes \subseteq Requests /\ held[r] = {}
      BY DEF LocksHold
    <2> HIDE DEF IInv, BeginPurge, TypeOK, Places, Requests, Tokens
    <2>5. QED
      BY <2>1, <2>2, <2>3, <2>4 DEF LocksHold
  <1>6. Revoking'
    BY DEF Revoking, Dead, Families, Opening, LocksHold
  <1>7. LoggedOut'
    BY DEF LoggedOut, Dead, Revoking, Families
  <1>8. Remembered'
    BY DEF Remembered, SingleUse, Families, LocksHold, Claimers
  <1>9. TurnedAway'
    BY DEF TurnedAway, Claimers, RowFree, HoldsToken, Refused, Owner, Families, LocksHold
  <1>10. LoserFindsRotation'
    BY DEF LoserFindsRotation, TurnedAway, Remembered, SingleUse, LocksHold
  <1>11. QED
    BY <1>1, <1>2, <1>3, <1>4, <1>5, <1>6, <1>7, <1>8, <1>9, <1>10

LEMMA PurgeRowIInv ==
  ASSUME IInv, NEW r \in Requests, NEW t \in Tokens, PurgeRow(r, t)
  PROVE  IInv'
  <1> USE RequestsAssumption DEF IInv, PurgeRow, Goto, TypeOK, Requests, Sessions, Tokens, Rows,
          Places, requestVars, tokenVars, sessionVars, history
  <1>1. TypeOK'
    BY DEF Running, Ended, Opening
  <1>2. Places'
    BY DEF Opening
  <1>3. Opening'
    BY DEF Opening, Families
  <1>4. Families'
    BY DEF Families, Opening
  <1>5. LocksHold'
    <2>1. \A q \in Requests : q # r => snap'[q] = snap[q] /\ held'[q] = held[q]
      OBVIOUS
    <2>2. /\ snap'[r] \subseteq snap[r] /\ held'[r] \subseteq held[r] \union {t}
          /\ pc[r] = "purging"
          /\ UNCHANGED <<pc, arg, live, active, fam, sessTok>>
      OBVIOUS
    <2>3. Claimers' = Claimers
      BY <2>2 DEF Claimers
    <2>4. \A q \in Claimers : arg[q] # t
      BY DEF Claimers, RowFree, HoldsToken
    <2>5. LocksHold /\ Refreshes \subseteq Requests
      OBVIOUS
    <2> HIDE DEF IInv, PurgeRow, TypeOK, Places, Requests, Tokens
    <2>6. QED
      BY <2>1, <2>2, <2>3, <2>4, <2>5 DEF LocksHold
  <1>6. Revoking'
    BY DEF Revoking, Dead, Families, Opening, LocksHold
  <1>7. LoggedOut'
    BY DEF LoggedOut, Dead, Revoking, Families
  <1>8. Remembered'
    BY DEF Remembered, SingleUse, Families, LocksHold, Claimers
  <1>9. TurnedAway'
    BY DEF TurnedAway, Claimers, RowFree, HoldsToken, Refused, Owner, Families, LocksHold
  <1>10. LoserFindsRotation'
    BY DEF LoserFindsRotation, TurnedAway, Remembered, SingleUse, LocksHold
  <1>11. QED
    BY <1>1, <1>2, <1>3, <1>4, <1>5, <1>6, <1>7, <1>8, <1>9, <1>10

LEMMA EndPurgeIInv ==
  ASSUME IInv, NEW r \in Requests, EndPurge(r)
  PROVE  IInv'
  <1> USE RequestsAssumption DEF IInv, EndPurge, Goto, TypeOK, Requests, Sessions, Tokens, Rows,
          Places, requestVars, tokenVars, sessionVars, history
  <1>1. TypeOK'
    BY ZenonT(60) DEF Running, Ended, Opening
  <1>2. Places'
    BY DEF Opening
  <1>3. Opening'
    BY DEF Opening, Families
  <1>4. Families'
    BY DEF Families, Opening
  <1>5. LocksHold'
    BY DEF LocksHold, Claimers, RowFree, SessionFree, HoldsToken, HoldsSession, Families
  <1>6. Revoking'
    BY SMTT(40) DEF Revoking, Dead, Families, Opening, LocksHold
  <1>7. LoggedOut'
    BY DEF LoggedOut, Dead, Revoking, Families
  <1>8. Remembered'
    BY DEF Remembered, SingleUse, Families, LocksHold, Claimers
  <1>9. TurnedAway'
    BY DEF TurnedAway, Claimers, RowFree, HoldsToken, Refused, Owner, Families, LocksHold
  <1>10. LoserFindsRotation'
    BY DEF LoserFindsRotation, TurnedAway, Remembered, SingleUse, LocksHold
  <1>11. QED
    BY <1>1, <1>2, <1>3, <1>4, <1>5, <1>6, <1>7, <1>8, <1>9, <1>10

LEMMA StartRevokeIInv ==
  ASSUME IInv, NEW r \in Requests, NEW S \in SUBSET Sessions, StartRevoke(r, S)
  PROVE  IInv'
  <1> USE RequestsAssumption DEF IInv, StartRevoke, Goto, TypeOK, Requests, Sessions, Tokens, Rows,
          Places, requestVars, tokenVars, sessionVars, history
  <1>1. TypeOK'
    BY DEF Running, Ended, Opening
  <1>2. Places'
    BY DEF Opening
  <1>3. Opening'
    BY DEF Opening, Families
  <1>4. Families'
    BY DEF Families, Opening
  <1>5. LocksHold'
    BY DEF LocksHold, Claimers, RowFree, SessionFree, HoldsToken, HoldsSession, Families
  <1>6. Revoking'
    BY DEF Revoking, Dead, Families, Opening, LocksHold
  <1>7. LoggedOut'
    BY DEF LoggedOut, Dead, Revoking, Families
  <1>8. Remembered'
    BY DEF Remembered, SingleUse, Families, LocksHold, Claimers
  <1>9. TurnedAway'
    BY DEF TurnedAway, Claimers, RowFree, HoldsToken, Refused, Owner, Families, LocksHold
  <1>10. LoserFindsRotation'
    BY DEF LoserFindsRotation, TurnedAway, Remembered, SingleUse, LocksHold
  <1>11. QED
    BY <1>1, <1>2, <1>3, <1>4, <1>5, <1>6, <1>7, <1>8, <1>9, <1>10

LEMMA DropTokenIInv ==
  ASSUME IInv, NEW r \in Requests, NEW t \in Tokens, DropToken(r, t)
  PROVE  IInv'
  <1> USE RequestsAssumption DEF IInv, DropToken, Goto, TypeOK, Requests, Sessions, Tokens, Rows,
          Places, requestVars, tokenVars, sessionVars, history
  <1>1. TypeOK'
    BY DEF Running, Ended, Opening
  <1>2. Places'
    BY DEF Opening
  <1>3. Opening'
    BY DEF Opening, Families
  <1>4. Families'
    BY DEF Families, Opening
  <1>5. LocksHold'
    BY DEF LocksHold, Claimers, RowFree, SessionFree, HoldsToken, HoldsSession, Families
  <1>6. Revoking'
    <2>1. \A q \in Requests : q # r => pc'[q] = pc[q] /\ snap'[q] = snap[q]
      OBVIOUS
    <2>2. /\ pc'[r] = (IF snap[r] = {t} THEN "done" ELSE "drop") /\ pc[r] = "drop"
          /\ snap'[r] = snap[r] \ {t} /\ live' = live \ {t} /\ held[r] = {}
          /\ UNCHANGED <<arg, held, active, fam, sessTok, condemned>>
      BY DEF LocksHold
    <2>3. Revoking /\ Rows' = Rows
      OBVIOUS
    <2> HIDE DEF IInv, DropToken, TypeOK, Places, Requests, Tokens, Rows
    <2>4. ASSUME NEW q \in Requests, q # r
          PROVE  /\ pc'[q] \in {"purging", "drop"}
                      => \A u \in live' : fam'[u] \in condemned'[q] => u \in snap'[q] \union held'[q]
                 /\ pc'[q] \in {"revokedAll", "done"} => Dead(condemned[q])'
      BY <2>1, <2>2, <2>3, <2>4 DEF Revoking, Dead
    <2>5. condemned[r] \intersect active = {}
      BY <2>2, <2>3 DEF Revoking
    <2>6. \A u \in live' : fam[u] \in condemned[r] => u \in snap'[r]
      BY <2>2, <2>3 DEF Revoking
    <2>7. pc'[r] = "done" => Dead(condemned[r])'
      BY <2>2, <2>5, <2>6 DEF Dead
    <2>8. QED
      BY <2>1, <2>2, <2>3, <2>4, <2>5, <2>6, <2>7 DEF Revoking
  <1>7. LoggedOut'
    BY DEF LoggedOut, Dead, Revoking, Families
  <1>8. Remembered'
    BY DEF Remembered, SingleUse, Families, LocksHold, Claimers
  <1>9. TurnedAway'
    BY DEF TurnedAway, Claimers, RowFree, HoldsToken, Refused, Owner, Families, LocksHold
  <1>10. LoserFindsRotation'
    BY DEF LoserFindsRotation, TurnedAway, Remembered, SingleUse, LocksHold
  <1>11. QED
    BY <1>1, <1>2, <1>3, <1>4, <1>5, <1>6, <1>7, <1>8, <1>9, <1>10

LEMMA LeaveSessionIInv ==
  ASSUME IInv, NEW r \in Requests, LeaveSession(r)
  PROVE  IInv'
  <1> USE RequestsAssumption DEF IInv, LeaveSession, TypeOK, Requests, Sessions, Tokens, Rows,
          Places, requestVars, tokenVars, sessionVars, history
  <1>1. TypeOK'
    BY DEF Running, Ended
  <1>2. Places' /\ Opening' /\ Families'
    BY DEF Opening, Families
  <1>3. LocksHold'
    BY DEF LocksHold, Claimers, SessionFree, HoldsSession, Families
  <1>4. Revoking' /\ LoggedOut'
    BY DEF Revoking, LoggedOut, Dead
  <1>5. Remembered' /\ LoserFindsRotation'
    BY DEF Remembered, SingleUse, LoserFindsRotation
  <1>6. TurnedAway'
    BY DEF TurnedAway, Claimers
  <1>7. QED
    BY <1>1, <1>2, <1>3, <1>4, <1>5, <1>6

LEMMA FailIInv ==
  ASSUME IInv, NEW r \in Requests, Fail(r)
  PROVE  IInv'
  <1> USE RequestsAssumption DEF IInv, Fail, Goto, TypeOK, Requests, Sessions, Tokens, Rows,
          Places, requestVars, tokenVars, sessionVars, history, Running
  <1>1. TypeOK'
    BY DEF Running, Ended, Opening
  <1>2. Places'
    BY DEF Opening
  <1>3. Opening'
    BY DEF Opening, Families
  <1>4. Families'
    BY DEF Families, Opening
  <1>5. LocksHold'
    BY DEF LocksHold, Claimers, RowFree, SessionFree, HoldsToken, HoldsSession, Families
  <1>6. Revoking'
    BY DEF Revoking, Dead, Families, Opening, LocksHold
  <1>7. LoggedOut'
    BY DEF LoggedOut, Dead, Revoking, Families
  <1>8. Remembered'
    BY DEF Remembered, SingleUse, Families, LocksHold, Claimers
  <1>9. TurnedAway'
    BY DEF TurnedAway, Claimers, RowFree, HoldsToken, Refused, Owner, Families, LocksHold
  <1>10. LoserFindsRotation'
    BY DEF LoserFindsRotation, TurnedAway, Remembered, SingleUse, LocksHold
  <1>11. QED
    BY <1>1, <1>2, <1>3, <1>4, <1>5, <1>6, <1>7, <1>8, <1>9, <1>10

LEMMA ExpireIInv ==
  ASSUME IInv, NEW t \in Tokens, Expire(t)
  PROVE  IInv'
  <1> USE RequestsAssumption DEF IInv, Expire, TypeOK, Rows, requestVars, sessionVars, history
  <1>1. TypeOK'
    OBVIOUS
  <1>2. TurnedAway'
    BY DEF TurnedAway, Claimers
  <1>3. QED
    BY <1>1, <1>2 DEF Places, Opening, Families, LocksHold, Claimers, Revoking, LoggedOut,
       Dead, Remembered, SingleUse, LoserFindsRotation

LEMMA HourPassesIInv ==
  ASSUME IInv, HourPasses
  PROVE  IInv'
  <1> USE RequestsAssumption DEF IInv, HourPasses, TypeOK, Rows, requestVars, sessionVars, history
  <1>1. TypeOK'
    OBVIOUS
  <1>2. Remembered'
    BY DEF Remembered, SingleUse
  <1>3. LoserFindsRotation'
    BY DEF LoserFindsRotation
  <1>4. QED
    BY <1>1, <1>2, <1>3 DEF Places, Opening, Families, LocksHold, Claimers, Revoking, LoggedOut,
       Dead, TurnedAway

LEMMA StepIInv == IInv /\ [Next]_vars => IInv'
  <1> SUFFICES ASSUME IInv, [Next]_vars PROVE IInv'
    OBVIOUS
  <1>1. CASE UNCHANGED vars
    BY <1>1 DEF vars, requestVars, tokenVars, sessionVars, history, IInv, TypeOK, Rows, Places,
       Opening, Families, LocksHold, Claimers, Revoking, LoggedOut, Dead, Remembered, SingleUse,
       TurnedAway, LoserFindsRotation
  <1>2. ASSUME NEW r \in Requests, LoginToken(r) \/ StartReset(r) \/ LeaveSession(r) \/ Fail(r)
        PROVE  IInv'
    BY <1>2, LoginTokenIInv, StartResetIInv, LeaveSessionIInv, FailIInv
  <1>3. ASSUME NEW r \in Requests, Work(r)
        PROVE  IInv'
    BY <1>3, LoginSessionIInv, ClaimIInv, LockSessionIInv, SwapIInv, SweepIInv, LogoutClaimIInv,
       LogoutEndIInv, DetectReuseIInv, BeginMarkIInv, MarkRowIInv, EndMarkIInv, BeginPurgeIInv,
       PurgeRowIInv, EndPurgeIInv, DropTokenIInv DEF Work
  <1>4. ASSUME NEW r \in Requests, NEW t \in Tokens, Present(r, t)
        PROVE  IInv'
    BY <1>4, PresentIInv
  <1>5. ASSUME NEW r \in Requests, NEW S \in SUBSET Sessions, StartRevoke(r, S)
        PROVE  IInv'
    BY <1>5, StartRevokeIInv
  <1>6. ASSUME NEW t \in Tokens, Expire(t)
        PROVE  IInv'
    BY <1>6, ExpireIInv
  <1>7. CASE HourPasses
    BY <1>7, HourPassesIInv
  <1>8. QED
    BY <1>1, <1>2, <1>3, <1>4, <1>5, <1>6, <1>7 DEF Next

THEOREM Invariance == Spec => []IInv
  BY InitIInv, StepIInv, PTL DEF Spec

\* The tables and requests are well typed; no live token is in rotated_tokens.
THEOREM TypeCorrect == Spec => []TypeOK
  <1>1. IInv => TypeOK
    BY DEF IInv
  <1>2. QED
    BY <1>1, Invariance, PTL

\* A token buys at most one refresh (rotateRefreshToken).
THEOREM UsedOnce == Spec => []SingleUse
  <1>1. IInv => SingleUse
    BY DEF IInv, Remembered
  <1>2. QED
    BY <1>1, Invariance, PTL

\* No session has two live tokens (rotateRefreshToken).
THEOREM OneToken == Spec => []OneLiveToken
  <1>1. IInv => OneLiveToken
    <2> SUFFICES ASSUME IInv, NEW t \in live, NEW u \in live, fam[t] = fam[u], fam[t] # Nobody
                 PROVE  t = u
      BY DEF OneLiveToken
    <2>1. fam[t] \in Sessions
      BY RequestsAssumption DEF IInv, TypeOK, Tokens
    <2>2. QED
      BY <2>1 DEF IInv, Families
  <1>2. QED
    BY <1>1, Invariance, PTL

\* An answered revocation is complete (revokeAllUserSessions).
THEOREM Revokes == Spec => []RevocationIsComplete
  <1>1. IInv => RevocationIsComplete
    BY DEF IInv, Revoking, RevocationIsComplete
  <1>2. QED
    BY <1>1, Invariance, PTL

\* A logout cannot miss the session of its token (revokeRefreshTokenForLogout).
THEOREM LogoutEnds == Spec => []LogoutEndsSession
  <1>1. IInv => LogoutEndsSession
    BY DEF IInv, Revoking, LoggedOut, LogoutEndsSession, Dead, Requests
  <1>2. QED
    BY <1>1, Invariance, PTL

\* The loser of a rotation finds the rotation (rotateRefreshToken).
THEOREM LoserFinds == Spec => []LoserFindsRotation
  <1>1. IInv => LoserFindsRotation
    BY DEF IInv
  <1>2. QED
    BY <1>1, Invariance, PTL

\* The session that owns a token of a request is the one it was minted for.
LEMMA OwnerIsFamily ==
  ASSUME IInv, NEW r \in Refreshes \union Logouts, pc[r] # "idle", arg[r] \in live
  PROVE  Owner(arg[r]) = {fam[arg[r]]} /\ fam[arg[r]] \in Sessions
  BY DEF IInv, Places, Families, Owner, Rows, Requests

LEMMA OnlyActiveChange ==
  ASSUME IInv, [Next]_vars, NEW s \in Rows \ active
  PROVE  s \notin active' /\ sessTok'[s] = sessTok[s]
  <1> USE RequestsAssumption DEF IInv, TypeOK
  <1>1. CASE UNCHANGED <<sessTok, active>>
    BY <1>1
  <1>2. ASSUME NEW r \in Requests, LoginSession(r)
        PROVE  s \notin active' /\ sessTok'[s] = sessTok[s]
    <2>1. r # s
      BY <1>2 DEF Opening, Rows, LoginSession
    <2>2. QED
      BY <1>2, <2>1 DEF LoginSession, Rows
  <1>3. ASSUME NEW r \in Requests, Swap(r)
        PROVE  s \notin active' /\ sessTok'[s] = sessTok[s]
    <2>1. Owner(arg[r]) = {fam[arg[r]]} /\ fam[arg[r]] \in active
      BY <1>3, OwnerIsFamily DEF Swap, LocksHold, Claimers
    <2>2. QED
      BY <1>3, <2>1 DEF Swap, Rows
  <1>4. ASSUME NEW r \in Requests, LogoutEnd(r) \/ LeaveSession(r) \/ EndMark(r)
        PROVE  s \notin active' /\ sessTok'[s] = sessTok[s]
    BY <1>4 DEF LogoutEnd, LeaveSession, EndMark, EndedBy
  <1>5. QED
    BY <1>1, <1>2, <1>3, <1>4 DEF Next, Work, vars, sessionVars, requestVars, LoginToken,
       StartReset, StartRevoke, Fail, Present, Claim, LockSession, Sweep, LogoutClaim, DetectReuse,
       BeginMark, MarkRow, BeginPurge, PurgeRow, EndPurge, DropToken, Expire, HourPasses

\* A revoked session never gets another token, and never comes back.
THEOREM RevokedForGood == Spec => RevokedStaysRevoked
  <1>1. IInv /\ [Next]_vars =>
          [\A s \in Rows \ active : s \notin active' /\ sessTok'[s] = sessTok[s]]_vars
    BY OnlyActiveChange
  <1>2. QED
    BY <1>1, Invariance, PTL DEF Spec, RevokedStaysRevoked

-----------------------------------------------------------------------------
(***************************************************************************)
(* Refinement of SessionContract.                                          *)
(***************************************************************************)
Bearer(s) == IF s \in active /\ sessTok[s] \in live THEN sessTok[s] ELSE 0

Spent == {t \in Tokens : fam[t] # Nobody}

LEMMA InitContract == Init => Contract!Init
  BY RequestsAssumption DEF Init, Contract!Init, Rows, Sessions, Tokens

\* Steps that change no session's bearer.
LEMMA Stutter ==
  ASSUME UNCHANGED <<sessTok, active, fam>>, \A s \in Sessions : sessTok[s] \in live <=> sessTok[s] \in live'
  PROVE  UNCHANGED Contract!vars
  BY DEF Contract!vars, Rows

\* Sessions that nothing can refresh after the step.
Cut == {s \in Sessions : ~ (s \in active' /\ sessTok[s] \in live')}

\* Steps that only take tokens and sessions away.
LEMMA Ending ==
  ASSUME UNCHANGED <<sessTok, fam>>, active' \subseteq active,
         \A s \in Sessions : sessTok[s] \in live' => sessTok[s] \in live
  PROVE  Contract!Next
  <1>1. \A s \in Sessions : Bearer(s)' = IF s \in Cut THEN 0 ELSE Bearer(s)
    BY DEF Bearer, Cut
  <1>2. PICK S \in SUBSET Sessions : S = Cut
    BY DEF Cut
  <1>3. [s \in Sessions |-> Bearer(s)]'
          = [s \in Sessions |-> IF s \in S THEN 0 ELSE [q \in Sessions |-> Bearer(q)][s]]
    BY <1>1, <1>2
  <1>4. Contract!End(S)
    BY <1>3 DEF Contract!End, Bearer, Rows
  <1>5. QED
    BY <1>4 DEF Contract!Next

\* A login opens its session, dead already if its token was revoked.
LEMMA LoginOpens ==
  ASSUME IInv, NEW r \in Logins, LoginSession(r), NEW n \in Tokens, n = minted[r]
  PROVE  Contract!Open(r, n)
  <1> USE RequestsAssumption DEF IInv, TypeOK, LoginSession, tokenVars
  <1>1. /\ r \notin Rows /\ r \notin active /\ n \in 1..issued
        /\ fam[n] = Nobody /\ r # Nobody
    BY DEF Opening, Rows, Sessions, Requests, Tokens
  <1>2. Rows' = Rows \union {r}
    BY <1>1 DEF Rows, Sessions
  <1>3. Spent' = Spent \union {n} /\ n \notin Spent
    BY <1>1 DEF Spent
  <1>4. \A s \in Sessions \ {r} : Bearer(s)' = Bearer(s)
    BY DEF Bearer
  <1>5. Bearer(r)' \in {0, n} /\ r \in Sessions
    BY DEF Bearer, Sessions
  <1>6. \E b \in {0, n} :
           [s \in Sessions |-> Bearer(s)]' = [[s \in Sessions |-> Bearer(s)] EXCEPT ![r] = b]
    BY <1>4, <1>5
  <1>7. QED
    BY <1>1, <1>2, <1>3, <1>6 DEF Contract!Open, Bearer, Spent

\* A rotation refreshes the session of its token.
LEMMA SwapRefreshes ==
  ASSUME IInv, NEW r \in Refreshes, Swap(r),
         NEW o \in Sessions, o = fam[arg[r]], NEW n, n = issued + 1
  PROVE  Contract!Refresh(o, n) /\ n \in Tokens
  <1> USE RequestsAssumption DEF IInv, TypeOK, Swap
  <1>1. /\ arg[r] \in 1..issued /\ arg[r] \in live /\ o \in active
        /\ sessTok[o] = arg[r] /\ Owner(arg[r]) = {o}
    BY OwnerIsFamily DEF LocksHold, Claimers, Places, Families, Requests
  <1>2. n \in Tokens /\ fam[n] = Nobody /\ n # arg[r]
    BY <1>1 DEF Families, Tokens
  <1>3. Rows' = Rows
    BY <1>1 DEF Rows
  <1>4. Spent' = Spent \union {n} /\ n \notin Spent
    BY <1>1, <1>2 DEF Spent
  <1>5. Bearer(o) # 0 /\ Bearer(o)' = n
    BY <1>1 DEF Bearer
  <1>6. \A s \in Sessions \ {o} : Bearer(s)' = Bearer(s)
    <2> SUFFICES ASSUME NEW s \in Sessions, s # o
                 PROVE  Bearer(s)' = Bearer(s)
      OBVIOUS
    <2>1. sessTok[s] # arg[r] \/ s \notin Rows
      BY <1>1 DEF Owner
    <2>2. sessTok'[s] = sessTok[s] /\ active' = active
      BY <1>1
    <2>3. sessTok[s] # n /\ sessTok[s] # arg[r]
      BY <1>1, <2>1 DEF Families, Rows
    <2>4. sessTok[s] \in live <=> sessTok[s] \in live'
      BY <2>3 DEF Replaced
    <2>5. QED
      BY <2>2, <2>4 DEF Bearer
  <1>7. [s \in Sessions |-> Bearer(s)]' = [[s \in Sessions |-> Bearer(s)] EXCEPT ![o] = n]
    <2> HIDE DEF IInv, TypeOK, Swap
    <2> QED
      BY <1>5, <1>6
  <1>8. QED
    BY <1>2, <1>3, <1>4, <1>5, <1>7 DEF Contract!Refresh, Bearer, Spent

LEMMA StepContract == IInv /\ [Next]_vars => [Contract!Next]_(Contract!vars)
  <1> SUFFICES ASSUME IInv, [Next]_vars
               PROVE  Contract!Next \/ UNCHANGED Contract!vars
    OBVIOUS
  <1>1. ASSUME UNCHANGED <<sessTok, active, fam, live>>
        PROVE  UNCHANGED Contract!vars
    BY <1>1, Stutter
  <1>2. ASSUME NEW r \in Requests, LoginToken(r)
        PROVE  UNCHANGED Contract!vars
    <2>1. \A s \in Sessions : sessTok[s] # issued + 1
      BY DEF IInv, TypeOK, Families, Rows
    <2>2. QED
      BY <1>2, <2>1, Stutter DEF LoginToken, sessionVars, history
  <1>3. ASSUME NEW r \in Requests, LoginSession(r)
        PROVE  Contract!Next
    <2>1. r \in Logins /\ minted[r] \in Tokens
      BY <1>3, RequestsAssumption DEF LoginSession, IInv, TypeOK, Opening, Tokens
    <2>2. PICK n \in Tokens : n = minted[r]
      BY <2>1
    <2>3. Contract!Open(r, n)
      BY <1>3, <2>1, <2>2, LoginOpens
    <2>4. QED
      BY <2>1, <2>3 DEF Contract!Next, Sessions
  <1>4. ASSUME NEW r \in Requests, Swap(r)
        PROVE  Contract!Next
    <2>1. r \in Refreshes /\ fam[arg[r]] \in Sessions
      BY <1>4 DEF Swap, IInv, TypeOK, LocksHold, Rows
    <2>2. PICK o \in Sessions : o = fam[arg[r]]
      BY <2>1
    <2>3. PICK n : n = issued + 1
      OBVIOUS
    <2>4. Contract!Refresh(o, n) /\ n \in Tokens
      BY <1>4, <2>1, <2>2, <2>3, SwapRefreshes
    <2>5. QED
      BY <2>4 DEF Contract!Next
  <1>5. ASSUME NEW r \in Requests, LogoutEnd(r) \/ LeaveSession(r) \/ EndMark(r) \/ EndPurge(r)
        PROVE  Contract!Next
    BY <1>5, Ending DEF LogoutEnd, LeaveSession, EndMark, EndPurge, history, tokenVars, sessionVars
  <1>6. ASSUME NEW r \in Requests, NEW t \in Tokens, DropToken(r, t)
        PROVE  Contract!Next
    BY <1>6, Ending DEF DropToken, history, sessionVars
  <1>7. QED
    BY <1>1, <1>2, <1>3, <1>4, <1>5, <1>6 DEF Next, Work, vars, sessionVars, requestVars, history,
       tokenVars, StartReset, StartRevoke, Fail, Present, Claim, LockSession, Sweep, LogoutClaim,
       DetectReuse, BeginMark, MarkRow, BeginPurge, PurgeRow, Expire, HourPasses

\* The tables implement the contract of sessions: one bearer, used once, and
\* an ended session stays ended.
THEOREM Implements == Spec => ImplementsContract
  BY Invariance, InitContract, StepContract, PTL DEF Spec, Contract!Spec, ImplementsContract

-----------------------------------------------------------------------------
\* The requests that have minted their token.
Minters == {r \in Logins \union Refreshes : minted[r] # 0}

\* Each request mints at most one token.
OneTokenEach == IsFiniteSet(Logins \union Refreshes) => Cardinality(Minters) = issued

\* A login that has not begun has no token.
Fresh == \A r \in Logins : pc[r] = "idle" => minted[r] = 0

\* A request that mints is a new minter.
LEMMA NewMinter ==
  ASSUME IInv, OneTokenEach, NEW r \in Logins \union Refreshes, minted[r] = 0,
         minted' = [minted EXCEPT ![r] = issued + 1], issued' = issued + 1
  PROVE  OneTokenEach'
  <1> SUFFICES ASSUME IsFiniteSet(Logins \union Refreshes) PROVE Cardinality(Minters') = issued'
    BY DEF OneTokenEach
  <1>1. /\ issued \in Nat /\ minted \in [Requests -> 0..MaxTokens]
        /\ Logins \union Refreshes \subseteq Requests
    BY RequestsAssumption DEF IInv, TypeOK, Requests
  <1>2. Minters' = Minters \union {r} /\ r \notin Minters
    BY <1>1 DEF Minters
  <1>3. IsFiniteSet(Minters)
    BY FS_Subset DEF Minters
  <1>4. QED
    BY <1>1, <1>2, <1>3, FS_AddElement DEF OneTokenEach

LEMMA MintInvariance == Spec => []OneTokenEach
  <1>1. Init => Fresh /\ OneTokenEach
    <2> SUFFICES ASSUME Init PROVE Fresh /\ Cardinality(Minters) = issued
      BY DEF OneTokenEach
    <2>1. Minters = {} /\ Fresh
      BY DEF Init, Minters, Requests, Fresh
    <2>2. QED
      BY <2>1, FS_EmptySet DEF Init
  <1>2. IInv /\ Fresh /\ OneTokenEach /\ [Next]_vars => Fresh' /\ OneTokenEach'
    <2> SUFFICES ASSUME IInv, Fresh, OneTokenEach, [Next]_vars PROVE Fresh' /\ OneTokenEach'
      OBVIOUS
    <2> USE DEF requestVars, tokenVars, sessionVars, history
    <2>1. ASSUME NEW r \in Requests, LoginToken(r) PROVE Fresh' /\ OneTokenEach'
      <3>1. minted[r] = 0
        BY <2>1 DEF LoginToken, Fresh
      <3>2. OneTokenEach'
        BY <2>1, <3>1, NewMinter DEF LoginToken
      <3>3. Fresh'
        BY <2>1 DEF LoginToken, Goto, Fresh, IInv, TypeOK, Requests
      <3>4. QED
        BY <3>2, <3>3
    <2>2. ASSUME NEW r \in Requests, Swap(r) PROVE Fresh' /\ OneTokenEach'
      <3>1. minted[r] = 0 /\ r \notin Logins
        BY <2>2, RequestsAssumption DEF Swap, IInv, Places
      <3>2. OneTokenEach'
        BY <2>2, <3>1, NewMinter DEF Swap
      <3>3. Fresh'
        BY <2>2, <3>1 DEF Swap, Goto, Fresh, IInv, TypeOK, Requests
      <3>4. QED
        BY <3>2, <3>3
    <2>3. CASE UNCHANGED vars
      BY <2>3 DEF vars, OneTokenEach, Minters, Fresh
    <2>4. CASE Next /\ ~ \E r \in Requests : LoginToken(r) \/ Swap(r)
      <3>1. pc \in [Requests -> Running \union Ended \union {"idle"}] /\ Logins \subseteq Requests
        BY DEF IInv, TypeOK, Requests
      <3>2. CASE \E r \in Requests : Work(r)
        <4>1. UNCHANGED <<minted, issued>>
          BY <2>4, <3>2 DEF Work, LoginSession, Claim, LockSession, Sweep, LogoutClaim, LogoutEnd,
             DetectReuse, BeginMark, MarkRow, EndMark, BeginPurge, PurgeRow, EndPurge, DropToken
        <4>2. PICK r \in Requests : Work(r)
          BY <3>2
        <4>3. \E l : pc' = [pc EXCEPT ![r] = l] /\ l # "idle"
          <5>1. CASE LoginSession(r) \/ Claim(r) \/ LockSession(r) \/ Sweep(r)
            BY <5>1 DEF LoginSession, Claim, LockSession, Sweep, Goto, AfterRefusal
          <5>2. CASE LogoutClaim(r) \/ LogoutEnd(r) \/ DetectReuse(r)
            BY <5>2 DEF LogoutClaim, LogoutEnd, DetectReuse, Goto
          <5>3. CASE BeginMark(r) \/ EndMark(r) \/ BeginPurge(r) \/ EndPurge(r)
            BY <5>3 DEF BeginMark, EndMark, BeginPurge, EndPurge, Goto
          <5>4. ASSUME NEW s \in Sessions, MarkRow(r, s)
                PROVE  pc' = [pc EXCEPT ![r] = pc[r]] /\ pc[r] # "idle"
            BY <3>1, <5>4 DEF MarkRow
          <5>5. ASSUME NEW t \in Tokens, PurgeRow(r, t)
                PROVE  pc' = [pc EXCEPT ![r] = pc[r]] /\ pc[r] # "idle"
            BY <3>1, <5>5 DEF PurgeRow
          <5>6. ASSUME NEW t \in Tokens, DropToken(r, t)
                PROVE  \E l : pc' = [pc EXCEPT ![r] = l] /\ l # "idle"
            BY <5>6 DEF DropToken, Goto
          <5>7. QED
            BY <2>4, <4>2, <5>1, <5>2, <5>3, <5>4, <5>5, <5>6 DEF Work
        <4>4. \A q \in Logins : pc'[q] = "idle" => pc[q] = "idle"
          BY <3>1, <4>3
        <4>5. QED
          BY <4>1, <4>4 DEF OneTokenEach, Minters, Fresh
      <3>3. CASE ~ \E r \in Requests : Work(r)
        <4>1. UNCHANGED <<minted, issued>> /\ \A r \in Logins : pc'[r] = "idle" => pc[r] = "idle"
          BY <2>4, <3>1, <3>3, RequestsAssumption DEF Next, StartReset, LeaveSession, Fail, Present,
             StartRevoke, Expire, HourPasses, Goto, Running
        <4>2. QED
          BY <4>1 DEF OneTokenEach, Minters, Fresh
      <3>4. QED
        BY <3>2, <3>3
    <2>5. QED
      BY <2>1, <2>2, <2>3, <2>4
  <1>3. QED
    BY <1>1, <1>2, Invariance, PTL DEF Spec

\* Whoever is in a transaction, or inside a many-row statement, is running.
LEMMA HoldersRun ==
  ASSUME IInv, NEW r \in Requests, NEW q \in Requests, WaitsFor(r, q)
  PROVE  pc[q] \in Running
  BY DEF WaitsFor, HoldsToken, HoldsSession, IInv, LocksHold, Running

\* The order of the locks: who waits for a session row waits for a rotation
\* about to commit, or for an UPDATE of many rows.
LEMMA SessionWaits ==
  ASSUME IInv, NEW r \in Requests, pc[r] \in {"session", "end", "marking"},
         NEW q \in Requests, WaitsFor(r, q)
  PROVE  pc[q] \in {"swap", "marking"}
  <1>1. PICK s \in NeedsSessions(r) : HoldsSession(q, s)
    BY DEF WaitsFor, NeedsTokens
  <1>2. s \in Sessions
    BY <1>1 DEF NeedsSessions, Owner, Rows, IInv, LocksHold
  <1>3. s \notin Tokens
    BY <1>2, RequestsAssumption
  <1>4. QED
    BY <1>1, <1>3 DEF HoldsSession, IInv, LocksHold

\* Who waits for a token's row waits for a request that has claimed it, or for
\* a DELETE of many rows.
LEMMA TokenWaits ==
  ASSUME IInv, NEW r \in Requests, pc[r] \in {"claim", "drop", "purging"},
         NEW q \in Requests, WaitsFor(r, q)
  PROVE  pc[q] \in {"session", "swap", "end", "purging"}
  <1>1. PICK t \in NeedsTokens(r) : HoldsToken(q, t)
    BY DEF WaitsFor, NeedsSessions
  <1>2. t \in Tokens
    <2>1. CASE pc[r] = "claim"
      BY <1>1, <2>1 DEF NeedsTokens, IInv, Places, TypeOK, Tokens
    <2>2. CASE pc[r] = "drop"
      <3>1. t \in 1..issued
        BY <1>1, <2>2 DEF NeedsTokens, IInv, Remembered
      <3>2. issued \in 0..MaxTokens /\ MaxTokens \in Nat
        BY RequestsAssumption DEF IInv, TypeOK
      <3>3. QED
        BY <3>1, <3>2 DEF Tokens
    <2>3. CASE pc[r] = "purging"
      BY <1>1, <2>3 DEF NeedsTokens, IInv, LocksHold
    <2>4. QED
      BY <2>1, <2>2, <2>3
  <1>3. t \notin Rows
    BY <1>2, RequestsAssumption DEF Rows
  <1>4. QED
    BY <1>1, <1>3 DEF HoldsToken, IInv, LocksHold

\* Nobody else waits.
LEMMA OnlyTheseWait ==
  ASSUME NEW r \in Requests, NEW q \in Requests, WaitsFor(r, q)
  PROVE  pc[r] \in {"session", "end", "marking", "claim", "drop", "purging"}
  BY DEF WaitsFor, NeedsTokens, NeedsSessions

\* A circle of waits has a circle of many-row statements of one kind in it.
LEMMA CirclesAreKnots ==
  ASSUME IInv, NEW S \in SUBSET Requests, Deadlocked(S)
  PROVE  \E T \in SUBSET S : Knot(T)
  <1>1. \A r \in S : \E q \in S : WaitsFor(r, q)
    BY DEF Deadlocked
  <1>2. \A r \in S : pc[r] # "swap"
    BY <1>1, OnlyTheseWait
  <1>3. CASE \E r \in S : pc[r] = "marking"
    <2> DEFINE T == {r \in S : pc[r] = "marking"}
    <2>1. \A r \in T : \E q \in T : WaitsFor(r, q)
      BY <1>1, <1>2, SessionWaits
    <2>2. Knot(T)
      BY <1>3, <2>1 DEF Knot, Deadlocked
    <2>3. QED
      BY <2>2
  <1>4. CASE ~ \E r \in S : pc[r] = "marking"
    <2> DEFINE T == {r \in S : pc[r] = "purging"}
    <2>1. \A r \in S : pc[r] \notin {"session", "end"}
      BY <1>1, <1>2, <1>4, SessionWaits
    <2>2. \A r \in S : \E q \in T : WaitsFor(r, q)
      <3> SUFFICES ASSUME NEW r \in S PROVE \E q \in T : WaitsFor(r, q)
        OBVIOUS
      <3>1. PICK q \in S : WaitsFor(r, q)
        BY <1>1
      <3>2. pc[r] \in {"claim", "drop", "purging"}
        BY <1>4, <2>1, <3>1, OnlyTheseWait
      <3>3. pc[q] = "purging"
        BY <1>2, <2>1, <3>1, <3>2, TokenWaits
      <3>4. QED
        BY <3>1, <3>3
    <2>3. T # {}
      BY <2>2 DEF Deadlocked
    <2>4. Knot(T)
      BY <2>2, <2>3 DEF Knot, Deadlocked
    <2>5. QED
      BY <2>4
  <1>5. QED
    BY <1>3, <1>4

\* A rotation that holds its locks finds a token left to mint.
LEMMA SwapsAreReady ==
  ASSUME IInv, OneTokenEach, EnoughTokens, NEW q \in Requests, pc[q] = "swap"
  PROVE  issued < MaxTokens
  <1>1. q \in (Logins \union Refreshes) \ Minters
    BY DEF IInv, Places, Minters
  <1>2. /\ Minters \subseteq Logins \union Refreshes /\ Minters # Logins \union Refreshes
        /\ issued \in Nat /\ MaxTokens \in Nat
    BY <1>1, RequestsAssumption DEF Minters, IInv, TypeOK
  <1>3. issued < Cardinality(Logins \union Refreshes)
    BY <1>2, FS_Subset, FS_CardinalityType DEF OneTokenEach, EnoughTokens
  <1>4. QED
    BY <1>2, <1>3, FS_CardinalityType DEF EnoughTokens

\* The requests never all wait, although the many-row statements lock row by
\* row and keep what they have: who holds a token's row waits for a session row
\* at most, who holds session rows waits for session rows at most, and so no
\* circle is closed but by two many-row statements of one kind, which
\* PostgreSQL parts (rotateRefreshToken, revokeRefreshTokenForLogout,
\* revokeAllUserSessions, DELETE /sessions).
THEOREM LocksAreReleased == Spec => [](OnlyKnots /\ SomeoneReady)
  <1>1. IInv => OnlyKnots
    BY CirclesAreKnots DEF OnlyKnots, Waiting
  <1>2. IInv /\ OneTokenEach => SomeoneReady
    <2> SUFFICES ASSUME IInv, OneTokenEach, EnoughTokens, NEW p \in Requests, pc[p] \in Running,
                        ~ \E r \in Requests : Ready(r)
                 PROVE  \E S \in SUBSET Waiting : Knot(S)
      BY DEF SomeoneReady
    <2> DEFINE S == {r \in Requests : pc[r] \in Running}
    <2>1. \A r \in S : r \in Waiting
      BY SwapsAreReady DEF Ready
    <2>2. \A r \in S : \E q \in S : WaitsFor(r, q)
      BY <2>1, HoldersRun DEF Waiting
    <2>3. Deadlocked(S)
      BY <2>2 DEF Deadlocked
    <2>4. PICK T \in SUBSET S : Knot(T)
      <3> HIDE DEF S
      <3>1. S \in SUBSET Requests
        BY DEF S
      <3>2. QED
        BY <2>3, <3>1, CirclesAreKnots
    <2>5. QED
      BY <2>1, <2>4
  <1>3. QED
    BY <1>1, <1>2, Invariance, MintInvariance, PTL

\* How far a request can still go.
Rank == [l \in Running \union Ended \union {"idle"} |->
           CASE l = "idle" -> 9
             [] l = "claim" -> 8
             [] l = "session" -> 7
             [] l = "reuse" -> 6
             [] l = "mark" -> 5
             [] l = "marking" -> 4
             [] l = "purge" -> 3
             [] l \in {"swap", "purging"} -> 2
             [] l \in {"login", "sweep", "end", "drop"} -> 1
             [] OTHER -> 0]

\* Every statement, and a failure, brings its request nearer to its end: to a
\* later stage, or, inside a many-row statement and in the loop of single
\* deletes, to one row less to deal with.  None throws another request back or
\* gives it more rows.
RequestsAdvance ==
  [][\A r \in Requests :
       /\ pc'[r] # pc[r] => Rank[pc'[r]] < Rank[pc[r]]
       /\ pc'[r] = pc[r] => snap'[r] \subseteq snap[r]
       /\ Work(r) => pc'[r] # pc[r] \/ snap'[r] # snap[r]]_vars

\* A request goes through at most nine stages, in each of which the rows left
\* only get fewer, whatever the others do: with LocksAreReleased, the safety
\* half of the termination of every request (rotateRefreshToken,
\* revokeRefreshTokenForLogout, revokeAllUserSessions, DELETE /sessions).
THEOREM RequestsAreFinite == Spec => RequestsAdvance
  <1> DEFINE Lower(r) == /\ pc' = [pc EXCEPT ![r] = pc'[r]]
                         /\ snap' = [snap EXCEPT ![r] = snap'[r]]
                         /\ Rank[pc'[r]] < Rank[pc[r]]
             Fewer(r) == /\ pc' = pc
                         /\ snap' = [snap EXCEPT ![r] = snap'[r]]
                         /\ snap'[r] \subseteq snap[r] /\ snap'[r] # snap[r]
             Quiet == pc' = pc /\ snap' = snap
             Advance(q) == /\ pc'[q] # pc[q] => Rank[pc'[q]] < Rank[pc[q]]
                           /\ pc'[q] = pc[q] => snap'[q] \subseteq snap[q]
                           /\ Work(q) => pc'[q] # pc[q] \/ snap'[q] # snap[q]
  <1>1. ASSUME IInv, Next, NEW q \in Requests
        PROVE  Advance(q)
    <2> USE DEF requestVars, tokenVars, sessionVars, history, Goto
    <2>1. /\ pc \in [Requests -> Running \union Ended \union {"idle"}]
          /\ snap \in [Requests -> SUBSET (Sessions \union Tokens)]
      BY <1>1 DEF IInv, TypeOK
    <2>2. ASSUME NEW r \in Requests, Work(r)
          PROVE  Lower(r) \/ Fewer(r)
      <3>1. CASE LoginSession(r) \/ Claim(r) \/ LockSession(r) \/ Swap(r) \/ Sweep(r)
        BY <2>1, <3>1 DEF LoginSession, Claim, LockSession, Swap, Sweep, AfterRefusal, Rank,
                          Running, Ended
      <3>2. CASE LogoutClaim(r) \/ LogoutEnd(r) \/ DetectReuse(r)
        BY <2>1, <3>2 DEF LogoutClaim, LogoutEnd, DetectReuse, Rank, Running, Ended
      <3>3. CASE BeginMark(r) \/ EndMark(r) \/ BeginPurge(r) \/ EndPurge(r)
        BY <2>1, <3>3 DEF BeginMark, EndMark, BeginPurge, EndPurge, Rank, Running, Ended
      <3>4. ASSUME NEW s \in Sessions, MarkRow(r, s) PROVE Fewer(r)
        BY <2>1, <3>4 DEF MarkRow
      <3>5. ASSUME NEW t \in Tokens, PurgeRow(r, t) PROVE Fewer(r)
        BY <2>1, <3>5 DEF PurgeRow
      <3>6. ASSUME NEW t \in Tokens, DropToken(r, t) PROVE Lower(r) \/ Fewer(r)
        BY <2>1, <3>6 DEF DropToken, Rank, Running, Ended
      <3>7. QED
        BY <2>2, <3>1, <3>2, <3>3, <3>4, <3>5, <3>6 DEF Work
    <2>3. ASSUME NEW r \in Requests,
                 \/ LoginToken(r) \/ StartReset(r) \/ Fail(r)
                 \/ \E t \in Tokens : Present(r, t)
                 \/ \E S \in SUBSET Sessions : StartRevoke(r, S)
          PROVE  Lower(r)
      <3>1. CASE LoginToken(r) \/ StartReset(r)
        BY <2>1, <3>1 DEF LoginToken, StartReset, Rank, Running, Ended
      <3>2. CASE Fail(r)
        BY <2>1, <3>2 DEF Fail, Rank, Running, Ended
      <3>3. CASE \E t \in Tokens : Present(r, t)
        BY <2>1, <3>3 DEF Present, Rank, Running, Ended
      <3>4. CASE \E S \in SUBSET Sessions : StartRevoke(r, S)
        BY <2>1, <3>4 DEF StartRevoke, Rank, Running, Ended
      <3>5. QED
        BY <2>3, <3>1, <3>2, <3>3, <3>4
    <2>4. ASSUME (\E r \in Requests : LeaveSession(r)) \/ (\E t \in Tokens : Expire(t)) \/ HourPasses
          PROVE  Quiet
      BY <2>4 DEF LeaveSession, Expire, HourPasses
    <2>5. Quiet \/ \E r \in Requests : Lower(r) \/ Fewer(r)
      BY <1>1, <2>2, <2>3, <2>4 DEF Next
    <2>6. /\ pc'[q] # pc[q] => Rank[pc'[q]] < Rank[pc[q]]
          /\ pc'[q] = pc[q] => snap'[q] \subseteq snap[q]
      <3>1. CASE Quiet
        BY <3>1
      <3>2. ASSUME NEW r \in Requests, Fewer(r)
            PROVE  pc'[q] = pc[q] /\ snap'[q] \subseteq snap[q]
        BY <2>1, <3>2
      <3>3. ASSUME NEW r \in Requests, Lower(r)
            PROVE  /\ pc'[q] # pc[q] => Rank[pc'[q]] < Rank[pc[q]]
                   /\ pc'[q] = pc[q] => snap'[q] \subseteq snap[q]
        <4>1. \A l \in Running \union Ended \union {"idle"} : Rank[l] \in Nat
          BY DEF Rank, Running, Ended
        <4>2. pc'[r] # pc[r]
          BY <2>1, <3>3, <4>1
        <4>3. QED
          BY <2>1, <3>3, <4>2
      <3>4. QED
        BY <2>5, <3>1, <3>2, <3>3
    <2>7. Work(q) => pc'[q] # pc[q] \/ snap'[q] # snap[q]
      <3>1. \A l \in Running \union Ended \union {"idle"} : Rank[l] \in Nat
        BY DEF Rank, Running, Ended
      <3>2. QED
        BY <2>1, <2>2, <3>1
    <2>8. QED
      BY <2>6, <2>7
  <1>2. ASSUME IInv, Next
        PROVE  \A r \in Requests : Advance(r)
    BY <1>1, <1>2
  <1>3. QED
    BY <1>2, Invariance, PTL DEF Spec, RequestsAdvance

=============================================================================
