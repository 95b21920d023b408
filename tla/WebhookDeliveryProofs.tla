------------------------ MODULE WebhookDeliveryProofs ------------------------
(***************************************************************************)
(* Theorems about webhook deliveries, for any number of rows and threads   *)
(* and any limits on the attempts and on a round of the loop.              *)
(***************************************************************************)
EXTENDS WebhookDelivery, FiniteSetTheorems, TLAPS

\* t is about to write a count of attempts.
Counting(t) == pc[t] = "write" /\ update[t].attempts # 0

\* t has a refusal that is not recorded yet.
Holds(t) == pc[t] = "refused" \/ Counting(t)

Holding(d) == {t \in Threads : job[t] = d /\ Holds(t)}

\* A thread has a row exactly while it works, and what is worked on exists.
Shape ==
  /\ \A t \in Threads : pc[t] = "idle" <=> job[t] = NoJob
  /\ \A t \in Threads : job[t] \in Deliveries => status[job[t]] # "none"
  /\ \A t \in Threads : pc[t] = "fail" => update[t].attempts = 0
  /\ \A d \in batch : status[d] # "none"
  /\ \A d \in Deliveries : status[d] = "none" => verdict[d] = "open"

\* Recorded and unrecorded refusals are different POSTs.
Counted == \A d \in Deliveries : attempts[d] + Cardinality(Holding(d)) <= refused[d]

\* A count about to be written was right when it was read, and leaves out every
\* other refusal held now.
UpdatesCounted ==
  \A t \in Threads :
     Counting(t) => update[t].attempts + Cardinality(Holding(job[t])) <= refused[job[t]] + 1

\* A row nothing excuses is failed, or about to be, by its last refusal only.
Blameless ==
  \A d \in Deliveries : verdict[d] # "excused" =>
     /\ status[d] = "FAILED" => refused[d] >= MaxAttempts[d]
     /\ \A t \in Threads : job[t] = d =>
          /\ pc[t] \notin {"broken", "fail"}
          /\ pc[t] = "write" /\ update[t].status = "FAILED" => refused[d] >= MaxAttempts[d]

\* t is to write, or has found, that d was accepted.
Delivering(t) == pc[t] = "accepted" \/ (pc[t] = "write" /\ update[t].attempts = 0)

\* A row no late refusal overrules only moves to DELIVERED, and somebody moves
\* it there once it was accepted.
Unruled ==
  \A d \in Deliveries : verdict[d] \in {"open", "accepted", "lost"} =>
     /\ status[d] # "FAILED"
     /\ \A t \in Threads : job[t] = d /\ pc[t] = "write" =>
          /\ update[t].status \in {"same", "DELIVERED"}
          /\ update[t].attempts = 0 => update[t].status = "DELIVERED" \/ status[d] = "DELIVERED"
     /\ verdict[d] = "accepted" =>
          status[d] = "DELIVERED" \/ \E t \in Threads : job[t] = d /\ Delivering(t)

\* The inductive invariant.
IInv == /\ TypeOK
        /\ Shape
        /\ Counted
        /\ UpdatesCounted
        /\ Blameless
        /\ Unruled

LEMMA InitIInv == Init => IInv
  <1> SUFFICES ASSUME Init PROVE IInv
    OBVIOUS
  <1> USE DeliveryAssumption DEF Init
  <1>1. TypeOK
    BY DEF TypeOK, Statuses, Stages, Verdicts, Keep
  <1>2. \A d \in Deliveries : Holding(d) = {}
    BY DEF Holding, Holds, Counting
  <1>3. Counted
    BY <1>2, FS_EmptySet DEF Counted
  <1>4. Shape /\ UpdatesCounted /\ Blameless /\ Unruled
    BY DEF Shape, UpdatesCounted, Counting, Blameless, Unruled
  <1>5. QED
    BY <1>1, <1>3, <1>4 DEF IInv

LEMMA HoldingFinite ==
  ASSUME NEW d
  PROVE  IsFiniteSet(Holding(d)) /\ Cardinality(Holding(d)) \in Nat
  <1>1. Holding(d) \subseteq Threads
    BY DEF Holding
  <1>2. IsFiniteSet(Holding(d))
    BY <1>1, FS_Subset, DeliveryAssumption
  <1>3. QED
    BY <1>2, FS_CardinalityType

\* When no thread comes to hold a refusal, no delivery has more of them.
LEMMA HoldingShrinks ==
  ASSUME NEW d, \A t \in Threads : Holds(t)' => Holds(t) /\ job'[t] = job[t]
  PROVE  /\ Cardinality(Holding(d)') \in Nat
         /\ Cardinality(Holding(d)') <= Cardinality(Holding(d))
  <1>1. Holding(d)' \subseteq Holding(d)
    BY DEF Holding
  <1>2. QED
    BY <1>1, HoldingFinite, FS_Subset, FS_CardinalityType

\* Steps that record no refusal and prepare no count.
LEMMA CountsKept ==
  ASSUME IInv, attempts' = attempts, refused' = refused,
         \A t \in Threads : Holds(t)' => Holds(t) /\ job'[t] = job[t],
         \A t \in Threads : Counting(t)' => Counting(t) /\ update'[t] = update[t]
  PROVE  Counted' /\ UpdatesCounted'
  <1>1. Counted'
    <2> SUFFICES ASSUME NEW d \in Deliveries
                 PROVE  attempts'[d] + Cardinality(Holding(d)') <= refused'[d]
      BY DEF Counted
    <2>1. attempts[d] + Cardinality(Holding(d)) <= refused[d]
      BY DEF IInv, Counted
    <2>2. attempts[d] \in Nat /\ refused[d] \in Nat
      BY DEF IInv, TypeOK
    <2>3. QED
      BY <2>1, <2>2, HoldingShrinks, HoldingFinite
  <1>2. UpdatesCounted'
    <2> SUFFICES ASSUME NEW t \in Threads, Counting(t)'
                 PROVE  update'[t].attempts + Cardinality(Holding(job[t])') <= refused'[job'[t]] + 1
      BY DEF UpdatesCounted
    <2>1. PICK d : d = job[t]
      OBVIOUS
    <2>2. Counting(t) /\ update'[t] = update[t] /\ job'[t] = d
      BY <2>1 DEF Holds
    <2>3. update[t].attempts + Cardinality(Holding(d)) <= refused[d] + 1
      BY <2>1, <2>2 DEF IInv, UpdatesCounted
    <2>4. update[t].attempts \in Nat /\ refused[d] \in Nat
      BY <2>1, <2>2 DEF IInv, TypeOK, Shape, Counting
    <2>5. Holding(job[t])' = Holding(d)'
      BY <2>2 DEF Holding
    <2>6. QED
      BY <2>2, <2>3, <2>4, <2>5, HoldingShrinks, HoldingFinite
  <1>3. QED
    BY <1>1, <1>2

\* Steps of the loop that start no thread.
LEMMA LoopIInv ==
  ASSUME IInv, LoopError \/ (\E B \in SUBSET Deliveries : Select(B)) \/ \E d \in Deliveries : GiveUp(d)
  PROVE  IInv'
  <1> USE DEF row, threads, history
  <1>1. /\ UNCHANGED <<pc, job, update, attempts, refused>>
        /\ \A d \in Deliveries :
             \/ status'[d] = status[d] /\ verdict'[d] = verdict[d]
             \/ status'[d] = "FAILED" /\ verdict'[d] = "excused"
        /\ \A d \in batch' : d \in batch \/ Retriable(d)
    BY DEF IInv, TypeOK, Select, LoopError, GiveUp, Judge
  <1>2. TypeOK'
    BY DeliveryAssumption DEF IInv, TypeOK, Statuses, Verdicts, Select, LoopError, GiveUp, Judge
  <1>3. Shape'
    <2>1. \A d \in Deliveries : status[d] # "none" => status'[d] # "none"
      BY <1>1
    <2>2. batch' \subseteq Deliveries
      BY <1>2 DEF TypeOK
    <2>3. QED
      BY <1>1, <2>1, <2>2 DEF IInv, Shape, Retriable
  <1>4. Counted' /\ UpdatesCounted'
    BY <1>1, CountsKept DEF Holds, Counting
  <1>5. Blameless'
    BY <1>1 DEF IInv, Blameless
  <1>6. Unruled'
    BY <1>1 DEF IInv, Unruled, Delivering
  <1>7. QED
    BY <1>2, <1>3, <1>4, <1>5, <1>6 DEF IInv

LEMMA StartIInv ==
  ASSUME IInv, NEW t \in Threads, NEW d \in Deliveries, Route(t, d) \/ Redeliver(t, d)
  PROVE  IInv'
  <1> USE DEF row, threads, history
  <1>1. /\ UNCHANGED <<attempts, update, refused, verdict, faults>>
        /\ pc[t] = "idle"
        /\ pc' = [pc EXCEPT ![t] = "post"]
        /\ job' = [job EXCEPT ![t] = d]
        /\ batch' \subseteq batch
    BY DEF Route, Redeliver, StartThread, Goto
  <1>2. \A u \in Threads : /\ pc'[u] = IF u = t THEN "post" ELSE pc[u]
                           /\ job'[u] = IF u = t THEN d ELSE job[u]
    BY <1>1 DEF IInv, TypeOK
  <1>3. /\ status'[d] # "none"
        /\ \A e \in Deliveries : status'[e] = status[e] \/ (status[e] = "none" /\ status'[e] = "PENDING")
    BY DEF IInv, TypeOK, Shape, Route, Redeliver
  <1>4. TypeOK'
    <2>1. status' \in [Deliveries -> Statuses]
      BY DEF IInv, TypeOK, Statuses, Route, Redeliver
    <2>2. QED
      BY <1>1, <2>1 DEF IInv, TypeOK, Stages
  <1>5. Shape'
    BY <1>1, <1>2, <1>3, DeliveryAssumption DEF IInv, TypeOK, Shape
  <1>6. Counted' /\ UpdatesCounted'
    BY <1>1, <1>2, CountsKept DEF Holds, Counting
  <1>7. Blameless'
    BY <1>1, <1>2, <1>3 DEF IInv, Blameless
  <1>8. Unruled'
    <2> SUFFICES ASSUME NEW e \in Deliveries, verdict[e] \in {"open", "accepted", "lost"}
                 PROVE  /\ status'[e] # "FAILED"
                        /\ \A u \in Threads : job'[u] = e /\ pc'[u] = "write" =>
                             /\ update'[u].status \in {"same", "DELIVERED"}
                             /\ update'[u].attempts = 0 =>
                                  update'[u].status = "DELIVERED" \/ status'[e] = "DELIVERED"
                        /\ verdict'[e] = "accepted" =>
                             status'[e] = "DELIVERED" \/ \E u \in Threads : job'[u] = e /\ Delivering(u)'
      BY <1>1 DEF Unruled
    <2>1. status'[e] # "FAILED" /\ (status[e] = "DELIVERED" => status'[e] = "DELIVERED")
      BY <1>3 DEF IInv, Unruled
    <2>2. \A u \in Threads : pc'[u] = "write" => pc[u] = "write" /\ job'[u] = job[u]
      BY <1>2
    <2>3. \A u \in Threads : job[u] = e /\ Delivering(u) => job'[u] = e /\ Delivering(u)'
      BY <1>1, <1>2 DEF Delivering
    <2>4. QED
      BY <1>1, <2>1, <2>2, <2>3 DEF IInv, Unruled
  <1>9. QED
    BY <1>4, <1>5, <1>6, <1>7, <1>8 DEF IInv

LEMMA CrashIInv ==
  ASSUME IInv, Crash
  PROVE  IInv'
  <1> USE DEF row, Crash
  <1>1. \A t \in Threads : pc'[t] = "idle" /\ job'[t] = NoJob
    OBVIOUS
  <1>2. \A d \in Deliveries :
          \/ verdict'[d] = verdict[d] /\ (verdict[d] = "accepted" => ~ Attended(d))
          \/ verdict[d] = "accepted" /\ verdict'[d] = "lost"
    BY DEF IInv, TypeOK
  <1>3. TypeOK'
    BY DeliveryAssumption DEF IInv, TypeOK, Statuses, Stages, Verdicts, Keep
  <1>4. Shape'
    BY <1>1, <1>2, DeliveryAssumption DEF IInv, TypeOK, Shape
  <1>5. Counted' /\ UpdatesCounted'
    BY <1>1, CountsKept DEF Holds, Counting
  <1>6. Blameless'
    BY <1>1, <1>2, DeliveryAssumption DEF IInv, Blameless
  <1>7. Unruled'
    BY <1>1, <1>2, DeliveryAssumption DEF IInv, Unruled, Attended
  <1>8. QED
    BY <1>3, <1>4, <1>5, <1>6, <1>7 DEF IInv

LEMMA PostIInv ==
  ASSUME IInv, NEW t \in Threads, Post(t)
  PROVE  IInv'
  <1> USE DEF row, threads, history
  <1>0. pc[t] = "post" /\ job[t] \in Deliveries /\ status[job[t]] # "none"
    BY DEF IInv, TypeOK, Shape, Post
  <1>1. UNCHANGED <<status, attempts, batch, job, update, faults>>
    BY DEF Post
  <1>2. PICK l \in {"accepted", "refused", "broken"} :
          /\ pc' = [pc EXCEPT ![t] = l]
          /\ refused' = IF l = "refused" THEN [refused EXCEPT ![job[t]] = @ + 1] ELSE refused
          /\ verdict' = [verdict EXCEPT ![job[t]] =
                           CASE l = "broken" -> "excused"
                             [] l = "accepted" /\ @ \in {"open", "lost"} -> "accepted"
                             [] OTHER -> @]
    BY DEF IInv, TypeOK, Post, Goto, Judge
  <1>3. \A u \in Threads : pc'[u] = IF u = t THEN l ELSE pc[u]
    BY <1>2 DEF IInv, TypeOK
  <1>4. TypeOK'
    BY <1>0, <1>1, <1>2 DEF IInv, TypeOK, Stages, Verdicts
  <1>5. Shape'
    BY <1>0, <1>1, <1>2, <1>3 DEF IInv, TypeOK, Shape
  <1>6. \A d \in Deliveries : refused'[d] \in Nat /\ refused[d] \in Nat /\ refused'[d] >= refused[d]
    BY <1>0, <1>2 DEF IInv, TypeOK
  <1>7. \A d \in Deliveries :
          /\ d # job[t] => verdict'[d] = verdict[d]
          /\ verdict[d] = "excused" => verdict'[d] = "excused"
          /\ verdict[d] = "overruled" => verdict'[d] \in {"overruled", "excused"}
    BY <1>0, <1>2 DEF IInv, TypeOK
  <1>8. Blameless'
    <2> SUFFICES ASSUME NEW d \in Deliveries, verdict'[d] # "excused"
                 PROVE  /\ status'[d] = "FAILED" => refused'[d] >= MaxAttempts[d]
                        /\ \A u \in Threads : job'[u] = d =>
                             /\ pc'[u] \notin {"broken", "fail"}
                             /\ pc'[u] = "write" /\ update'[u].status = "FAILED"
                                  => refused'[d] >= MaxAttempts[d]
      BY DEF Blameless
    <2>1. verdict[d] # "excused" /\ MaxAttempts[d] \in Nat
      BY <1>7, DeliveryAssumption
    <2>2. d = job[t] => l # "broken"
      BY <1>0, <1>2 DEF IInv, TypeOK
    <2>3. /\ status[d] = "FAILED" => refused[d] >= MaxAttempts[d]
          /\ \A u \in Threads : job[u] = d =>
               /\ pc[u] \notin {"broken", "fail"}
               /\ pc[u] = "write" /\ update[u].status = "FAILED" => refused[d] >= MaxAttempts[d]
      BY <2>1 DEF IInv, Blameless
    <2>4. QED
      BY <1>1, <1>3, <1>6, <2>1, <2>2, <2>3
  <1>9. Unruled'
    <2> SUFFICES ASSUME NEW d \in Deliveries, verdict'[d] \in {"open", "accepted", "lost"}
                 PROVE  /\ status'[d] # "FAILED"
                        /\ \A u \in Threads : job'[u] = d /\ pc'[u] = "write" =>
                             /\ update'[u].status \in {"same", "DELIVERED"}
                             /\ update'[u].attempts = 0 =>
                                  update'[u].status = "DELIVERED" \/ status'[d] = "DELIVERED"
                        /\ verdict'[d] = "accepted" =>
                             status'[d] = "DELIVERED" \/ \E u \in Threads : job'[u] = d /\ Delivering(u)'
      BY DEF Unruled
    <2>1. verdict[d] \in {"open", "accepted", "lost"}
      BY <1>7 DEF IInv, TypeOK, Verdicts
    <2>2. \A u \in Threads : Delivering(u) => Delivering(u)'
      BY <1>0, <1>1, <1>3 DEF Delivering
    <2>3. verdict'[d] = "accepted" => verdict[d] = "accepted" \/ (d = job[t] /\ Delivering(t)')
      BY <1>0, <1>2, <1>3 DEF IInv, TypeOK, Delivering
    <2>4. \A u \in Threads : pc'[u] = "write" => pc[u] = "write"
      BY <1>2, <1>3
    <2>5. QED
      BY <1>1, <2>1, <2>2, <2>3, <2>4 DEF IInv, Unruled
  <1>10. CASE l # "refused"
    <2>1. Counted' /\ UpdatesCounted'
      BY <1>1, <1>2, <1>3, <1>10, CountsKept DEF Holds, Counting
    <2>2. QED
      BY <1>4, <1>5, <1>8, <1>9, <2>1 DEF IInv
  <1>11. CASE l = "refused"
    <2>1. \A d \in Deliveries :
            Holding(d)' = IF d = job[t] THEN Holding(d) \union {t} ELSE Holding(d)
      BY <1>0, <1>1, <1>3, <1>11 DEF Holding, Holds, Counting
    <2>2. t \notin Holding(job[t])
      BY <1>0 DEF Holding, Holds, Counting
    <2>3. \A d \in Deliveries :
            /\ Cardinality(Holding(d)') \in Nat
            /\ Cardinality(Holding(d)') - refused'[d] = Cardinality(Holding(d)) - refused[d]
      <3> SUFFICES ASSUME NEW d \in Deliveries
                   PROVE /\ Cardinality(Holding(d)') \in Nat
                         /\ Cardinality(Holding(d)') - refused'[d] = Cardinality(Holding(d)) - refused[d]
        OBVIOUS
      <3>1. CASE d = job[t]
        <4>1. Cardinality(Holding(d) \union {t}) = Cardinality(Holding(d)) + 1
          BY <2>2, <3>1, HoldingFinite, FS_AddElement
        <4>2. refused'[d] = refused[d] + 1 /\ refused[d] \in Nat
          BY <1>2, <1>11, <3>1 DEF IInv, TypeOK
        <4>3. Cardinality(Holding(d)') = Cardinality(Holding(d)) + 1
          BY <2>1, <3>1, <4>1
        <4>4. QED
          BY <4>2, <4>3, HoldingFinite
      <3>2. CASE d # job[t]
        <4>1. refused'[d] = refused[d]
          BY <1>0, <1>2, <1>11, <3>2 DEF IInv, TypeOK
        <4>2. QED
          BY <2>1, <3>2, <4>1, HoldingFinite
      <3>3. QED
        BY <3>1, <3>2
    <2>4. Counted'
      <3> SUFFICES ASSUME NEW d \in Deliveries
                   PROVE  attempts'[d] + Cardinality(Holding(d)') <= refused'[d]
        BY DEF Counted
      <3>1. attempts[d] + Cardinality(Holding(d)) <= refused[d] /\ attempts[d] \in Nat
        BY DEF IInv, Counted, TypeOK
      <3>2. QED
        BY <1>1, <1>6, <2>3, <3>1, HoldingFinite
    <2>5. UpdatesCounted'
      <3> SUFFICES ASSUME NEW u \in Threads, Counting(u)'
                   PROVE  update'[u].attempts + Cardinality(Holding(job[u])') <= refused'[job'[u]] + 1
        BY DEF UpdatesCounted
      <3>1. Counting(u) /\ update'[u] = update[u] /\ job'[u] = job[u]
        BY <1>1, <1>3, <1>11 DEF Counting
      <3>2. PICK d \in Deliveries : d = job[u]
        BY <3>1 DEF IInv, TypeOK, Shape, Counting
      <3>3. update[u].attempts + Cardinality(Holding(d)) <= refused[d] + 1
        BY <3>1, <3>2 DEF IInv, UpdatesCounted
      <3>4. update[u].attempts \in Nat
        BY DEF IInv, TypeOK
      <3>5. Holding(job[u])' = Holding(d)'
        BY <3>1, <3>2 DEF Holding
      <3>6. QED
        BY <1>6, <2>3, <3>1, <3>2, <3>3, <3>4, <3>5, HoldingFinite
    <2>6. QED
      BY <1>4, <1>5, <1>8, <1>9, <2>4, <2>5 DEF IInv
  <1>12. QED
    BY <1>10, <1>11

\* What an update writes depends on the row as it is now.
LEMMA LoadIInv ==
  ASSUME IInv, NEW t \in Threads, Load(t)
  PROVE  IInv'
  <1> USE DEF row, threads, history
  <1> DEFINE e == job[t]
             n == attempts[e] + 1
             s == Column(status[e], NewStatus(e, pc[t], n))
             a == IF Counts(pc[t]) THEN n ELSE 0
             l == IF pc[t] = "broken" THEN "fail" ELSE "write"
  <1>0. /\ e \in Deliveries /\ pc[t] \in {"accepted", "refused", "broken"}
        /\ status[e] \in {"PENDING", "DELIVERED", "FAILED"} /\ attempts[e] \in Nat
    BY DEF IInv, TypeOK, Shape, Statuses, Load
  <1>1. /\ UNCHANGED <<status, attempts, batch, job, faults, refused>>
        /\ update' = [update EXCEPT ![t] = [status |-> s, attempts |-> a]]
        /\ pc' = [pc EXCEPT ![t] = l]
        /\ verdict' = IF Late(t, e) /\ verdict[e] # "excused"
                        THEN [verdict EXCEPT ![e] = "overruled"] ELSE verdict
    BY DEF Load, Goto, Judge
  <1>2. s \in {"same", "PENDING", "DELIVERED", "FAILED"} /\ a \in Nat /\ n \in Nat
    BY <1>0 DEF Column, NewStatus
  <1> HIDE DEF s
  <1>3. \A u \in Threads : /\ pc'[u] = IF u = t THEN l ELSE pc[u]
                           /\ update'[u] = IF u = t THEN [status |-> s, attempts |-> a] ELSE update[u]
    BY <1>1 DEF IInv, TypeOK
  <1>4. TypeOK'
    BY <1>1, <1>2 DEF IInv, TypeOK, Statuses, Stages, Verdicts
  <1>5. Shape'
    <2>1. l = "fail" => a = 0
      BY <1>0 DEF Counts
    <2>2. l # "idle" /\ pc[t] # "idle"
      BY <1>0
    <2>3. \A u \in Threads : pc'[u] = "fail" => update'[u].attempts = 0
      BY <1>3, <2>1 DEF IInv, Shape
    <2>4. \A u \in Threads : pc'[u] = "idle" <=> job'[u] = NoJob
      BY <1>1, <1>3, <2>2 DEF IInv, Shape
    <2>5. \A d \in Deliveries : status'[d] = "none" => verdict'[d] = "open"
      BY <1>0, <1>1 DEF IInv, TypeOK, Shape
    <2>6. QED
      BY <1>1, <2>3, <2>4, <2>5 DEF IInv, Shape
  <1>6. \A u \in Threads : Holds(u)' <=> Holds(u)
    BY <1>0, <1>2, <1>3 DEF Holds, Counting, Counts
  <1>7. \A d : Holding(d)' = Holding(d)
    BY <1>1, <1>6 DEF Holding
  <1>8. Counted'
    BY <1>1, <1>7 DEF IInv, Counted
  <1>9. UpdatesCounted'
    <2> SUFFICES ASSUME NEW u \in Threads, Counting(u)'
                 PROVE  update'[u].attempts + Cardinality(Holding(job[u])') <= refused'[job'[u]] + 1
      BY DEF UpdatesCounted
    <2>1. PICK d : d = job[u]
      OBVIOUS
    <2>2. Holding(job[u])' = Holding(d)
      BY <1>1, <1>7, <2>1 DEF Holding
    <2>3. update'[u].attempts + Cardinality(Holding(d)) <= refused[d] + 1
      <3>1. CASE u = t
        <4>1. attempts[e] + Cardinality(Holding(e)) <= refused[e] /\ refused[e] \in Nat
          BY <1>0 DEF IInv, Counted, TypeOK
        <4>2. update'[u].attempts <= attempts[e] + 1 /\ update'[u].attempts \in Nat
          BY <1>0, <1>2, <1>3, <3>1
        <4>3. QED
          BY <1>0, <2>1, <3>1, <4>1, <4>2, HoldingFinite
      <3>2. CASE u # t
        BY <1>3, <2>1, <3>2 DEF IInv, UpdatesCounted, Counting
      <3>3. QED
        BY <3>1, <3>2
    <2>4. QED
      BY <1>1, <2>1, <2>2, <2>3
  <1>10. Blameless'
    <2> SUFFICES ASSUME NEW d \in Deliveries, verdict'[d] # "excused"
                 PROVE  /\ status'[d] = "FAILED" => refused'[d] >= MaxAttempts[d]
                        /\ \A u \in Threads : job'[u] = d =>
                             /\ pc'[u] \notin {"broken", "fail"}
                             /\ pc'[u] = "write" /\ update'[u].status = "FAILED"
                                  => refused'[d] >= MaxAttempts[d]
      BY DEF Blameless
    <2>1. verdict[d] # "excused"
      BY <1>0, <1>1 DEF IInv, TypeOK
    <2>2. ASSUME d = e
          PROVE  l # "fail" /\ (s = "FAILED" => refused[d] >= MaxAttempts[d])
      <3>1. pc[t] # "broken"
        BY <2>1, <2>2 DEF IInv, Blameless
      <3>2. ASSUME s = "FAILED" PROVE refused[d] >= MaxAttempts[d]
        <4>1. pc[t] = "refused" /\ n >= MaxAttempts[e]
          BY <1>0, <3>1, <3>2 DEF s, Column, NewStatus, Exhausted
        <4>2. attempts[e] + Cardinality(Holding(e)) <= refused[e] /\ refused[e] \in Nat
          BY <1>0 DEF IInv, Counted, TypeOK
        <4>3. t \in Holding(e)
          BY <4>1 DEF Holding, Holds
        <4>4. Cardinality(Holding(e)) >= 1
          BY <4>3, HoldingFinite, FS_EmptySet
        <4>5. MaxAttempts[e] \in Nat
          BY <1>0, DeliveryAssumption
        <4>6. QED
          BY <1>0, <2>2, <4>1, <4>2, <4>4, <4>5, HoldingFinite
      <3>3. QED
        BY <1>0, <3>1, <3>2
    <2>3. QED
      BY <1>1, <1>3, <2>1, <2>2 DEF IInv, Blameless
  <1>11. Unruled'
    <2> SUFFICES ASSUME NEW d \in Deliveries, verdict'[d] \in {"open", "accepted", "lost"}
                 PROVE  /\ status'[d] # "FAILED"
                        /\ \A u \in Threads : job'[u] = d /\ pc'[u] = "write" =>
                             /\ update'[u].status \in {"same", "DELIVERED"}
                             /\ update'[u].attempts = 0 =>
                                  update'[u].status = "DELIVERED" \/ status'[d] = "DELIVERED"
                        /\ verdict'[d] = "accepted" =>
                             status'[d] = "DELIVERED" \/ \E u \in Threads : job'[u] = d /\ Delivering(u)'
      BY DEF Unruled
    <2>1. verdict'[d] = verdict[d] /\ (d = e => ~ Late(t, d))
      BY <1>0, <1>1 DEF IInv, TypeOK
    <2>2. \A u \in Threads : Delivering(u) => Delivering(u)'
      BY <1>0, <1>3 DEF Delivering, Counts
    <2>3. ASSUME d = e
          PROVE  /\ s \in {"same", "DELIVERED"}
                 /\ a = 0 => s = "DELIVERED" \/ status[d] = "DELIVERED"
      <3>1. pc[t] # "broken" /\ status[d] # "FAILED"
        BY <2>1, <2>3 DEF IInv, Blameless, Unruled
      <3>2. CASE pc[t] = "accepted"
        BY <1>0, <2>3, <3>1, <3>2 DEF s, Column, NewStatus
      <3>3. CASE pc[t] = "refused"
        <4>1. status[d] = "PENDING" /\ ~ Exhausted(d, n)
          BY <1>0, <2>1, <2>3, <3>1, <3>3 DEF Late
        <4>2. s = "same" /\ a = n /\ n # 0
          BY <1>0, <2>3, <3>3, <4>1 DEF s, Column, NewStatus, Counts
        <4>3. QED
          BY <4>2
      <3>4. QED
        BY <1>0, <3>1, <3>2, <3>3
    <2>4. QED
      BY <1>1, <1>3, <2>1, <2>2, <2>3 DEF IInv, Unruled
  <1>12. QED
    BY <1>4, <1>5, <1>8, <1>9, <1>10, <1>11 DEF IInv

\* A thread ends, or turns to recording a database error, after its update was
\* written or lost: only a held refusal raises the count, and it is held no
\* longer.
LEMMA EndIInv ==
  ASSUME IInv, NEW t \in Threads, NEW l \in {"idle", "broken"},
         pc[t] # "idle",
         Commit(t) \/ UNCHANGED row,
         pc' = [pc EXCEPT ![t] = l],
         update' = [update EXCEPT ![t] = Keep],
         job' = IF l = "idle" THEN [job EXCEPT ![t] = NoJob] ELSE job,
         \/ verdict' = [verdict EXCEPT ![job[t]] = "excused"]
         \/ verdict' = verdict /\ Commit(t) /\ l = "idle",
         faults' \in 0 .. MaxFaults, UNCHANGED <<batch, refused>>
  PROVE  IInv'
  <1> DEFINE e == job[t]
             us == update[t].status
             ua == update[t].attempts
  <1>0. /\ e \in Deliveries /\ status[e] # "none" /\ attempts[e] \in Nat
        /\ ua \in Nat /\ us \in {"same", "PENDING", "DELIVERED", "FAILED"}
    BY DEF IInv, TypeOK, Shape, Statuses
  <1>1. \A u \in Threads : /\ pc'[u] = IF u = t THEN l ELSE pc[u]
                           /\ u # t => update'[u] = update[u] /\ job'[u] = job[u]
                           /\ job'[t] = IF l = "idle" THEN NoJob ELSE e
    BY DEF IInv, TypeOK
  <1>2. \/ UNCHANGED <<status, attempts>>
        \/ /\ pc[t] \in {"write", "fail"}
           /\ status' = [status EXCEPT ![e] = IF us = "same" THEN @ ELSE us]
           /\ attempts' = [attempts EXCEPT ![e] = IF ua = 0 THEN @ ELSE ua]
    BY DEF Commit, row
  <1>3. /\ \A d \in Deliveries : d # e => status'[d] = status[d] /\ attempts'[d] = attempts[d]
        /\ status'[e] = status[e] \/ (pc[t] \in {"write", "fail"} /\ us # "same" /\ status'[e] = us)
        /\ attempts'[e] = attempts[e] \/ (Counting(t) /\ attempts'[e] = ua)
    BY <1>0, <1>2 DEF IInv, TypeOK, Counting, Shape
  <1>4. /\ \A d \in Deliveries : verdict'[d] \in {verdict[d], "excused"}
        /\ \A d \in Deliveries : d # e => verdict'[d] = verdict[d]
        /\ verdict'[e] = "excused" \/ (verdict' = verdict /\ Commit(t) /\ l = "idle")
    BY <1>0 DEF IInv, TypeOK
  <1>5. TypeOK'
    <2>1. status' \in [Deliveries -> Statuses] /\ attempts' \in [Deliveries -> Nat]
      BY <1>0, <1>2 DEF IInv, TypeOK, Statuses
    <2>2. pc' \in [Threads -> Stages] /\ job' \in [Threads -> Deliveries \union {NoJob}]
      BY DEF IInv, TypeOK, Stages
    <2>3. update' \in [Threads -> [status : (Statuses \ {"none"}) \union {"same"}, attempts : Nat]]
      BY DEF IInv, TypeOK, Keep
    <2>4. verdict' \in [Deliveries -> Verdicts]
      BY <1>0 DEF IInv, TypeOK, Verdicts
    <2>5. QED
      BY <2>1, <2>2, <2>3, <2>4 DEF IInv, TypeOK
  <1>6. Shape'
    <2>1. \A d \in Deliveries : status[d] # "none" => status'[d] # "none"
      BY <1>0, <1>3
    <2>2. \A d \in Deliveries : status'[d] = "none" => status[d] = "none" /\ d # e
      BY <1>0, <1>3
    <2>3. update'[t].attempts = 0
      BY DEF IInv, TypeOK, Keep
    <2>4. batch \subseteq Deliveries
      BY DEF IInv, TypeOK
    <2>5. QED
      BY <1>0, <1>1, <1>4, <2>1, <2>2, <2>3, <2>4, DeliveryAssumption DEF IInv, Shape
  <1>7. /\ \A u \in Threads : Holds(u)' => Holds(u) /\ u # t
        /\ \A u \in Threads : Counting(u)' => Counting(u) /\ u # t
    BY <1>1 DEF Holds, Counting
  <1>8. \A d : Holding(d)' \subseteq Holding(d) \ {t}
    BY <1>1, <1>7 DEF Holding
  <1>9. \A d : /\ Cardinality(Holding(d)') \in Nat /\ Cardinality(Holding(d)) \in Nat
               /\ Cardinality(Holding(d)') <= Cardinality(Holding(d))
               /\ t \in Holding(d) => Cardinality(Holding(d)') + 1 <= Cardinality(Holding(d))
    <2> SUFFICES ASSUME NEW d
                 PROVE  /\ Cardinality(Holding(d)') \in Nat /\ Cardinality(Holding(d)) \in Nat
                        /\ Cardinality(Holding(d)') <= Cardinality(Holding(d))
                        /\ t \in Holding(d) => Cardinality(Holding(d)') + 1 <= Cardinality(Holding(d))
      OBVIOUS
    <2>1. IsFiniteSet(Holding(d) \ {t})
      BY HoldingFinite, FS_RemoveElement
    <2>2. Cardinality(Holding(d)') <= Cardinality(Holding(d) \ {t})
      BY <1>8, <2>1, FS_Subset
    <2>3. IsFiniteSet(Holding(d)')
      BY <1>8, <2>1, FS_Subset
    <2>4. Cardinality(Holding(d)') \in Nat /\ Cardinality(Holding(d) \ {t}) \in Nat
      BY <2>1, <2>3, FS_CardinalityType
    <2>5. Cardinality(Holding(d) \ {t}) = IF t \in Holding(d) THEN Cardinality(Holding(d)) - 1
                                                              ELSE Cardinality(Holding(d))
      BY HoldingFinite, FS_RemoveElement
    <2>6. QED
      BY <2>2, <2>4, <2>5, HoldingFinite
  <1>10. Counted'
    <2> SUFFICES ASSUME NEW d \in Deliveries
                 PROVE  attempts'[d] + Cardinality(Holding(d)') <= refused'[d]
      BY DEF Counted
    <2>1. attempts[d] + Cardinality(Holding(d)) <= refused[d]
      BY DEF IInv, Counted
    <2>2. attempts[d] \in Nat /\ refused[d] \in Nat
      BY DEF IInv, TypeOK
    <2>3. CASE attempts'[d] = attempts[d]
      BY <1>9, <2>1, <2>2, <2>3
    <2>4. CASE d = e /\ Counting(t) /\ attempts'[d] = ua
      <3>1. t \in Holding(e)
        BY <2>4 DEF Holding, Holds
      <3>2. ua + Cardinality(Holding(e)) <= refused[e] + 1
        BY <2>4 DEF IInv, UpdatesCounted
      <3>3. QED
        BY <1>0, <1>9, <2>2, <2>4, <3>1, <3>2
    <2>5. QED
      BY <1>3, <2>3, <2>4
  <1>11. UpdatesCounted'
    <2> SUFFICES ASSUME NEW u \in Threads, Counting(u)'
                 PROVE  update'[u].attempts + Cardinality(Holding(job[u])') <= refused'[job'[u]] + 1
      BY DEF UpdatesCounted
    <2>1. Counting(u) /\ update'[u] = update[u] /\ job'[u] = job[u]
      BY <1>1, <1>7
    <2>2. PICK d \in Deliveries : d = job[u]
      BY <2>1 DEF IInv, TypeOK, Shape, Counting
    <2>3. update[u].attempts + Cardinality(Holding(d)) <= refused[d] + 1
      BY <2>1, <2>2 DEF IInv, UpdatesCounted
    <2>4. update[u].attempts \in Nat /\ refused[d] \in Nat
      BY DEF IInv, TypeOK
    <2>5. Holding(job[u])' = Holding(d)'
      BY <2>1, <2>2 DEF Holding
    <2>6. QED
      BY <1>9, <2>1, <2>2, <2>3, <2>4, <2>5
  <1>12. Blameless'
    <2> SUFFICES ASSUME NEW d \in Deliveries, verdict'[d] # "excused"
                 PROVE  /\ status'[d] = "FAILED" => refused'[d] >= MaxAttempts[d]
                        /\ \A u \in Threads : job'[u] = d =>
                             /\ pc'[u] \notin {"broken", "fail"}
                             /\ pc'[u] = "write" /\ update'[u].status = "FAILED"
                                  => refused'[d] >= MaxAttempts[d]
      BY DEF Blameless
    <2>1. /\ verdict[d] # "excused"
          /\ d = e => l = "idle"
      BY <1>4
    <2>2. status'[d] = "FAILED" => refused[d] >= MaxAttempts[d]
      BY <1>0, <1>3, <2>1 DEF IInv, Blameless
    <2>3. \A u \in Threads : job'[u] = d => u # t \/ (d = e /\ l = "broken")
      <3>1. NoJob # d /\ job \in [Threads -> Deliveries \union {NoJob}]
        BY DeliveryAssumption DEF IInv, TypeOK
      <3>2. l = "idle" => job'[t] = NoJob
        BY <1>1, <3>1
      <3>3. QED
        BY <1>1, <3>1, <3>2
    <2>4. QED
      BY <1>1, <2>1, <2>2, <2>3 DEF IInv, Blameless
  <1>13. Unruled'
    <2> SUFFICES ASSUME NEW d \in Deliveries, verdict'[d] \in {"open", "accepted", "lost"}
                 PROVE  /\ status'[d] # "FAILED"
                        /\ \A u \in Threads : job'[u] = d /\ pc'[u] = "write" =>
                             /\ update'[u].status \in {"same", "DELIVERED"}
                             /\ update'[u].attempts = 0 =>
                                  update'[u].status = "DELIVERED" \/ status'[d] = "DELIVERED"
                        /\ verdict'[d] = "accepted" =>
                             status'[d] = "DELIVERED" \/ \E u \in Threads : job'[u] = d /\ Delivering(u)'
      BY DEF Unruled
    <2>1. /\ verdict'[d] = verdict[d] /\ verdict[d] # "excused"
          /\ d = e => Commit(t) /\ l = "idle"
      BY <1>4
    <2>2. d = e => pc[t] = "write" /\ us \in {"same", "DELIVERED"}
                   /\ (ua = 0 => us = "DELIVERED" \/ status[d] = "DELIVERED")
      BY <2>1 DEF IInv, Unruled, Blameless, Commit
    <2>3. status'[d] # "FAILED" /\ (status[d] = "DELIVERED" => status'[d] = "DELIVERED")
      BY <1>0, <1>3, <2>1, <2>2 DEF IInv, Unruled
    <2>4. d = e /\ Delivering(t) => status'[d] = "DELIVERED"
      <3> SUFFICES ASSUME d = e, Delivering(t) PROVE status'[d] = "DELIVERED"
        OBVIOUS
      <3>1. ua = 0
        BY <2>2 DEF Delivering
      <3>2. status'[d] = IF us = "same" THEN status[d] ELSE us
        BY <1>0, <2>1 DEF Commit, IInv, TypeOK
      <3>3. QED
        BY <2>2, <3>1, <3>2
    <2>5. \A u \in Threads : u # t /\ Delivering(u) => Delivering(u)' /\ job'[u] = job[u]
      BY <1>1 DEF Delivering
    <2>6. \A u \in Threads : pc'[u] = "write" => u # t /\ pc[u] = "write"
      BY <1>1
    <2>7. QED
      BY <1>1, <2>1, <2>3, <2>4, <2>5, <2>6 DEF IInv, Unruled
  <1>14. QED
    BY <1>5, <1>6, <1>10, <1>11, <1>12, <1>13 DEF IInv

LEMMA NextIInv == IInv /\ [Next]_vars => IInv'
  <1> SUFFICES ASSUME IInv, [Next]_vars PROVE IInv'
    OBVIOUS
  <1>1. CASE UNCHANGED vars
    <2>1. UNCHANGED <<status, attempts, batch, pc, job, update, faults, refused, verdict>>
      BY <1>1 DEF vars, row, threads, history
    <2>2. TypeOK' /\ Shape' /\ Blameless' /\ Unruled'
      BY <2>1 DEF IInv, TypeOK, Shape, Blameless, Unruled, Delivering
    <2>3. Counted' /\ UpdatesCounted'
      BY <2>1, CountsKept DEF Holds, Counting
    <2>4. QED
      BY <2>2, <2>3 DEF IInv
  <1>2. CASE Next
    <2>1. CASE LoopError \/ (\E B \in SUBSET Deliveries : Select(B)) \/ \E d \in Deliveries : GiveUp(d)
      BY <2>1, LoopIInv
    <2>2. CASE \E t \in Threads, d \in Deliveries : Route(t, d) \/ Redeliver(t, d)
      BY <2>2, StartIInv
    <2>3. CASE Crash
      BY <2>3, CrashIInv
    <2>4. ASSUME NEW t \in Threads, DbError(t)
          PROVE  IInv'
      <3>1. pc[t] # "idle" /\ UNCHANGED <<batch, refused>> /\ faults' \in 0 .. MaxFaults
        BY <2>4, DeliveryAssumption DEF DbError, IInv, TypeOK
      <3>2. update' = [update EXCEPT ![t] = Keep] /\ verdict' = [verdict EXCEPT ![job[t]] = "excused"]
        BY <2>4 DEF DbError, Leave, Judge
      <3>3. \/ pc' = [pc EXCEPT ![t] = "broken"] /\ job' = job
            \/ pc' = [pc EXCEPT ![t] = "idle"] /\ job' = [job EXCEPT ![t] = NoJob]
        BY <2>4 DEF DbError, Leave, Goto
      <3>4. Commit(t) \/ UNCHANGED row
        BY <2>4 DEF DbError
      <3>5. QED
        BY <3>1, <3>2, <3>3, <3>4, EndIInv
    <2>5. CASE \E t \in Threads : Post(t)
      BY <2>5, PostIInv
    <2>6. CASE \E t \in Threads : Load(t)
      BY <2>6, LoadIInv
    <2>7. ASSUME NEW t \in Threads, Write(t)
          PROVE  IInv'
      <3>1. pc[t] # "idle" /\ UNCHANGED <<batch, refused>> /\ faults' \in 0 .. MaxFaults
        BY <2>7 DEF Write, Commit, IInv, TypeOK, history
      <3>2. Commit(t) /\ verdict' = verdict
        BY <2>7 DEF Write, history
      <3>3. /\ update' = [update EXCEPT ![t] = Keep]
            /\ pc' = [pc EXCEPT ![t] = "idle"] /\ job' = [job EXCEPT ![t] = NoJob]
        BY <2>7 DEF Write, Leave, Goto
      <3>4. QED
        BY <3>1, <3>2, <3>3, EndIInv
    <2>8. QED
      BY <1>2, <2>1, <2>2, <2>3, <2>4, <2>5, <2>6, <2>7 DEF Next, Loop, Deliver
  <1>3. QED
    BY <1>1, <1>2

LEMMA Inductive == Spec => []IInv
  BY InitIInv, NextIInv, PTL DEF Spec

\* The variables keep their types.
THEOREM TypeCorrect == Spec => []TypeOK
  <1>1. IInv => TypeOK
    BY DEF IInv
  <1>2. QED
    BY <1>1, Inductive, PTL

\* The attempts recorded for a delivery never exceed the refusals it met,
\* however many threads lose each other's updates (_deliver_sync).
THEOREM CountsAreRefusals == Spec => []AttemptsHonest
  <1>1. IInv => AttemptsHonest
    <2> SUFFICES ASSUME IInv, NEW d \in Deliveries PROVE attempts[d] <= refused[d]
      BY DEF AttemptsHonest
    <2>1. attempts[d] + Cardinality(Holding(d)) <= refused[d]
      BY DEF IInv, Counted
    <2>2. attempts[d] \in Nat /\ refused[d] \in Nat
      BY DEF IInv, TypeOK
    <2>3. QED
      BY <2>1, <2>2, HoldingFinite
  <1>2. QED
    BY <1>1, Inductive, PTL

\* A delivery fails before its attempts are used up only if it was blocked, met
\* a disabled webhook or had a database error of its own, never for what strikes
\* another or for overlapping updates (_deliver_sync, build_retry_update).
THEOREM Persistent == Spec => []NeverGivesUpEarly
  <1>1. IInv => NeverGivesUpEarly
    <2> SUFFICES ASSUME IInv, NEW d \in Deliveries, status[d] = "FAILED",
                        refused[d] < MaxAttempts[d], verdict[d] # "excused"
                 PROVE  FALSE
      BY DEF NeverGivesUpEarly
    <2>1. refused[d] \in Nat /\ MaxAttempts[d] \in Nat
      BY DeliveryAssumption DEF IInv, TypeOK
    <2>2. refused[d] >= MaxAttempts[d]
      BY DEF IInv, Blameless
    <2>3. QED
      BY <2>1, <2>2
  <1>2. QED
    BY <1>1, Inductive, PTL

\* A delivery the endpoint has accepted is left DELIVERED by the threads that
\* overlap, unless one was refused late, with its last attempt or after it read
\* DELIVERED (_deliver_sync, update_delivery_log).
THEOREM AcceptanceStands == Spec => []AcceptedIsDelivered
  <1>1. IInv => AcceptedIsDelivered
    <2> SUFFICES ASSUME IInv, NEW d \in Deliveries, verdict[d] \in {"accepted", "lost"}, ~ Attended(d)
                 PROVE  status[d] = "DELIVERED" \/ (status[d] = "PENDING" /\ verdict[d] = "lost")
      BY DEF AcceptedIsDelivered
    <2>1. status[d] \in {"PENDING", "DELIVERED"}
      BY DEF IInv, TypeOK, Statuses, Shape, Unruled
    <2>2. \A t \in Threads : job[t] # d
      BY DEF Attended
    <2>3. verdict[d] = "accepted" => status[d] = "DELIVERED"
      BY <2>2 DEF IInv, Unruled
    <2>4. QED
      BY <2>1, <2>3
  <1>2. QED
    BY <1>1, Inductive, PTL

=============================================================================
