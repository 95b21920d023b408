---------------------------- MODULE PayrollProofs ----------------------------
(***************************************************************************)
(* Theorems about payroll-java-service.  Payroll runs: for any number of   *)
(* runs, any competition for employee-periods and any size of the          *)
(* connection pool.  Bank transactions: for any number of concurrent and   *)
(* repeated creates and settles.                                           *)
(***************************************************************************)
EXTENDS PayrollRun, PayrollBank, TLAPS

\* Each entry point uses its own program points.
Shape ==
  /\ \A r \in Transactional : pc[r] \notin {"payslip", "audit", "outbox"}
  /\ \A r \in Batched : pc[r] \notin {"commit", "rethrow", "refused"}

\* An uncommitted row belongs to a run that has still to commit or roll back.
OpenRows ==
  /\ \A r \in Transactional : pc[r] = "commit" => r \in tentative
  /\ \A r \in tentative : pc[r] \in {"commit", "failing", "rethrow"} /\ r \notin rows

\* The unique index: inserted rows, committed or not, claim different slots.
OneClaim == \A r, q \in rows \union tentative : ~SameSlot(r, q)

\* What the tables say about a transactional run, by its program point.
Announced ==
  \A r \in Transactional :
     /\ r \in rows => pc[r] = "done"
     /\ Processed(r) \in events <=> r \in rows
     /\ Failed(r) \in events => pc[r] \in {"rethrow", "failed", "crashed"}

\* How far the separate commits of a batched run have come.
BatchWrites ==
  \A r \in Batched :
     /\ pc[r] \in {"payslip", "audit", "outbox", "done"} => r \in rows
     /\ pc[r] \in {"audit", "outbox", "done"} => r \in payslips
     /\ pc[r] \in {"outbox", "done"} => r \in audits
     /\ pc[r] = "done" <=> Processed(r) \in events
     /\ Failed(r) \in events => pc[r] = "failed"

ProgressClean == \A b \in progress : \A r \in Members(b) : pc[r] = "done"

\* The inductive invariant.
IInv == /\ TypeOK
        /\ Shape
        /\ OpenRows
        /\ OneClaim
        /\ Announced
        /\ BatchWrites
        /\ ProgressClean

\* Notices of different runs, and of different types, are different rows.
LEMMA NoticesDiffer ==
  /\ \A r, q : Processed(r) # Failed(q)
  /\ \A r, q : r # q => Processed(r) # Processed(q) /\ Failed(r) # Failed(q)
  BY DEF Processed, Failed

LEMMA InitIInv == Init => IInv
  BY DEF Init, IInv, TypeOK, Shape, OpenRows, OneClaim, Announced, BatchWrites,
         ProgressClean, Runs, Transactional

\* Steps that write no table.
LEMMA QuietIInv ==
  ASSUME IInv, NEW r \in Runs,
         \/ Begin(r) \/ Refuse(r) \/ Check(r) \/ BodyFails(r)
         \/ RecordFailureTimesOut(r) \/ RecordFailureFails(r)
  PROVE  IInv'
  <1> USE RunsAssumption DEF IInv, tables, batchVars, Goto
  <1>0. \E l \in InFlight \union Final :
           /\ pc' = [pc EXCEPT ![r] = l]
           /\ UNCHANGED <<tables, batchVars>>
           /\ pc[r] \notin {"done", "failed", "crashed"}
           /\ l \in {"check", "refused", "failing", "insert", "rethrow", "failed"}
           /\ l = "refused" => r \in Transactional /\ pc[r] = "idle"
           /\ l = "check" => pc[r] = "idle"
           /\ l = "insert" => pc[r] = "check"
           /\ l = "rethrow" => r \in Transactional /\ pc[r] = "failing"
           /\ l = "failed" => r \in Batched /\ pc[r] = "failing"
           /\ l = "failing" => pc[r] \in {"check", "insert", "payslip", "audit",
                                          "outbox", "commit"}
    BY DEF Begin, Refuse, Check, BodyFails, RecordFailureTimesOut, RecordFailureFails,
           AfterCatch, Runs, InFlight, Final
  <1>1. PICK l \in InFlight \union Final :
           /\ pc' = [pc EXCEPT ![r] = l]
           /\ UNCHANGED <<tables, batchVars>>
           /\ pc[r] \notin {"done", "failed", "crashed"}
           /\ l \in {"check", "refused", "failing", "insert", "rethrow", "failed"}
           /\ l = "refused" => r \in Transactional /\ pc[r] = "idle"
           /\ l = "check" => pc[r] = "idle"
           /\ l = "insert" => pc[r] = "check"
           /\ l = "rethrow" => r \in Transactional /\ pc[r] = "failing"
           /\ l = "failed" => r \in Batched /\ pc[r] = "failing"
           /\ l = "failing" => pc[r] \in {"check", "insert", "payslip", "audit",
                                          "outbox", "commit"}
    BY <1>0
  <1>2. \A q \in Runs : pc'[q] = IF q = r THEN l ELSE pc[q]
    BY <1>1 DEF TypeOK
  <1>3. TypeOK'
    BY <1>1 DEF TypeOK
  <1>4. Shape'
    BY <1>1, <1>2 DEF Shape, Runs
  <1>5. OpenRows'
    BY <1>1, <1>2 DEF OpenRows, TypeOK, Runs
  <1>6. OneClaim'
    BY <1>1 DEF OneClaim
  <1>7. Announced'
    BY <1>1, <1>2 DEF Announced, Runs
  <1>8. BatchWrites'
    BY <1>1, <1>2 DEF BatchWrites, Runs
  <1>9. ProgressClean'
    BY <1>1, <1>2 DEF ProgressClean, Members, Runs
  <1>10. QED
    BY <1>3, <1>4, <1>5, <1>6, <1>7, <1>8, <1>9

LEMMA InsertIInv ==
  ASSUME IInv, NEW r \in Runs, Insert(r)
  PROVE  IInv'
  <1> USE RunsAssumption DEF IInv, Insert, tables, batchVars, Goto
  <1>0. pc[r] = "insert" /\ r \notin tentative
    BY DEF OpenRows
  <1>1. CASE /\ \E q \in rows : SameSlot(r, q)
             /\ pc' = [pc EXCEPT ![r] = "failing"]
             /\ UNCHANGED tables
    <2>1. TypeOK'
      BY <1>1 DEF TypeOK, InFlight
    <2>2. Shape' /\ OpenRows' /\ OneClaim'
      BY <1>0, <1>1 DEF Shape, OpenRows, OneClaim, TypeOK, Runs
    <2>3. Announced' /\ BatchWrites' /\ ProgressClean'
      BY <1>0, <1>1 DEF Announced, BatchWrites, ProgressClean, Members, TypeOK, Runs
    <2>4. QED
      BY <2>1, <2>2, <2>3
  <1>2. CASE /\ ~ \E q \in rows : SameSlot(r, q)
             /\ r \in Transactional
             /\ tentative' = tentative \union {r}
             /\ pc' = [pc EXCEPT ![r] = "commit"]
             /\ UNCHANGED <<rows, payslips, audits, events>>
    <2>1. TypeOK'
      BY <1>2 DEF TypeOK, InFlight
    <2>2. r \notin rows
      BY <1>0, <1>2 DEF Announced
    <2>3. Shape' /\ OpenRows'
      BY <1>0, <1>2, <2>2 DEF Shape, OpenRows, TypeOK, Runs
    <2>4. OneClaim'
      BY <1>2 DEF OneClaim, IndexFree, SameSlot
    <2>5. Announced' /\ BatchWrites' /\ ProgressClean'
      BY <1>0, <1>2, <2>2 DEF Announced, BatchWrites, ProgressClean, Members, TypeOK, Runs
    <2>6. QED
      BY <2>1, <2>3, <2>4, <2>5
  <1>3. CASE /\ ~ \E q \in rows : SameSlot(r, q)
             /\ r \in Batched
             /\ rows' = rows \union {r}
             /\ pc' = [pc EXCEPT ![r] = "payslip"]
             /\ UNCHANGED <<tentative, payslips, audits, events>>
    <2>1. TypeOK'
      BY <1>3 DEF TypeOK, InFlight
    <2>2. Shape' /\ OpenRows'
      BY <1>0, <1>3 DEF Shape, OpenRows, TypeOK, Runs
    <2>3. OneClaim'
      BY <1>3 DEF OneClaim, IndexFree, SameSlot
    <2>4. Announced' /\ BatchWrites' /\ ProgressClean'
      BY <1>0, <1>3 DEF Announced, BatchWrites, ProgressClean, Members, TypeOK, Runs
    <2>5. QED
      BY <2>1, <2>2, <2>3, <2>4
  <1>4. QED
    BY <1>1, <1>2, <1>3

\* The separate commits of a batched run after its payroll row.
LEMMA BatchSaveIInv ==
  ASSUME IInv, NEW r \in Runs, SavePayslip(r) \/ SaveAudit(r) \/ SaveEvent(r)
  PROVE  IInv'
  <1> USE RunsAssumption DEF IInv, tables, batchVars, Goto
  <1>0. r \in Batched
    BY DEF Shape, Runs, SavePayslip, SaveAudit, SaveEvent
  <1>1. CASE SavePayslip(r)
    <2>1. TypeOK' /\ Shape' /\ OpenRows' /\ OneClaim'
      BY <1>0, <1>1 DEF SavePayslip, TypeOK, InFlight, Shape, OpenRows, OneClaim, Runs
    <2>2. Announced' /\ BatchWrites' /\ ProgressClean'
      BY <1>0, <1>1 DEF SavePayslip, Announced, BatchWrites, ProgressClean, Members,
                        TypeOK, Runs
    <2>3. QED
      BY <2>1, <2>2
  <1>2. CASE SaveAudit(r)
    <2>1. TypeOK' /\ Shape' /\ OpenRows' /\ OneClaim'
      BY <1>0, <1>2 DEF SaveAudit, TypeOK, InFlight, Shape, OpenRows, OneClaim, Runs
    <2>2. Announced' /\ BatchWrites' /\ ProgressClean'
      BY <1>0, <1>2 DEF SaveAudit, Announced, BatchWrites, ProgressClean, Members,
                        TypeOK, Runs
    <2>3. QED
      BY <2>1, <2>2
  <1>3. CASE SaveEvent(r)
    <2>1. TypeOK' /\ Shape' /\ OpenRows' /\ OneClaim'
      BY <1>0, <1>3 DEF SaveEvent, TypeOK, InFlight, Final, RunEvents, Shape, OpenRows,
                        OneClaim, Runs
    <2>2. \A q \in Transactional :
             /\ Processed(q) \in events' <=> Processed(q) \in events
             /\ Failed(q) \in events' <=> Failed(q) \in events
      BY <1>0, <1>3, NoticesDiffer DEF SaveEvent
    <2>3. Announced'
      BY <1>0, <1>3, <2>2 DEF SaveEvent, Announced, TypeOK, Runs
    <2>4. BatchWrites'
      <3>1. \A q \in Batched :
               /\ Processed(q) \in events' <=> q = r \/ Processed(q) \in events
               /\ Failed(q) \in events' <=> Failed(q) \in events
        BY <1>3, NoticesDiffer DEF SaveEvent
      <3>2. QED
        BY <1>0, <1>3, <3>1 DEF SaveEvent, BatchWrites, TypeOK, Runs
    <2>5. ProgressClean'
      BY <1>0, <1>3 DEF SaveEvent, ProgressClean, Members, TypeOK, Runs
    <2>6. QED
      BY <2>1, <2>3, <2>4, <2>5
  <1>4. QED
    BY <1>1, <1>2, <1>3

LEMMA CommitIInv ==
  ASSUME IInv, NEW r \in Runs, Commit(r)
  PROVE  IInv'
  <1> USE RunsAssumption DEF IInv, Commit, tables, batchVars, Goto
  <1>0. r \in Transactional /\ r \in tentative
    BY DEF Shape, OpenRows, Runs
  <1>1. events' = events \union {Processed(r)}
    BY DEF CommittedEvents
  <1>2. TypeOK'
    BY <1>0, <1>1 DEF TypeOK, InFlight, Final, RunEvents, Runs
  <1>3. Shape' /\ OpenRows'
    BY <1>0 DEF Shape, OpenRows, TypeOK, Runs
  <1>4. OneClaim'
    BY <1>0 DEF OneClaim
  <1>5. Announced'
    <2>1. \A q \in Runs : q # r =>
             /\ Processed(q) \in events' <=> Processed(q) \in events
             /\ Failed(q) \in events' <=> Failed(q) \in events
      BY <1>1, NoticesDiffer
    <2>2. Processed(r) \in events' /\ Failed(r) \notin events'
      BY <1>0, <1>1, NoticesDiffer DEF Announced
    <2>3. QED
      BY <1>0, <2>1, <2>2 DEF Announced, TypeOK, Runs
  <1>6. BatchWrites'
    <2>1. \A q \in Batched :
             /\ Processed(q) \in events' <=> Processed(q) \in events
             /\ Failed(q) \in events' <=> Failed(q) \in events
      BY <1>0, <1>1, NoticesDiffer
    <2>2. QED
      BY <1>0, <2>1 DEF BatchWrites, TypeOK, Runs
  <1>7. ProgressClean'
    BY <1>0 DEF ProgressClean, Members, TypeOK, Runs
  <1>8. QED
    BY <1>2, <1>3, <1>4, <1>5, <1>6, <1>7

\* Rollback at commit time and rollback after an exception.
LEMMA RollbackIInv ==
  ASSUME IInv, NEW r \in Runs, CommitFails(r) \/ Rollback(r)
  PROVE  IInv'
  <1> USE RunsAssumption DEF IInv, CommitFails, Rollback, tables, batchVars, Goto
  <1>0. /\ r \in Transactional
        /\ pc[r] \in {"commit", "rethrow"}
        /\ pc' = [pc EXCEPT ![r] = "failed"]
        /\ tentative' = tentative \ {r}
        /\ UNCHANGED <<rows, payslips, audits, events, progress, closed>>
    BY DEF Shape, Runs
  <1>1. TypeOK' /\ Shape' /\ OpenRows' /\ OneClaim'
    BY <1>0 DEF TypeOK, Final, Shape, OpenRows, OneClaim, Runs
  <1>2. Announced' /\ BatchWrites' /\ ProgressClean'
    BY <1>0 DEF Announced, BatchWrites, ProgressClean, Members, TypeOK, Runs
  <1>3. QED
    BY <1>1, <1>2

LEMMA RecordFailureIInv ==
  ASSUME IInv, NEW r \in Runs, RecordFailure(r)
  PROVE  IInv'
  <1> USE RunsAssumption DEF IInv, RecordFailure, tables, batchVars, Goto
  <1>0. events' = events \union {Failed(r)}
    BY DEF FailureEvents
  <1>1. TypeOK'
    BY <1>0 DEF TypeOK, InFlight, Final, RunEvents, AfterCatch
  <1>2. Shape' /\ OpenRows' /\ OneClaim'
    BY DEF Shape, OpenRows, OneClaim, TypeOK, AfterCatch, Runs
  <1>3. Announced'
    <2>1. \A q \in Runs : Processed(q) \in events' <=> Processed(q) \in events
      BY <1>0, NoticesDiffer
    <2>2. \A q \in Runs : q # r => (Failed(q) \in events' <=> Failed(q) \in events)
      BY <1>0, NoticesDiffer
    <2>3. QED
      BY <2>1, <2>2 DEF Announced, TypeOK, AfterCatch, Runs
  <1>4. BatchWrites'
    <2>1. \A q \in Batched : Processed(q) \in events' <=> Processed(q) \in events
      BY <1>0, NoticesDiffer
    <2>2. \A q \in Batched : q # r => (Failed(q) \in events' <=> Failed(q) \in events)
      BY <1>0, NoticesDiffer
    <2>3. QED
      BY <2>1, <2>2 DEF BatchWrites, TypeOK, AfterCatch, Runs
  <1>5. ProgressClean'
    BY DEF ProgressClean, Members, TypeOK, AfterCatch, Runs
  <1>6. QED
    BY <1>1, <1>2, <1>3, <1>4, <1>5

LEMMA FinishBatchIInv ==
  ASSUME IInv, NEW b \in Batches, FinishBatch(b)
  PROVE  IInv'
  BY DEF IInv, FinishBatch, tables, TypeOK, Shape, OpenRows, OneClaim, Announced,
         BatchWrites, ProgressClean, Members, CleanRun

LEMMA CrashIInv ==
  ASSUME IInv, Crash
  PROVE  IInv'
  <1> USE RunsAssumption DEF IInv, Crash, tables, batchVars
  <1>1. \A r \in Runs : pc'[r] = IF pc[r] \in InFlight THEN "crashed" ELSE pc[r]
    OBVIOUS
  <1>2. TypeOK'
    BY DEF TypeOK, Final
  <1>3. Shape' /\ OpenRows' /\ OneClaim'
    BY <1>1 DEF Shape, OpenRows, OneClaim, InFlight, Runs
  <1>4. Announced' /\ BatchWrites' /\ ProgressClean'
    BY <1>1 DEF Announced, BatchWrites, ProgressClean, Members, InFlight, Runs
  <1>5. QED
    BY <1>2, <1>3, <1>4

LEMMA NextIInv == IInv /\ [Next]_vars => IInv'
  <1> SUFFICES ASSUME IInv, [Next]_vars
               PROVE  IInv'
    OBVIOUS
  <1>1. ASSUME NEW r \in Runs, Begin(r) \/ Refuse(r) PROVE IInv'
    BY <1>1, QuietIInv
  <1>2. ASSUME NEW r \in Runs, Work(r) \/ Fault(r) PROVE IInv'
    BY <1>2, QuietIInv, InsertIInv, BatchSaveIInv, CommitIInv, RollbackIInv,
       RecordFailureIInv DEF Work, Fault
  <1>3. ASSUME NEW b \in Batches, FinishBatch(b) PROVE IInv'
    BY <1>3, FinishBatchIInv
  <1>4. CASE Crash
    BY <1>4, CrashIInv
  <1>5. CASE UNCHANGED vars
    BY <1>5 DEF vars, tables, batchVars, IInv, TypeOK, Shape, OpenRows, OneClaim,
                Announced, BatchWrites, ProgressClean, Members
  <1>6. QED
    BY <1>1, <1>2, <1>3, <1>4, <1>5 DEF Next

LEMMA Invariance == Spec => []IInv
  BY InitIInv, NextIInv, PTL DEF Spec

\* The state of the runs is well formed.
THEOREM TypeCorrect == Spec => []TypeOK
  BY Invariance, PTL DEF IInv

\* No employee-period is paid twice out of one table.
THEOREM PaidOnce == Spec => []OnePerPeriod
  <1>1. IInv => OnePerPeriod
    BY DEF IInv, OneClaim, OnePerPeriod
  <1>2. QED
    BY <1>1, Invariance, PTL

\* A BATCH_PROGRESS row stands for a completely written batch.
THEOREM ProgressComplete == Spec => []ProgressMeansComplete
  <1>1. IInv => ProgressMeansComplete
    BY DEF IInv, ProgressClean, BatchWrites, Members, ProgressMeansComplete
  <1>2. QED
    BY <1>1, Invariance, PTL

\* The outbox and the payroll tables agree about every run, as far as its
\* transactions reach.
THEOREM OutboxTruthful == Spec => []OutboxMatchesLedger
  <1>1. IInv => ProgressMeansComplete
    BY DEF IInv, ProgressClean, BatchWrites, Members, ProgressMeansComplete
  <1>2. IInv => OutboxMatchesLedger
    BY <1>1 DEF IInv, Announced, BatchWrites, OutboxMatchesLedger
  <1>3. QED
    BY <1>2, Invariance, PTL

\* The index entry a run waits for is held by a run that can go on: no run
\* waits for itself, and no two wait for each other.
THEOREM IndexHolderWorks == Spec => []WaitsForAWorker
  <1>1. IInv => WaitsForAWorker
    BY DEF IInv, OpenRows, IndexFree, WaitsForAWorker
  <1>2. QED
    BY <1>1, Invariance, PTL

\* Transactional runs implement the abstract ledger.
THEOREM Implements == Spec => ImplementsLedger
  <1>1. Init => Ledger!Init
    BY DEF Init, Ledger!Init
  <1>2. IInv /\ [Next]_vars => [Ledger!Next]_(Ledger!vars)
    <2> SUFFICES ASSUME IInv, [Next]_vars
                 PROVE  [Ledger!Next]_(Ledger!vars)
      OBVIOUS
    <2> USE RunsAssumption DEF tables, batchVars
    <2> DEFINE notices == {e \in events : e.run \in Transactional}
    <2>0. \A r : Processed(r).run = r /\ Failed(r).run = r
      BY DEF Processed, Failed
    <2>1. ASSUME NEW r \in Runs, Commit(r)
          PROVE  Ledger!Next
      <3>1. r \in Transactional /\ r \in tentative
        BY <2>1 DEF Commit, IInv, Shape, OpenRows, Runs
      <3>2. \A q \in rows : ~SameSlot(q, r)
        BY <3>1 DEF IInv, OneClaim
      <3>3. Failed(r) \notin events
        BY <2>1, <3>1 DEF Commit, IInv, Announced
      <3>4. /\ rows' \intersect Transactional = (rows \intersect Transactional) \union {r}
            /\ notices' = notices \union {Processed(r)}
        BY <2>0, <2>1, <3>1 DEF Commit, CommittedEvents
      <3>5. \A q \in rows \intersect Transactional : Slot(q) # Slot(r)
        BY <3>1, <3>2 DEF SameSlot, IInv, OpenRows
      <3>6. Ledger!Pay(r)
        BY <3>1, <3>3, <3>4, <3>5 DEF Ledger!Pay, Ledger!Processed, Ledger!Failed,
                                      Processed, Failed
      <3>7. QED
        BY <3>1, <3>6 DEF Ledger!Next
    <2>2. ASSUME NEW r \in Transactional, RecordFailure(r)
          PROVE  Ledger!Next
      <3>1. r \notin rows
        BY <2>2 DEF RecordFailure, IInv, Announced
      <3>2. /\ rows' = rows
            /\ notices' = notices \union {Failed(r)}
        BY <2>0, <2>2 DEF RecordFailure, FailureEvents
      <3>3. Ledger!Report(r)
        BY <3>1, <3>2 DEF Ledger!Report, Ledger!Failed, Failed
      <3>4. QED
        BY <3>3 DEF Ledger!Next
    <2>3. ASSUME NEW r \in Batched, Insert(r) \/ SaveEvent(r) \/ RecordFailure(r)
          PROVE  UNCHANGED Ledger!vars
      <3>1. rows' \intersect Transactional = rows \intersect Transactional
        BY <2>3 DEF Insert, SaveEvent, RecordFailure
      <3>2. notices' = notices
        BY <2>0, <2>3 DEF Insert, SaveEvent, RecordFailure, FailureEvents
      <3>3. QED
        BY <3>1, <3>2 DEF Ledger!vars
    <2>4. ASSUME NEW r \in Transactional, Insert(r) \/ SaveEvent(r)
          PROVE  UNCHANGED Ledger!vars
      <3>1. rows' = rows /\ events' = events
        BY <2>4 DEF Insert, SaveEvent, IInv, Shape
      <3>2. QED
        BY <3>1 DEF Ledger!vars
    <2>5. ASSUME NEW r \in Runs,
                 \/ Begin(r) \/ Refuse(r) \/ Check(r) \/ SavePayslip(r) \/ SaveAudit(r)
                 \/ Fault(r) \/ RecordFailureTimesOut(r) \/ Rollback(r)
          PROVE  UNCHANGED Ledger!vars
      BY <2>5 DEF Begin, Refuse, Check, SavePayslip, SaveAudit, Fault, CommitFails, BodyFails,
                  RecordFailureFails, RecordFailureTimesOut, Rollback, Ledger!vars
    <2>6. ASSUME NEW b \in Batches, FinishBatch(b) PROVE UNCHANGED Ledger!vars
      BY <2>6 DEF FinishBatch, Ledger!vars
    <2>7. CASE Crash \/ UNCHANGED vars
      BY <2>7 DEF Crash, vars, Ledger!vars
    <2>8. QED
      BY <2>1, <2>2, <2>3, <2>4, <2>5, <2>6, <2>7 DEF Next, Work, Runs
  <1>3. QED
    BY <1>1, <1>2, Invariance, PTL DEF Spec, ImplementsLedger, Ledger!Spec

-----------------------------------------------------------------------------
(***************************************************************************)
(* Bank transactions.                                                      *)
(***************************************************************************)
\* The unique index: inserted rows, committed or not, differ in reference.
OneTransfer == \A c, d \in transfers \union inserted : SameReference(c, d) => c = d

\* A transfer's create call has answered; an answer is a committed transfer.
Answered ==
  /\ \A c \in Creators : at[c] # "settle"
  /\ \A c \in transfers : at[c] = "answered"
  /\ \A c \in Creators : at[c] = "answered" => answer[c] \in transfers /\ SameReference(c, answer[c])

\* What a settle call read under the lock is still so.
Settling ==
  \A s \in Settlers : at[s] = "settle" => answer[s] \in transfers /\ status[answer[s]] = "PENDING"

\* The status column tells how often the money has moved.
Money ==
  \A t \in Creators :
     /\ moved[t] = IF status[t] = "PROCESSED" THEN 1 ELSE 0
     /\ status[t] = "PROCESSED" => t \in transfers

\* The inductive invariant of the bank transactions.
BankIInv == BankTypeOK /\ OneTransfer /\ Answered /\ Settling /\ Money

LEMMA BankInitIInv == BankInit => BankIInv
  BY BankAssumption DEF BankInit, BankIInv, BankTypeOK, OneTransfer, Answered, Settling, Money, Calls

\* A call that finds a transfer answers with it, any other goes on to insert.
LEMMA FindTransferIInv ==
  ASSUME BankIInv, NEW c \in Creators, FindTransfer(c)
  PROVE  BankIInv'
  <1> USE BankAssumption DEF FindTransfer, MoveTo, BankIInv, Calls
  <1>1. /\ UNCHANGED <<transfers, inserted, status, moved, lockedBy>>
        /\ at' = [at EXCEPT ![c] = at'[c]] /\ at'[c] \in {"answered", "insert"}
        /\ answer' = [answer EXCEPT ![c] = answer'[c]]
        /\ at'[c] = "answered" => answer'[c] \in transfers /\ SameReference(c, answer'[c])
        /\ at[c] = "start" /\ answer'[c] \in Creators \union {Nobody}
    BY DEF BankTypeOK
  <1>2. BankTypeOK'
    BY <1>1 DEF BankTypeOK
  <1>3. OneTransfer' /\ Money'
    BY <1>1 DEF OneTransfer, Money, SameReference
  <1>4. Answered'
    BY <1>1 DEF Answered, BankTypeOK, SameReference
  <1>5. Settling'
    BY <1>1 DEF Settling, BankTypeOK
  <1>6. QED
    BY <1>2, <1>3, <1>4, <1>5

\* The index admits one uncommitted or committed row of a reference.
LEMMA InsertTransferIInv ==
  ASSUME BankIInv, NEW c \in Creators, InsertTransfer(c)
  PROVE  BankIInv'
  <1> USE BankAssumption DEF InsertTransfer, MoveTo, BankIInv, Calls
  <1>1. /\ UNCHANGED <<transfers, status, moved, answer, lockedBy>>
        /\ at' = [at EXCEPT ![c] = at'[c]] /\ at'[c] \in {"error", "commit"}
        /\ at[c] = "insert"
        /\ inserted' = IF at'[c] = "commit" THEN inserted \union {c} ELSE inserted
        /\ at'[c] = "commit" => \A t \in inserted \union transfers : ~SameReference(c, t)
    BY DEF BankTypeOK, ReferenceTaken
  <1>2. BankTypeOK'
    BY <1>1 DEF BankTypeOK
  <1>3. OneTransfer'
    BY <1>1 DEF OneTransfer, SameReference
  <1>4. Answered'
    BY <1>1 DEF Answered, BankTypeOK, SameReference
  <1>5. Settling' /\ Money'
    BY <1>1 DEF Settling, Money, BankTypeOK
  <1>6. QED
    BY <1>2, <1>3, <1>4, <1>5

LEMMA CommitTransferIInv ==
  ASSUME BankIInv, NEW c \in Creators, CommitTransfer(c)
  PROVE  BankIInv'
  <1> USE BankAssumption DEF CommitTransfer, MoveTo, BankIInv, Calls
  <1>1. /\ UNCHANGED <<status, moved, lockedBy>> /\ at[c] = "commit" /\ c \in inserted
        /\ at' = [at EXCEPT ![c] = "answered"] /\ answer' = [answer EXCEPT ![c] = c]
        /\ inserted' = inserted \ {c} /\ transfers' = transfers \union {c}
    BY DEF BankTypeOK
  <1>2. BankTypeOK'
    BY <1>1 DEF BankTypeOK
  <1>3. OneTransfer'
    BY <1>1 DEF OneTransfer, SameReference
  <1>4. Answered'
    BY <1>1 DEF Answered, BankTypeOK, SameReference
  <1>5. Settling' /\ Money'
    BY <1>1 DEF Settling, Money, BankTypeOK
  <1>6. QED
    BY <1>2, <1>3, <1>4, <1>5

\* The lock is taken on a committed row that is free and still PENDING.
LEMMA LockTransferIInv ==
  ASSUME BankIInv, NEW s \in Settlers, NEW t \in Creators, LockTransfer(s, t)
  PROVE  BankIInv'
  <1> USE BankAssumption DEF LockTransfer, MoveTo, BankIInv, Calls
  <1>1. /\ UNCHANGED <<transfers, inserted, status, moved>>
        /\ at' = [at EXCEPT ![s] = at'[s]] /\ at'[s] \in {"answered", "settle"}
        /\ answer' = [answer EXCEPT ![s] = t] /\ t \in transfers
        /\ lockedBy' = IF at'[s] = "settle" THEN [lockedBy EXCEPT ![t] = s] ELSE lockedBy
        /\ lockedBy[t] = Nobody /\ at[s] = "start"
        /\ at'[s] = "settle" => status[t] = "PENDING"
    BY DEF BankTypeOK, RowFree, Replay
  <1>2. BankTypeOK'
    <2>1. \A u \in Settlers : at'[u] = "settle" => lockedBy'[answer'[u]] = u
      <3> SUFFICES ASSUME NEW u \in Settlers, at'[u] = "settle"
                   PROVE  lockedBy'[answer'[u]] = u
        OBVIOUS
      <3>1. CASE u = s
        BY <1>1, <3>1 DEF BankTypeOK
      <3>2. CASE u # s
        <4>1. at[u] = "settle" /\ answer'[u] = answer[u] /\ lockedBy[answer[u]] = u
          BY <1>1, <3>2 DEF BankTypeOK
        <4>2. answer[u] # t
          BY <1>1, <4>1
        <4>3. answer[u] \in Creators
          BY <4>1 DEF Settling, BankTypeOK
        <4>4. QED
          BY <1>1, <4>1, <4>2, <4>3 DEF BankTypeOK
      <3>3. QED
        BY <3>1, <3>2
    <2>2. QED
      BY <1>1, <2>1 DEF BankTypeOK
  <1>3. OneTransfer' /\ Money'
    BY <1>1 DEF OneTransfer, Money, SameReference
  <1>4. Answered'
    BY <1>1 DEF Answered, BankTypeOK, SameReference
  <1>5. Settling'
    BY <1>1 DEF Settling, BankTypeOK
  <1>6. QED
    BY <1>2, <1>3, <1>4, <1>5

\* Only the holder of the lock settles, so the money moves from 0 to 1.
LEMMA SettleIInv ==
  ASSUME BankIInv, NEW s \in Settlers, Settle(s)
  PROVE  BankIInv'
  <1> USE BankAssumption DEF Settle, MoveTo, BankIInv, Calls
  <1> DEFINE t == answer[s]
  <1>1. /\ UNCHANGED <<transfers, inserted, answer>> /\ at[s] = "settle"
        /\ at' = [at EXCEPT ![s] = "answered"]
        /\ status' = [status EXCEPT ![t] = "PROCESSED"]
        /\ moved' = [moved EXCEPT ![t] = @ + 1]
        /\ lockedBy' = [lockedBy EXCEPT ![t] = Nobody]
        /\ t \in transfers /\ t \in Creators /\ status[t] = "PENDING" /\ lockedBy[t] = s
    BY DEF BankTypeOK, Settling
  <1> HIDE DEF t
  <1>2. \A u \in Settlers \ {s} :
           at'[u] = "settle" => /\ at[u] = "settle" /\ lockedBy[answer[u]] = u /\ answer[u] # t
                                /\ answer[u] \in transfers /\ answer[u] \in Creators
                                /\ status[answer[u]] = "PENDING"
    BY <1>1 DEF BankTypeOK, Settling
  <1>3. BankTypeOK'
    BY <1>1, <1>2 DEF BankTypeOK
  <1>4. OneTransfer'
    BY <1>1 DEF OneTransfer, SameReference
  <1>5. Answered'
    BY <1>1 DEF Answered, BankTypeOK, SameReference
  <1>6. Settling'
    BY <1>1, <1>2 DEF Settling, BankTypeOK
  <1>7. Money'
    BY <1>1 DEF Money, BankTypeOK
  <1>8. QED
    BY <1>3, <1>4, <1>5, <1>6, <1>7

LEMMA DieIInv ==
  ASSUME BankIInv, NEW x \in Calls, Die(x)
  PROVE  BankIInv'
  <1> USE BankAssumption DEF Die, MoveTo, BankIInv, Calls
  <1>1. /\ UNCHANGED <<transfers, status, moved, answer>>
        /\ at[x] \in {"insert", "commit", "settle"} /\ at' = [at EXCEPT ![x] = "error"]
        /\ inserted' = inserted \ {x}
        /\ \A t \in Creators : lockedBy'[t] = IF lockedBy[t] = x THEN Nobody ELSE lockedBy[t]
        /\ lockedBy' \in [Creators -> Settlers \union {Nobody}]
    BY DEF BankTypeOK
  <1>2. BankTypeOK'
    <2>1. \A s \in Settlers : at'[s] = "settle" => lockedBy'[answer'[s]] = s
      BY <1>1 DEF BankTypeOK, Settling
    <2>2. inserted' = {c \in Creators : at'[c] = "commit"}
      BY <1>1 DEF BankTypeOK
    <2>3. at' \in [Calls -> {"start", "insert", "commit", "settle", "answered", "error"}]
      BY <1>1 DEF BankTypeOK
    <2>4. QED
      BY <1>1, <2>1, <2>2, <2>3 DEF BankTypeOK
  <1>3. OneTransfer' /\ Money'
    BY <1>1 DEF OneTransfer, Money, SameReference
  <1>4. Answered'
    BY <1>1 DEF Answered, BankTypeOK, SameReference
  <1>5. Settling'
    BY <1>1 DEF Settling, BankTypeOK
  <1>6. QED
    BY <1>2, <1>3, <1>4, <1>5

LEMMA BankNextIInv == BankIInv /\ [BankNext]_bankVars => BankIInv'
  <1> SUFFICES ASSUME BankIInv, [BankNext]_bankVars PROVE BankIInv'
    OBVIOUS
  <1>1. CASE UNCHANGED bankVars
    BY <1>1 DEF bankVars, BankIInv, BankTypeOK, OneTransfer, Answered, Settling, Money, SameReference
  <1>2. QED
    BY <1>1, FindTransferIInv, InsertTransferIInv, CommitTransferIInv, LockTransferIInv, SettleIInv,
       DieIInv DEF BankNext

LEMMA BankInvariance == BankSpec => []BankIInv
  BY BankInitIInv, BankNextIInv, PTL DEF BankSpec

\* Rows in insertion are those of the creates about to commit, and a settle
\* call that passed the lock holds it (processBankTransaction).
THEOREM BankTypeCorrect == BankSpec => []BankTypeOK
  BY BankInvariance, PTL DEF BankIInv

\* The money of a payroll line moves once, however many creates and settles
\* of it race, die and are repeated (createBankTransaction's reference and
\* processBankTransaction's lock).
THEOREM MovedOnce == BankSpec => []LinePaidOnce
  <1>1. BankIInv => LinePaidOnce
    BY DEF BankIInv, BankTypeOK, OneTransfer, Money, LinePaidOnce
  <1>2. QED
    BY <1>1, BankInvariance, PTL

\* Every answered create of a line names the same committed transfer
\* (createBankTransaction).
THEOREM SameAnswer == BankSpec => []RetriesAgree
  <1>1. BankIInv => RetriesAgree
    BY DEF BankIInv, BankTypeOK, OneTransfer, Answered, SameReference, RetriesAgree
  <1>2. QED
    BY <1>1, BankInvariance, PTL

\* The calls refine the contract of deposits: a committed insert opens the
\* line's transfer, a look-up that finds it tells it, a settle pays it
\* (createBankTransaction, processBankTransaction).
THEOREM BankImplements == BankSpec => ImplementsDeposits
  <1>1. BankInit => Deposits!Init
    BY BankAssumption DEF BankInit, Deposits!Init, Calls
  <1>2. BankIInv /\ [BankNext]_bankVars => [Deposits!Next]_(Deposits!vars)
    <2> SUFFICES ASSUME BankIInv, [BankNext]_bankVars
                 PROVE  Deposits!Next \/ UNCHANGED Deposits!vars
      OBVIOUS
    <2> USE BankAssumption DEF MoveTo, Calls
    <2>1. ASSUME NEW c \in Creators, FindTransfer(c)
          PROVE  Deposits!Next \/ UNCHANGED Deposits!vars
      <3>1. CASE at'[c] = "answered"
        <4>1. PICK t \in transfers : /\ SameReference(c, t) /\ at[c] = "start"
                                     /\ answer' = [answer EXCEPT ![c] = t]
                                     /\ at' = [at EXCEPT ![c] = "answered"]
          BY <2>1, <3>1 DEF FindTransfer, BankIInv, BankTypeOK
        <4>2. t \in Creators /\ UNCHANGED <<transfers, moved>>
          BY <2>1 DEF FindTransfer, BankIInv, BankTypeOK
        <4>3. Deposits!Tell(c, t)
          BY <4>1, <4>2 DEF Deposits!Tell, SameReference, BankIInv, BankTypeOK
        <4>4. QED
          BY <4>2, <4>3 DEF Deposits!Next
      <3>2. CASE at'[c] # "answered"
        <4>1. /\ at[c] = "start" /\ at' = [at EXCEPT ![c] = "insert"]
              /\ UNCHANGED <<transfers, moved, answer>>
          BY <2>1, <3>2 DEF FindTransfer, BankIInv, BankTypeOK
        <4>2. QED
          BY <4>1 DEF Deposits!vars, BankIInv, BankTypeOK
      <3>3. QED
        BY <3>1, <3>2
    <2>2. ASSUME NEW c \in Creators, InsertTransfer(c) PROVE UNCHANGED Deposits!vars
      <3>1. /\ at[c] = "insert" /\ at' = [at EXCEPT ![c] = at'[c]] /\ at'[c] # "answered"
            /\ UNCHANGED <<transfers, moved, answer>>
        BY <2>2 DEF InsertTransfer, BankIInv, BankTypeOK
      <3>2. QED
        BY <3>1 DEF Deposits!vars, BankIInv, BankTypeOK
    <2>3. ASSUME NEW c \in Creators, CommitTransfer(c) PROVE Deposits!Next
      <3>1. \A t \in transfers : LineOf[t] # LineOf[c]
        BY <2>3 DEF CommitTransfer, BankIInv, BankTypeOK, OneTransfer, Answered, SameReference
      <3>2. /\ at' = [at EXCEPT ![c] = "answered"] /\ answer' = [answer EXCEPT ![c] = c]
            /\ transfers' = transfers \union {c} /\ UNCHANGED moved
        BY <2>3 DEF CommitTransfer
      <3>3. Deposits!Open(c)
        BY <3>1, <3>2 DEF Deposits!Open, BankIInv, BankTypeOK
      <3>4. QED
        BY <3>3 DEF Deposits!Next
    <2>4. ASSUME NEW s \in Settlers, NEW t \in Creators, LockTransfer(s, t)
          PROVE  UNCHANGED Deposits!vars
      <3>1. /\ UNCHANGED <<transfers, moved>>
            /\ \A c \in Creators : at'[c] = at[c] /\ answer'[c] = answer[c]
        BY <2>4 DEF LockTransfer, BankIInv, BankTypeOK
      <3>2. QED
        BY <3>1 DEF Deposits!vars
    <2>5. ASSUME NEW s \in Settlers, Settle(s) PROVE Deposits!Next
      <3>1. /\ answer[s] \in transfers /\ answer[s] \in Creators /\ moved[answer[s]] = 0
            /\ moved' = [moved EXCEPT ![answer[s]] = 1] /\ UNCHANGED transfers
            /\ \A c \in Creators : at'[c] = at[c] /\ answer'[c] = answer[c]
        <4>1. /\ at[s] = "settle" /\ answer[s] \in transfers /\ transfers \subseteq Creators
              /\ status[answer[s]] = "PENDING"
          BY <2>5 DEF Settle, BankIInv, BankTypeOK, Settling
        <4>2. moved[answer[s]] = 0
          BY <4>1 DEF BankIInv, Money
        <4>3. moved' = [moved EXCEPT ![answer[s]] = 1] /\ UNCHANGED <<transfers, answer>>
          BY <2>5, <4>2 DEF Settle
        <4>4. \A c \in Creators : at'[c] = at[c]
          BY <2>5 DEF Settle, BankIInv, BankTypeOK
        <4>5. QED
          BY <4>1, <4>2, <4>3, <4>4
      <3>2. Deposits!Pay(answer[s])
        BY <3>1 DEF Deposits!Pay
      <3>3. QED
        BY <3>1, <3>2 DEF Deposits!Next
    <2>6. ASSUME NEW x \in Calls, Die(x) PROVE UNCHANGED Deposits!vars
      <3>1. /\ at[x] # "answered" /\ at' = [at EXCEPT ![x] = "error"]
            /\ UNCHANGED <<transfers, moved, answer>>
        BY <2>6 DEF Die
      <3>2. QED
        BY <3>1 DEF Deposits!vars, BankIInv, BankTypeOK
    <2>7. CASE UNCHANGED bankVars
      BY <2>7 DEF bankVars, Deposits!vars
    <2>8. QED
      BY <2>1, <2>2, <2>3, <2>4, <2>5, <2>6, <2>7 DEF BankNext
  <1>3. QED
    BY <1>1, <1>2, BankInvariance, PTL DEF BankSpec, ImplementsDeposits, Deposits!Spec

=============================================================================
