-------------------------- MODULE PayrollSagaProofs --------------------------
(***************************************************************************)
(* Theorems about the outbox publisher of payroll-java-service, for any    *)
(* rows, replicas and limits; and about the compensation saga on top of    *)
(* it, for any records, messages and listeners.  The publisher's part      *)
(* rests on OutboxAssumption alone, the saga's on SagaAssumption too.      *)
(***************************************************************************)
EXTENDS PayrollSaga, FiniteSetTheorems, TLAPS

\* The row locks at work: a poll holds rows that are open and still have an
\* attempt left, its three lists are disjoint, and no row is in two polls.
LocksHold ==
  /\ \A p \in Publishers : \A e \in Locked(p) :
        e \in Pending /\ retries[e] < MaxRetries
  /\ \A p \in Publishers :
        /\ todo[p] \intersect (ok[p] \union nok[p]) = {}
        /\ ok[p] \intersect nok[p] = {}
  /\ \A p, q \in Publishers : p # q => Locked(p) \intersect Locked(q) = {}

\* Rows nobody wrote are untouched; an open row is below its limit, a dead
\* one at it.
Attempts ==
  /\ \A e \in Events \ events : retries[e] = 0 /\ handed[e] = 0
  /\ \A e \in events : e \in dead <=> retries[e] = MaxRetries
  /\ \A e \in dlq : retries[e] + 1 >= MaxRetries

\* Copies: one per lost transaction, and one more that the row's status or
\* the poll in progress remembers.
Copies ==
  /\ \A e \in Events : handed[e] <= aborts + 1
  /\ \A e \in Events :
        e \notin sent /\ (\A p \in Publishers : e \notin ok[p]) => handed[e] <= aborts
  /\ \A p \in Publishers : \A e \in ok[p] : handed[e] >= 1

\* The inductive invariant.
IInv == TypeOK /\ LocksHold /\ Attempts /\ Copies

LEMMA InitIInv == Init => IInv
  BY OutboxAssumption DEF Init, IInv, TypeOK, LocksHold, Attempts, Copies, Locked, Pending

LEMMA AppendIInv ==
  ASSUME IInv, NEW e \in Events, Append(e)
  PROVE  IInv'
  <1> USE OutboxAssumption DEF IInv, Append, table, poll
  <1>1. TypeOK'
    BY DEF TypeOK
  <1>2. LocksHold'
    BY DEF LocksHold, Locked, Pending, TypeOK
  <1>3. Attempts'
    BY DEF Attempts, TypeOK
  <1>4. Copies'
    BY DEF Copies
  <1>5. QED
    BY <1>1, <1>2, <1>3, <1>4

LEMMA PollIInv ==
  ASSUME IInv, NEW p \in Publishers, Poll(p)
  PROVE  IInv'
  <1> USE OutboxAssumption DEF IInv, Poll, table, poll, TypeOK
  <1>1. TypeOK'
    BY DEF Selected, Pending
  <1>2. LocksHold'
    <2>1. Locked(p)' = Selected /\ \A q \in Publishers \ {p} : Locked(q)' = Locked(q)
      BY DEF Locked
    <2>2. \A e \in Selected : e \in Pending' /\ retries'[e] < MaxRetries
      BY DEF Selected, Pending
    <2>3. \A q \in Publishers \ {p} : Selected \intersect Locked(q) = {}
      BY DEF LockFree
    <2>4. \A q \in Publishers :
             /\ todo'[q] \intersect (ok'[q] \union nok'[q]) = {}
             /\ ok'[q] \intersect nok'[q] = {}
      BY DEF LocksHold, Locked
    <2>5. Pending' = Pending /\ retries' = retries
      BY DEF Pending
    <2>6. \A q \in Publishers : \A e \in Locked(q)' : e \in Pending' /\ retries'[e] < MaxRetries
      BY <2>1, <2>2, <2>5 DEF LocksHold
    <2>7. \A q, r \in Publishers : q # r => Locked(q)' \intersect Locked(r)' = {}
      BY <2>1, <2>3 DEF LocksHold
    <2>8. QED
      BY <2>4, <2>6, <2>7 DEF LocksHold
  <1>3. Attempts'
    BY DEF Attempts
  <1>4. Copies'
    BY DEF Copies
  <1>5. QED
    BY <1>1, <1>2, <1>3, <1>4

LEMMA SendOkIInv ==
  ASSUME IInv, NEW p \in Publishers, NEW e \in Events, SendOk(p, e)
  PROVE  IInv'
  <1> USE OutboxAssumption DEF IInv, SendOk, table, poll, TypeOK
  <1>1. TypeOK'
    OBVIOUS
  <1>2. \A q \in Publishers : Locked(q)' = Locked(q)
    BY DEF Locked
  <1>3. e \in Locked(p) /\ e \in Pending
    BY DEF Locked, LocksHold
  <1>4. LocksHold'
    <2>1. Pending' = Pending /\ retries' = retries
      BY DEF Pending
    <2>2. \A q \in Publishers :
             /\ todo'[q] \intersect (ok'[q] \union nok'[q]) = {}
             /\ ok'[q] \intersect nok'[q] = {}
      BY DEF LocksHold
    <2>3. QED
      BY <1>2, <2>1, <2>2 DEF LocksHold
  <1>5. Attempts'
    BY DEF Attempts
  <1>6. Copies'
    <2>1. e \notin sent
      BY <1>3 DEF Pending
    <2>2. \A q \in Publishers : e \notin ok[q]
      <3>1. e \notin ok[p]
        BY DEF LocksHold
      <3>2. \A q \in Publishers \ {p} : e \notin ok[q]
        BY <1>3 DEF LocksHold, Locked
      <3>3. QED
        BY <3>1, <3>2
    <2>3. handed[e] <= aborts
      BY <2>1, <2>2 DEF Copies
    <2>4. QED
      BY <2>3 DEF Copies
  <1>7. QED
    BY <1>1, <1>4, <1>5, <1>6

LEMMA SendFailsIInv ==
  ASSUME IInv, NEW p \in Publishers, NEW e \in Events, SendFails(p, e)
  PROVE  IInv'
  <1> USE OutboxAssumption DEF IInv, SendFails, table, poll, TypeOK
  <1>1. dlq' = dlq \/ (dlq' = dlq \union {e} /\ GivesUp(e))
    OBVIOUS
  <1>2. TypeOK'
    BY <1>1
  <1>3. \A q \in Publishers : Locked(q)' = Locked(q)
    BY DEF Locked
  <1>4. LocksHold'
    <2>1. Pending' = Pending /\ retries' = retries
      BY DEF Pending
    <2>2. \A q \in Publishers :
             /\ todo'[q] \intersect (ok'[q] \union nok'[q]) = {}
             /\ ok'[q] \intersect nok'[q] = {}
      BY DEF LocksHold
    <2>3. QED
      BY <1>3, <2>1, <2>2 DEF LocksHold
  <1>5. Attempts'
    BY <1>1 DEF Attempts, GivesUp
  <1>6. Copies'
    BY DEF Copies
  <1>7. QED
    BY <1>2, <1>4, <1>5, <1>6

LEMMA CommitIInv ==
  ASSUME IInv, NEW p \in Publishers, Commit(p)
  PROVE  IInv'
  <1> USE OutboxAssumption DEF IInv, Commit, table, poll
  <1>1. /\ sent' = sent \union ok[p]
        /\ dead' = dead \union {e \in nok[p] : GivesUp(e)}
    BY DEF SentRows
  <1>2. \A e \in ok[p] \union nok[p] : e \in Pending /\ retries[e] < MaxRetries
    BY DEF LocksHold, Locked
  <1>3. ok[p] \intersect nok[p] = {} /\ todo[p] = {}
    BY DEF LocksHold
  <1>4. \A e \in Events : retries'[e] = IF e \in nok[p] THEN retries[e] + 1 ELSE retries[e]
    OBVIOUS
  <1>5. TypeOK'
    <2>1. retries' \in [Events -> 0..MaxRetries]
      BY <1>2 DEF TypeOK
    <2>2. sent' \intersect dead' = {}
      BY <1>1, <1>2, <1>3 DEF TypeOK, Pending
    <2>3. QED
      BY <1>1, <1>2, <2>1, <2>2 DEF TypeOK, Pending
  <1>6. LocksHold'
    <2>1. Locked(p)' = {} /\ \A q \in Publishers \ {p} : Locked(q)' = Locked(q)
      BY <1>3 DEF Locked, TypeOK
    <2>2. \A q \in Publishers \ {p} : \A e \in Locked(q) :
             e \in Pending' /\ retries'[e] < MaxRetries
      <3>1. SUFFICES ASSUME NEW q \in Publishers \ {p}, NEW e \in Locked(q)
                     PROVE  e \in Pending' /\ retries'[e] < MaxRetries
        OBVIOUS
      <3>2. e \in Pending /\ retries[e] < MaxRetries /\ e \notin Locked(p)
        BY DEF LocksHold
      <3>3. e \notin ok[p] /\ e \notin nok[p] /\ e \in Events
        BY <3>2 DEF Locked, Pending, TypeOK
      <3>4. QED
        BY <3>2, <3>3, <1>1, <1>4 DEF Pending
    <2>3. \A q \in Publishers :
             /\ todo'[q] \intersect (ok'[q] \union nok'[q]) = {}
             /\ ok'[q] \intersect nok'[q] = {}
      BY DEF LocksHold, TypeOK
    <2>4. QED
      BY <2>1, <2>2, <2>3 DEF LocksHold
  <1>7. Attempts'
    <2>1. \A e \in Events \ events : e \notin nok[p]
      BY DEF TypeOK
    <2>2. \A e \in events : e \in dead' <=> retries'[e] = MaxRetries
      <3>1. SUFFICES ASSUME NEW e \in events
                     PROVE  e \in dead' <=> retries'[e] = MaxRetries
        OBVIOUS
      <3>2. e \in Events /\ retries[e] \in 0..MaxRetries
        BY DEF TypeOK
      <3>3. CASE e \in nok[p]
        BY <3>2, <3>3, <1>1, <1>2, <1>4 DEF GivesUp, Pending
      <3>4. CASE e \notin nok[p]
        BY <3>2, <3>4, <1>1, <1>4 DEF Attempts
      <3>5. QED
        BY <3>3, <3>4
    <2>3. \A e \in dlq : retries'[e] + 1 >= MaxRetries
      BY <1>4 DEF Attempts, TypeOK
    <2>4. QED
      BY <2>1, <2>2, <2>3, <1>4 DEF Attempts, TypeOK
  <1>8. Copies'
    <2>1. \A e \in Events :
             e \notin sent' /\ (\A q \in Publishers : e \notin ok'[q])
               => e \notin sent /\ (\A q \in Publishers : e \notin ok[q])
      BY <1>1 DEF TypeOK
    <2>2. \A q \in Publishers : ok'[q] \subseteq ok[q]
      BY DEF TypeOK
    <2>3. QED
      BY <2>1, <2>2 DEF Copies
  <1>9. QED
    BY <1>5, <1>6, <1>7, <1>8

LEMMA AbortIInv ==
  ASSUME IInv, NEW p \in Publishers, Abort(p)
  PROVE  IInv'
  <1> USE OutboxAssumption DEF IInv, Abort, table, poll, TypeOK
  <1>1. TypeOK'
    OBVIOUS
  <1>2. LocksHold'
    <2>1. \A q \in Publishers : Locked(q)' \subseteq Locked(q)
      BY DEF Locked
    <2>2. Pending' = Pending /\ retries' = retries
      BY DEF Pending
    <2>3. \A q \in Publishers :
             /\ todo'[q] \intersect (ok'[q] \union nok'[q]) = {}
             /\ ok'[q] \intersect nok'[q] = {}
      BY DEF LocksHold
    <2>4. QED
      BY <2>1, <2>2, <2>3 DEF LocksHold
  <1>3. Attempts'
    BY DEF Attempts
  <1>4. Copies'
    <2>1. \A q \in Publishers : ok'[q] \subseteq ok[q]
      OBVIOUS
    <2>2. QED
      BY <2>1 DEF Copies
  <1>5. QED
    BY <1>1, <1>2, <1>3, <1>4

LEMMA NextIInv == IInv /\ [Next]_vars => IInv'
  <1> SUFFICES ASSUME IInv, [Next]_vars
               PROVE  IInv'
    OBVIOUS
  <1>1. CASE UNCHANGED vars
    BY <1>1 DEF vars, table, poll, IInv, TypeOK, LocksHold, Attempts, Copies,
                Locked, Pending
  <1>2. ASSUME NEW e \in Events, Append(e) PROVE IInv'
    BY <1>2, AppendIInv
  <1>3. ASSUME NEW p \in Publishers, Work(p) PROVE IInv'
    BY <1>3, PollIInv, SendOkIInv, SendFailsIInv, CommitIInv DEF Work
  <1>4. ASSUME NEW p \in Publishers, Abort(p) PROVE IInv'
    BY <1>4, AbortIInv
  <1>5. QED
    BY <1>1, <1>2, <1>3, <1>4 DEF Next

LEMMA Invariance == Spec => []IInv
  BY InitIInv, NextIInv, PTL DEF Spec

\* The state of the publisher is well formed.
THEOREM TypeCorrect == Spec => []TypeOK
  BY Invariance, PTL DEF IInv

\* However many replicas poll, a row is sent once more than there were lost
\* transactions at most (findPendingEventsWithLock).
THEOREM DuplicatesBounded == Spec => []DuplicatesNeedAborts
  <1>1. IInv => DuplicatesNeedAborts
    BY OutboxAssumption DEF IInv, TypeOK, Copies, DuplicatesNeedAborts
  <1>2. QED
    BY <1>1, Invariance, PTL

\* The retry limit is neither missed nor exceeded (publishPendingEvents).
THEOREM RetryLimit == Spec => []RetryLimitExact
  <1>1. IInv => RetryLimitExact
    BY DEF IInv, Attempts, RetryLimitExact
  <1>2. QED
    BY <1>1, Invariance, PTL

\* The publisher implements the abstract outbox: every step of it is a step
\* of the contract or leaves the contract's state alone.
THEOREM Implements == Spec => ImplementsContract
  <1>1. Init => Contract!Init
    BY DEF Init, Contract!Init
  <1>2. IInv /\ [Next]_vars => [Contract!Next]_(Contract!vars)
    <2> SUFFICES ASSUME IInv, [Next]_vars
                 PROVE  [Contract!Next]_(Contract!vars)
      OBVIOUS
    <2> USE DEF table, poll, Contract!vars
    <2>1. ASSUME NEW e \in Events, Append(e) PROVE Contract!Write(e)
      BY <2>1 DEF Append, Contract!Write
    <2>2. ASSUME NEW p \in Publishers, NEW e \in Events, SendOk(p, e)
          PROVE  Contract!Hand(e)
      <3>1. e \in Contract!Open
        BY <2>2 DEF SendOk, IInv, LocksHold, Locked, Pending, Contract!Open
      <3>2. QED
        BY <2>2, <3>1 DEF SendOk, Contract!Hand
    <2>3. ASSUME NEW p \in Publishers, Commit(p)
          PROVE  \E S, D \in SUBSET Contract!Open : Contract!Settle(S, D)
      <3> DEFINE D == {e \in nok[p] : GivesUp(e)}
      <3>1. ok[p] \in SUBSET Contract!Open /\ D \in SUBSET Contract!Open
        BY DEF IInv, LocksHold, Locked, Pending, Contract!Open
      <3>2. Contract!Settle(ok[p], D)
        BY <2>3 DEF Commit, SentRows, IInv, LocksHold, Copies, Contract!Settle
      <3>3. QED
        BY <3>1, <3>2
    <2>4. ASSUME \/ UNCHANGED vars
                 \/ \E p \in Publishers :
                       Poll(p) \/ Abort(p) \/ \E e \in Events : SendFails(p, e)
          PROVE  UNCHANGED Contract!vars
      BY <2>4 DEF vars, Poll, Abort, SendFails
    <2> QED
      BY <2>1, <2>2, <2>3, <2>4 DEF Next, Work, Contract!Next
  <1>3. QED
    BY <1>1, <1>2, Invariance, PTL DEF Spec, ImplementsContract, Contract!Spec

-----------------------------------------------------------------------------
(***************************************************************************)
(* The saga.                                                               *)
(***************************************************************************)
\* The events of a record are numbered like its compensations.
Trails == \A e \in Events : e \in events <=> e.seq <= comps[e.run]

\* Whatever is under way for a record goes back to a request for it.
Asked ==
  \A r \in Records :
     comps[r] > 0 \/ queue[r] > 0 \/ (\E l \in Listeners : holding[l] = r) => r \in requests

\* A compensation of r that is still to come: an event nobody has sent yet, a
\* message in the queue, or one whose handler has not returned.
UnderWay(r) ==
  \/ \E e \in events : e.run = r /\ e \notin sent /\ \A p \in Publishers : e \notin ok[p]
  \/ queue[r] > 0
  \/ \E l \in Listeners : holding[l] = r /\ l \notin finished

Echoing == \A r \in Records : comps[r] > 0 => UnderWay(r)

\* The saga's part of the inductive invariant.
SagaParts == SagaTypeOK /\ Trails /\ TrailsAgree /\ Asked /\ Echoing

SagaIInv == IInv /\ SagaParts

\* A compensation event is known by its record and its number.
LEMMA EventFacts ==
  /\ \A r \in Records, n \in 1..MaxCompensations :
        Compensated(r, n) \in Events /\ Compensated(r, n).run = r /\ Compensated(r, n).seq = n
  /\ \A e \in Events : /\ e.run \in Records /\ e.seq \in 1..MaxCompensations
                       /\ e = Compensated(e.run, e.seq)
  BY SagaAssumption DEF SagaEvents, Compensated

LEMMA SagaInitIInv == SagaInit => SagaIInv
  <1> SUFFICES ASSUME SagaInit PROVE SagaIInv
    OBVIOUS
  <1> USE SagaAssumption DEF SagaInit
  <1>1. IInv /\ events = {}
    BY InitIInv DEF Init
  <1>2. SagaTypeOK
    BY <1>1 DEF SagaTypeOK, Messages
  <1>3. Trails /\ Asked /\ Echoing
    BY <1>1, EventFacts DEF Trails, Asked, Echoing, Messages
  <1>4. TrailsAgree
    <2>1. \A r \in Records : {e \in events : e.run = r} = {}
      BY <1>1
    <2>2. \A r \in Records : Cardinality({e \in events : e.run = r}) = 0
      BY <2>1, FS_EmptySet, ZenonT(60)
    <2>3. QED
      BY <2>2 DEF TrailsAgree
  <1>5. QED
    BY <1>1, <1>2, <1>3, <1>4 DEF SagaIInv, SagaParts

\* Steps of the queue and the listener that write no table: the messages of a
\* record may move, but if the last one goes there is an event to replace it.
LEMMA QueueSaga ==
  ASSUME SagaIInv, UNCHANGED <<vars, comps, status>>, SagaTypeOK', Asked', Echoing'
  PROVE  SagaIInv'
  <1> USE DEF SagaIInv, SagaParts
  <1>1. IInv'
    BY NextIInv
  <1>2. UNCHANGED <<events, comps, status>>
    BY DEF vars, table
  <1>3. Trails' /\ TrailsAgree'
    BY <1>2 DEF Trails, TrailsAgree
  <1>4. QED
    BY <1>1, <1>3

LEMMA RequestSaga ==
  ASSUME SagaIInv, NEW m \in Messages, Request(m)
  PROVE  SagaIInv'
  <1> USE DEF SagaIInv, SagaParts, Request
  <1>1. /\ UNCHANGED <<vars, events, sent, ok, comps, status, holding, finished>>
        /\ requests' = requests \union {m} /\ queue' = [queue EXCEPT ![m] = @ + 1]
    BY DEF vars, table, poll
  <1>2. \A k \in Messages : queue'[k] \in Nat /\ queue'[k] >= queue[k]
                            /\ (k # m => queue'[k] = queue[k])
    BY <1>1 DEF SagaTypeOK
  <1>3. SagaTypeOK'
    BY <1>1, <1>2 DEF SagaTypeOK
  <1>4. Asked'
    BY <1>1, <1>2 DEF Asked, Messages
  <1>5. Echoing'
    BY <1>1, <1>2 DEF Echoing, UnderWay, Messages, SagaTypeOK
  <1>6. QED
    BY <1>1, <1>3, <1>4, <1>5, QueueSaga

LEMMA DeliverSaga ==
  ASSUME SagaIInv, NEW l \in Listeners, NEW m \in Messages, Deliver(l, m)
  PROVE  SagaIInv'
  <1> USE DEF SagaIInv, SagaParts, Deliver
  <1>1. /\ UNCHANGED <<vars, events, sent, ok, comps, status, finished, requests>>
        /\ queue' = [queue EXCEPT ![m] = @ - 1] /\ queue[m] > 0
        /\ holding' = [holding EXCEPT ![l] = m] /\ holding[l] = Nothing /\ l \notin finished
    BY DEF vars, table, poll, SagaTypeOK
  <1>2. /\ \A k \in Messages : queue'[k] \in Nat /\ (k # m => queue'[k] = queue[k])
        /\ holding'[l] = m /\ \A k \in Listeners \ {l} : holding'[k] = holding[k]
        /\ m # Nothing /\ queue[m] \in Nat
    BY <1>1, SagaAssumption DEF SagaTypeOK, Messages
  <1>3. SagaTypeOK'
    BY <1>1, <1>2 DEF SagaTypeOK
  <1>4. Asked'
    BY <1>1, <1>2 DEF Asked, Messages
  <1>5. Echoing'
    <2> SUFFICES ASSUME NEW r \in Records, comps[r] > 0 PROVE UnderWay(r)'
      BY <1>1 DEF Echoing
    <2>1. UnderWay(r) /\ r # Nothing
      BY SagaAssumption DEF Echoing
    <2>2. CASE r = m
      BY <1>1, <1>2, <2>2 DEF UnderWay
    <2>3. CASE r # m
      BY <1>1, <1>2, <2>1, <2>3 DEF UnderWay, Messages
    <2>4. QED
      BY <2>2, <2>3
  <1>6. QED
    BY <1>1, <1>3, <1>4, <1>5, QueueSaga

\* A rejected or abandoned message is back in the queue.
LEMMA RequeueSaga ==
  ASSUME SagaIInv, NEW l \in Listeners, holding[l] # Nothing, Requeue(l)
  PROVE  SagaIInv'
  <1> USE DEF SagaIInv, SagaParts, Requeue
  <1> DEFINE m == holding[l]
  <1>1. /\ UNCHANGED <<vars, events, sent, ok, comps, status, requests>> /\ m \in Messages
        /\ queue' = [queue EXCEPT ![m] = @ + 1] /\ finished' = finished \ {l}
        /\ holding' = [holding EXCEPT ![l] = Nothing]
    BY DEF vars, table, poll, SagaTypeOK
  <1> HIDE DEF m
  <1>2. /\ \A k \in Messages : queue'[k] \in Nat /\ queue'[k] >= queue[k] /\ queue[k] \in Nat
        /\ \A k \in Messages : k # m => queue'[k] = queue[k]
        /\ queue'[m] > 0
        /\ holding'[l] = Nothing /\ \A k \in Listeners \ {l} : holding'[k] = holding[k]
    BY <1>1 DEF SagaTypeOK
  <1>3. SagaTypeOK'
    BY <1>1, <1>2 DEF SagaTypeOK
  <1>4. Asked'
    BY <1>1, <1>2, SagaAssumption DEF Asked, Messages, m
  <1>5. Echoing'
    <2> SUFFICES ASSUME NEW r \in Records, comps[r] > 0 PROVE UnderWay(r)'
      BY <1>1 DEF Echoing
    <2>1. UnderWay(r) /\ r \in Messages
      BY DEF Echoing, Messages
    <2>2. CASE r = m
      BY <1>2, <2>2 DEF UnderWay
    <2>3. CASE r # m
      BY <1>1, <1>2, <2>1, <2>3 DEF UnderWay, m
    <2>4. QED
      BY <2>2, <2>3
  <1>6. QED
    BY <1>1, <1>3, <1>4, <1>5, QueueSaga

\* Acknowledging a message and dropping a malformed one: a record's handler
\* that returned has left an event behind.
LEMMA AckSaga ==
  ASSUME SagaIInv, NEW l \in Listeners, Ack(l) \/ DropMalformed(l)
  PROVE  SagaIInv'
  <1> USE SagaAssumption DEF SagaIInv, SagaParts, Ack, DropMalformed
  <1>1. /\ UNCHANGED <<vars, events, sent, ok, comps, status, queue, requests>>
        /\ \A k \in Listeners \ {l} :
              holding'[k] = holding[k] /\ (k \in finished' <=> k \in finished)
        /\ l \in finished \/ holding[l] = Malformed
        /\ finished' \subseteq Listeners
        /\ holding' \in [Listeners -> Messages \union {Nothing}]
        /\ \/ l \notin finished' /\ holding'[l] = Nothing
           \/ l \in finished' /\ holding'[l] = Malformed
    BY DEF vars, table, poll, SagaTypeOK
  <1>2. SagaTypeOK'
    BY <1>1 DEF SagaTypeOK, Messages
  <1>3. Asked'
    BY <1>1 DEF Asked
  <1>4. Echoing'
    BY <1>1 DEF Echoing, UnderWay
  <1>5. QED
    BY <1>1, <1>2, <1>3, <1>4, QueueSaga

\* One transaction: the next event of the record, its audit row, its status.
LEMMA CompensateFacts ==
  ASSUME SagaIInv, NEW l \in Listeners, Compensate(l)
  PROVE  LET r == holding[l]
             e == Compensated(r, comps[r] + 1)
         IN  /\ r \in Records /\ r \in requests /\ comps[r] \in Nat
             /\ e \in Events \ events /\ e.run = r /\ e.seq = comps[r] + 1
             /\ events' = events \union {e} /\ Append(e)
             /\ comps' = [comps EXCEPT ![r] = @ + 1]
             /\ status' = [status EXCEPT ![r] = "COMPENSATED"]
             /\ finished' = finished \union {l} /\ l \notin finished
             /\ UNCHANGED <<sent, ok, queue, holding, requests>>
  <1> USE SagaAssumption DEF SagaIInv, SagaParts, Compensate
  <1> DEFINE r == holding[l]
             e == Compensated(r, comps[r] + 1)
  <1>1. r \in Records /\ comps[r] \in Nat /\ comps[r] + 1 \in 1..MaxCompensations
    BY DEF SagaTypeOK
  <1>2. e \in Events /\ e.run = r /\ e.seq = comps[r] + 1
    BY <1>1, EventFacts
  <1>3. e \notin events
    BY <1>1, <1>2 DEF Trails
  <1>4. events' = events \union {e}
    BY DEF CompensationRows
  <1>5. Append(e)
    BY <1>2, <1>3, <1>4 DEF Append
  <1>6. r \in requests
    BY <1>1 DEF Asked
  <1>7. QED
    BY <1>1, <1>2, <1>3, <1>4, <1>5, <1>6 DEF poll

LEMMA CompensateSaga ==
  ASSUME SagaIInv, NEW l \in Listeners, Compensate(l)
  PROVE  SagaIInv'
  <1> USE SagaAssumption DEF SagaIInv, SagaParts
  <1> DEFINE r == holding[l]
             e == Compensated(r, comps[r] + 1)
  <1>1. /\ r \in Records /\ r \in requests /\ comps[r] \in Nat
        /\ e \in Events \ events /\ e.run = r /\ e.seq = comps[r] + 1
        /\ events' = events \union {e} /\ Append(e)
        /\ comps' = [comps EXCEPT ![r] = @ + 1]
        /\ status' = [status EXCEPT ![r] = "COMPENSATED"]
        /\ finished' = finished \union {l} /\ l \notin finished
        /\ UNCHANGED <<sent, ok, queue, holding, requests>>
    BY CompensateFacts
  <1>2. comps[r] < MaxCompensations /\ l \in Listeners
    BY DEF Compensate
  <1> HIDE DEF r, e
  <1>3. IInv'
    BY <1>1, NextIInv DEF Next
  <1>4. /\ comps'[r] = comps[r] + 1 /\ status'[r] = "COMPENSATED"
        /\ \A s \in Records \ {r} : comps'[s] = comps[s] /\ status'[s] = status[s]
        /\ \A s \in Records : comps[s] \in Nat
    BY <1>1 DEF SagaTypeOK
  <1>5. SagaTypeOK'
    <2>1. events' \subseteq SagaEvents
      BY <1>1 DEF SagaTypeOK
    <2>2. comps' \in [Records -> 0..MaxCompensations]
      BY <1>1, <1>2 DEF SagaTypeOK
    <2>3. holding[l] # Nothing
      BY <1>1 DEF r
    <2>4. QED
      BY <1>1, <2>1, <2>2, <2>3 DEF SagaTypeOK
  <1>6. Trails'
    <2> SUFFICES ASSUME NEW d \in Events
                 PROVE  d \in events' <=> d.seq <= comps'[d.run]
      BY DEF Trails
    <2>1. d.run \in Records /\ d.seq \in Nat /\ d = Compensated(d.run, d.seq)
      BY EventFacts
    <2>2. CASE d.run # r
      BY <1>1, <1>4, <2>1, <2>2 DEF Trails
    <2>3. CASE d.run = r /\ d.seq = comps[r] + 1
      BY <1>1, <1>4, <2>1, <2>3 DEF e
    <2>4. CASE d.run = r /\ d.seq # comps[r] + 1
      BY <1>1, <1>4, <2>1, <2>4 DEF Trails
    <2>5. QED
      BY <2>2, <2>3, <2>4
  <1>7. TrailsAgree'
    <2> SUFFICES ASSUME NEW s \in Records
                 PROVE  /\ Cardinality({d \in events' : d.run = s}) = comps'[s]
                        /\ (status'[s] = "COMPENSATED") <=> comps'[s] > 0
      BY DEF TrailsAgree
    <2>1. CASE s # r
      <3>1. {d \in events' : d.run = s} = {d \in events : d.run = s}
        BY <1>1, <2>1
      <3>2. QED
        BY <1>4, <2>1, <3>1 DEF TrailsAgree
    <2>2. CASE s = r
      <3> DEFINE D == {d \in events : d.run = r}
      <3>1. {d \in events' : d.run = r} = D \union {e} /\ e \notin D
        BY <1>1
      <3>2. IsFiniteSet(D)
        <4>1. D \in SUBSET Events
          BY DEF IInv, TypeOK
        <4>2. QED
          BY <4>1, OutboxAssumption, FS_Subset
      <3>3. Cardinality(D \union {e}) = Cardinality(D) + 1
        BY <3>1, <3>2, FS_AddElement
      <3>4. Cardinality(D) = comps[r]
        BY <1>1 DEF TrailsAgree
      <3>5. Cardinality({d \in events' : d.run = r}) = comps'[r]
        <4>1. Cardinality({d \in events' : d.run = r}) = Cardinality(D \union {e})
          BY <3>1
        <4>2. QED
          BY <1>1, <1>4, <3>3, <3>4, <4>1
      <3>6. comps'[r] > 0 /\ status'[r] = "COMPENSATED"
        BY <1>1, <1>4
      <3>7. QED
        BY <2>2, <3>5, <3>6
    <2>3. QED
      BY <2>1, <2>2
  <1>8. Asked'
    BY <1>1, <1>4 DEF Asked
  <1>9. Echoing'
    <2> SUFFICES ASSUME NEW s \in Records, comps'[s] > 0 PROVE UnderWay(s)'
      BY DEF Echoing
    <2>1. CASE s = r
      <3>1. e \notin sent /\ \A p \in Publishers : e \notin ok[p]
        BY <1>1 DEF IInv, TypeOK
      <3>2. e \in events' /\ e.run = s
        BY <1>1, <2>1
      <3>3. QED
        BY <1>1, <3>1, <3>2 DEF UnderWay
    <2>2. CASE s # r
      <3>1. UnderWay(s)
        BY <1>4, <2>2 DEF Echoing
      <3>2. holding[l] # s
        BY <2>2 DEF r
      <3>3. QED
        BY <1>1, <3>1, <3>2 DEF UnderWay
    <2>3. QED
      BY <2>1, <2>2
  <1>10. QED
    BY <1>3, <1>5, <1>6, <1>7, <1>8, <1>9

\* A publisher moves an event from open to sent only after its message is in
\* the queue; what it fails to send stays open.
LEMMA PublishSaga ==
  ASSUME SagaIInv, NEW p \in Publishers, Publish(p)
  PROVE  SagaIInv'
  <1> USE SagaAssumption DEF SagaIInv, SagaParts
  <1> DEFINE Quiet == /\ Poll(p) \/ (\E e \in Events : SendFails(p, e)) \/ Commit(p) \/ Abort(p)
                      /\ UNCHANGED sagaVars
             Sent(e) == /\ SendOk(p, e)
                        /\ queue' = RoutedBack(e)
                        /\ UNCHANGED <<comps, status, holding, finished, requests, drops>>
  <1>1. Quiet \/ \E e \in Events : Sent(e)
    BY DEF Publish
  <1>2. IInv'
    BY <1>1, NextIInv DEF Next, Work
  <1>3. /\ UNCHANGED <<events, comps, status, holding, finished, requests>>
    BY <1>1 DEF sagaVars, Poll, SendFails, Commit, Abort, SendOk, table
  <1>4. Trails' /\ TrailsAgree'
    BY <1>3 DEF Trails, TrailsAgree
  <1>5. CASE Quiet
    <2>1. queue' = queue
      BY <1>5 DEF sagaVars
    <2>2. SagaTypeOK' /\ Asked'
      BY <1>3, <2>1 DEF SagaTypeOK, Asked
    <2>3. \A e \in events : e \notin sent /\ (\A q \in Publishers : e \notin ok[q])
                              => e \notin sent' /\ (\A q \in Publishers : e \notin ok'[q])
      BY <1>5 DEF Poll, SendFails, Commit, Abort, SentRows, table, IInv, TypeOK
    <2>4. Echoing'
      BY <1>3, <2>1, <2>3 DEF Echoing, UnderWay
    <2>5. QED
      BY <1>2, <1>4, <2>2, <2>4
  <1>6. ASSUME NEW e \in Events, Sent(e) PROVE SagaIInv'
    <2>1. /\ e \in events /\ e.run \in Records /\ e.run \in requests
          /\ queue' = [queue EXCEPT ![e.run] = @ + 1]
      <3>1. e \in events
        BY <1>6 DEF SendOk, IInv, TypeOK
      <3>2. e.run \in Records /\ e.seq \in Nat /\ e.seq > 0
        BY EventFacts
      <3>3. comps[e.run] > 0
        BY <3>1, <3>2 DEF Trails, SagaTypeOK
      <3>4. QED
        BY <1>6, <3>1, <3>2, <3>3 DEF Asked, RoutedBack, PayrollIdOf
    <2>2. /\ \A k \in Messages : queue[k] \in Nat /\ queue'[k] \in Nat /\ queue'[k] >= queue[k]
          /\ \A k \in Messages : k # e.run => queue'[k] = queue[k]
          /\ queue'[e.run] > 0
      BY <2>1 DEF SagaTypeOK, Messages
    <2>3. SagaTypeOK'
      BY <1>3, <2>1, <2>2 DEF SagaTypeOK
    <2>4. Asked'
      BY <1>3, <2>1, <2>2 DEF Asked, Messages
    <2>5. sent' = sent /\ \A q \in Publishers : \A d \in Events : d \in ok'[q] => d \in ok[q] \/ d = e
      BY <1>6 DEF SendOk, table, IInv, TypeOK
    <2>6. Echoing'
      <3> SUFFICES ASSUME NEW r \in Records, comps[r] > 0 PROVE UnderWay(r)'
        BY <1>3 DEF Echoing
      <3>1. CASE r = e.run
        BY <2>2, <3>1 DEF UnderWay
      <3>2. CASE r # e.run
        <4>1. UnderWay(r) /\ r \in Messages /\ events \subseteq Events
          BY DEF Echoing, Messages, IInv, TypeOK
        <4>2. QED
          BY <1>3, <2>2, <2>5, <3>2, <4>1 DEF UnderWay
      <3>3. QED
        BY <3>1, <3>2
    <2>7. QED
      BY <1>2, <1>4, <2>3, <2>4, <2>6
  <1>7. QED
    BY <1>1, <1>5, <1>6

LEMMA SagaNextIInv == SagaIInv /\ [SagaNext]_allVars => SagaIInv'
  <1> SUFFICES ASSUME SagaIInv, [SagaNext]_allVars PROVE SagaIInv'
    OBVIOUS
  <1>1. CASE UNCHANGED allVars
    <2>1. UNCHANGED <<vars, comps, status, queue, holding, finished, requests>>
      BY <1>1 DEF allVars, sagaVars
    <2>2. UNCHANGED <<events, sent, ok>>
      BY <2>1 DEF vars, table, poll
    <2>3. SagaTypeOK' /\ Asked' /\ Echoing'
      BY <2>1, <2>2 DEF SagaIInv, SagaParts, SagaTypeOK, Asked, Echoing, UnderWay
    <2>4. QED
      BY <2>1, <2>3, QueueSaga
  <1>2. ASSUME NEW l \in Listeners, RejectStranger(l) \/ ListenerDies(l) PROVE SagaIInv'
    BY <1>2, RequeueSaga, SagaAssumption DEF RejectStranger, ListenerDies
  <1>3. QED
    BY <1>1, <1>2, RequestSaga, DeliverSaga, CompensateSaga, AckSaga, PublishSaga DEF SagaNext

LEMMA SagaInvariance == SagaSpec => []SagaIInv
  BY SagaInitIInv, SagaNextIInv, PTL DEF SagaSpec

\* Messages, listeners and trails of the saga are well formed.
THEOREM SagaTypeCorrect == SagaSpec => []SagaTypeOK
  BY SagaInvariance, PTL DEF SagaIInv, SagaParts

\* Status, audit trail and outbox agree, however often a compensation is
\* redelivered (compensatePayroll).
THEOREM ThreeTrailsAgree == SagaSpec => []TrailsAgree
  BY SagaInvariance, PTL DEF SagaIInv, SagaParts

\* Nothing is compensated that nobody asked for (handleCompensationEvent).
THEOREM NoStrayCompensation == SagaSpec => []CompensatedOnRequest
  <1>1. SagaIInv => CompensatedOnRequest
    BY DEF SagaIInv, SagaParts, Asked, CompensatedOnRequest
  <1>2. QED
    BY <1>1, SagaInvariance, PTL

\* The echo of a compensation never dies out (RabbitMQConfig).
THEOREM EchoForever == SagaSpec => []EchoNeverDies
  <1>1. SagaIInv => EchoNeverDies
    BY DEF SagaIInv, SagaParts, Echoing, UnderWay, EchoNeverDies
  <1>2. QED
    BY <1>1, SagaInvariance, PTL

\* The saga uses the outbox as the publisher's specification allows: its
\* transactions append rows that are not there yet, and nothing else touches
\* the table.  So every theorem about the publisher holds in the saga.
THEOREM SagaUsesOutbox == SagaSpec => Spec
  <1>1. SagaInit => Init
    BY DEF SagaInit
  <1>2. SagaIInv /\ [SagaNext]_allVars => [Next]_vars
    <2> SUFFICES ASSUME SagaIInv, [SagaNext]_allVars PROVE [Next]_vars
      OBVIOUS
    <2>1. ASSUME NEW l \in Listeners, Compensate(l) PROVE Next
      <3>1. \E e \in Events : Append(e)
        BY <2>1, CompensateFacts
      <3>2. QED
        BY <3>1 DEF Next
    <2>2. ASSUME NEW p \in Publishers, Publish(p) PROVE Next
      BY <2>2, SagaAssumption DEF Publish, Next, Work
    <2>3. ASSUME NEW l \in Listeners, NEW m \in Messages,
                 \/ Request(m) \/ Deliver(l, m)
                 \/ DropMalformed(l) \/ RejectStranger(l) \/ ListenerDies(l) \/ Ack(l)
          PROVE  UNCHANGED vars
      BY <2>3 DEF Request, Deliver, DropMalformed, RejectStranger, ListenerDies, Ack, Requeue
    <2>4. ASSUME NEW m \in Messages, Request(m) PROVE UNCHANGED vars
      BY <2>4 DEF Request
    <2>5. CASE UNCHANGED allVars
      BY <2>5 DEF allVars
    <2>6. Malformed \in Messages
      BY DEF Messages
    <2>7. QED
      BY <2>1, <2>2, <2>3, <2>4, <2>5, <2>6 DEF SagaNext
  <1>3. QED
    BY <1>1, <1>2, SagaInvariance, PTL DEF SagaSpec, Spec

\* So the saga's events are handed over under the outbox contract, too.
COROLLARY SagaImplements == SagaSpec => ImplementsContract /\ []DuplicatesNeedAborts /\ []RetryLimitExact
  BY SagaUsesOutbox, Implements, DuplicatesBounded, RetryLimit, PTL

=============================================================================
