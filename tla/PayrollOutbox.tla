---------------------------- MODULE PayrollOutbox ----------------------------
(***************************************************************************)
(* The polling publisher of payroll-java-service (OutboxPublisherService)  *)
(* over the outbox_events table, one process per replica.  Producers       *)
(* insert PENDING rows; a poll is one transaction that locks the rows it   *)
(* selected, sends them one by one and commits their new status.  The      *)
(* broker is outside the transaction: an aborted poll has already sent.    *)
(***************************************************************************)
EXTENDS Naturals, FiniteSets

CONSTANTS Events,      \* outbox rows that may be written
          Publishers,  \* replicas running publishPendingEvents
          MaxRetries,  \* outbox.max.retries
          MaxAborts    \* bound on transactions lost to crashes

ASSUME OutboxAssumption ==
  /\ IsFiniteSet(Events)
  /\ MaxRetries \in Nat \ {0}
  /\ MaxAborts \in Nat

VARIABLES
  events,   \* rows of outbox_events, committed
  sent,     \* rows whose committed status is SENT
  dead,     \* rows whose committed status is FAILED
  retries,  \* committed retry_count of each row
  todo,     \* todo[p]: rows the open poll of p has still to visit
  ok,       \* ok[p]: rows it has sent
  nok,      \* nok[p]: rows whose send threw
  handed,   \* handed[e]: copies of e given to the exchange
  dlq,      \* rows copied to payroll.dlq
  aborts    \* transactions lost so far

table == <<events, sent, dead, retries>>
poll == <<todo, ok, nok>>
vars == <<table, poll, handed, dlq, aborts>>

Pending == events \ (sent \union dead)

\* Rows an open poll holds the PESSIMISTIC_WRITE locks of.
Locked(p) == todo[p] \union ok[p] \union nok[p]

\* Mutant of LockFree: the query runs without a lock mode.
NoRowLock(p, S) == TRUE

\* SELECT ... FOR UPDATE waits for every row another transaction holds.
LockFree(p, S) == \A q \in Publishers \ {p} : S \intersect Locked(q) = {}

Selected == {e \in Pending : retries[e] < MaxRetries}

Init ==
  /\ events = {} /\ sent = {} /\ dead = {}
  /\ retries = [e \in Events |-> 0]
  /\ todo = [p \in Publishers |-> {}]
  /\ ok = [p \in Publishers |-> {}]
  /\ nok = [p \in Publishers |-> {}]
  /\ handed = [e \in Events |-> 0]
  /\ dlq = {} /\ aborts = 0

\* A producer's transaction commits a PENDING row with retry_count 0.
Append(e) ==
  /\ e \in Events \ events
  /\ events' = events \union {e}
  /\ UNCHANGED <<sent, dead, retries, poll, handed, dlq, aborts>>

\* The scheduled method starts: select and lock.
Poll(p) ==
  /\ Locked(p) = {}
  /\ Selected # {}
  /\ LockFree(p, Selected)
  /\ todo' = [todo EXCEPT ![p] = Selected]
  /\ UNCHANGED <<table, ok, nok, handed, dlq, aborts>>

\* convertAndSend returns; SENT is set on the managed row.
SendOk(p, e) ==
  /\ e \in todo[p]
  /\ handed' = [handed EXCEPT ![e] = @ + 1]
  /\ todo' = [todo EXCEPT ![p] = @ \ {e}]
  /\ ok' = [ok EXCEPT ![p] = @ \union {e}]
  /\ UNCHANGED <<table, nok, dlq, aborts>>

\* Mutant of GivesUp: off by one in the retry limit.
GivesUpLate(e) == retries[e] + 1 > MaxRetries

GivesUp(e) == retries[e] + 1 >= MaxRetries

\* convertAndSend throws; the last failure also tries the dead-letter queue.
SendFails(p, e) ==
  /\ e \in todo[p]
  /\ todo' = [todo EXCEPT ![p] = @ \ {e}]
  /\ nok' = [nok EXCEPT ![p] = @ \union {e}]
  /\ dlq' \in IF GivesUp(e) THEN {dlq, dlq \union {e}} ELSE {dlq}
  /\ UNCHANGED <<table, ok, handed, aborts>>

\* Mutant of SentRows: the status is set before the send is known to work.
AllVisited(p) == ok[p] \union nok[p]

SentRows(p) == ok[p]

\* The poll's transaction commits and releases its locks.
Commit(p) ==
  /\ todo[p] = {}
  /\ Locked(p) # {}
  /\ sent' = sent \union SentRows(p)
  /\ dead' = dead \union {e \in nok[p] : GivesUp(e)}
  /\ retries' = [e \in Events |-> IF e \in nok[p] THEN retries[e] + 1 ELSE retries[e]]
  /\ ok' = [ok EXCEPT ![p] = {}]
  /\ nok' = [nok EXCEPT ![p] = {}]
  /\ UNCHANGED <<events, todo, handed, dlq, aborts>>

\* The replica dies, or its commit fails: nothing of the poll is stored.
Abort(p) ==
  /\ Locked(p) # {}
  /\ aborts < MaxAborts
  /\ aborts' = aborts + 1
  /\ todo' = [todo EXCEPT ![p] = {}]
  /\ ok' = [ok EXCEPT ![p] = {}]
  /\ nok' = [nok EXCEPT ![p] = {}]
  /\ UNCHANGED <<table, handed, dlq>>

Work(p) ==
  \/ Poll(p)
  \/ \E e \in Events : SendOk(p, e) \/ SendFails(p, e)
  \/ Commit(p)

Next ==
  \/ \E e \in Events : Append(e)
  \/ \E p \in Publishers : Work(p) \/ Abort(p)

Spec == Init /\ [][Next]_vars

\* @Scheduled with a fixed delay: a replica polls again and again, and a poll
\* that began goes on unless the replica dies.
FairSpec == Spec /\ \A p \in Publishers : WF_vars(Work(p))

-----------------------------------------------------------------------------
TypeOK ==
  /\ events \subseteq Events /\ sent \subseteq events /\ dead \subseteq events
  /\ retries \in [Events -> 0..MaxRetries]
  /\ todo \in [Publishers -> SUBSET events]
  /\ ok \in [Publishers -> SUBSET events]
  /\ nok \in [Publishers -> SUBSET events]
  /\ handed \in [Events -> Nat]
  /\ dlq \subseteq events
  /\ aborts \in 0..MaxAborts
  /\ sent \intersect dead = {}

\* A second copy of an event needs a lost transaction: two replicas polling
\* at the same time never both send a row, because the row locks serialise
\* them (findPendingEventsWithLock).
DuplicatesNeedAborts == \A e \in Events : handed[e] <= 1 + aborts

\* The retry limit is exact: a row is FAILED when, and only when, it has
\* used up max.retries attempts, and only such a row is ever dead-lettered.
RetryLimitExact ==
  /\ \A e \in events : e \in dead <=> retries[e] = MaxRetries
  /\ \A e \in dlq : retries[e] + 1 >= MaxRetries

Contract == INSTANCE OutboxContract WITH written <- events

\* The publisher implements the outbox contract: at-least-once hand-over,
\* SENT only after a send, each row settled once.
ImplementsContract == Contract!Spec

\* Every committed event is settled: sent, or given up after max.retries.
EventsSettle == \A e \in Events : e \in events ~> e \in sent \union dead

=============================================================================
