----------------------------- MODULE PayrollSaga -----------------------------
(***************************************************************************)
(* Payroll compensation: PayrollOutbox composed with the compensation      *)
(* queue and its listener.  The listener writes PAYROLL_COMPENSATED rows   *)
(* to the outbox, and the publisher's routing key for that type is bound   *)
(* to the very queue the listener reads.                                   *)
(***************************************************************************)
EXTENDS PayrollOutbox

CONSTANTS Records,           \* payroll rows, status PROCESSED at the start
          Strangers,         \* payrollIds no row has
          Malformed,         \* a message without a payrollId
          Listeners,         \* listener threads
          Nothing,           \* a listener without a message
          MaxRequests,       \* bound on requests from outside the service
          MaxCompensations,  \* bound on compensations of one record
          MaxDrops           \* bound on listener crashes

Compensated(r, n) == [type |-> "PAYROLL_COMPENSATED", run |-> r, seq |-> n]

SagaEvents == {Compensated(r, n) : r \in Records, n \in 1..MaxCompensations}

ASSUME SagaAssumption ==
  /\ Events = SagaEvents
  /\ IsFiniteSet(Records)
  /\ Records \intersect Strangers = {}
  /\ Nothing \notin Records \union Strangers \union {Malformed}
  /\ Malformed \notin Records \union Strangers
  /\ MaxRequests \in Nat /\ MaxDrops \in Nat
  /\ MaxCompensations \in Nat

Messages == Records \union Strangers \union {Malformed}

VARIABLES
  comps,     \* comps[r]: compensation audit rows of r
  status,    \* status[r]: status column of payroll row r
  queue,     \* queue[m]: copies of m waiting in payroll.compensation.queue
  holding,   \* holding[l]: the unacknowledged message of listener l, if any
  finished,  \* listeners whose handler returned, ack still to be sent
  requests,  \* messages published from outside, each once
  drops      \* listener crashes so far

sagaVars == <<comps, status, queue, holding, finished, requests, drops>>
allVars == <<vars, sagaVars>>

SagaInit ==
  /\ Init
  /\ comps = [r \in Records |-> 0]
  /\ status = [r \in Records |-> "PROCESSED"]
  /\ queue = [m \in Messages |-> 0]
  /\ holding = [l \in Listeners |-> Nothing]
  /\ finished = {}
  /\ requests = {}
  /\ drops = 0

\* Somebody outside the service publishes to payroll.compensation.*
Request(m) ==
  /\ m \notin requests
  /\ Cardinality(requests) < MaxRequests
  /\ requests' = requests \union {m}
  /\ queue' = [queue EXCEPT ![m] = @ + 1]
  /\ UNCHANGED <<vars, comps, status, holding, finished, drops>>

\* The container hands a message to a free listener; it is unacknowledged.
Deliver(l, m) ==
  /\ holding[l] = Nothing
  /\ queue[m] > 0
  /\ queue' = [queue EXCEPT ![m] = @ - 1]
  /\ holding' = [holding EXCEPT ![l] = m]
  /\ UNCHANGED <<vars, comps, status, finished, requests, drops>>

\* Mutant of CompensationRows: the event is saved after the transaction.
WithoutEvent(r) == {}

CompensationRows(r) == {Compensated(r, comps[r] + 1)}

\* compensatePayroll: status, audit row and outbox row in one transaction,
\* whatever the status was.  Commits before the message is acknowledged.
Compensate(l) ==
  LET r == holding[l] IN
  /\ l \notin finished
  /\ r \in Records
  /\ comps[r] < MaxCompensations
  /\ status' = [status EXCEPT ![r] = "COMPENSATED"]
  /\ comps' = [comps EXCEPT ![r] = @ + 1]
  /\ events' = events \union CompensationRows(r)
  /\ finished' = finished \union {l}
  /\ UNCHANGED <<sent, dead, retries, poll, handed, dlq, aborts,
                 queue, holding, requests, drops>>

\* A message without payrollId is logged and dropped: the handler returns.
DropMalformed(l) ==
  /\ l \notin finished
  /\ holding[l] = Malformed
  /\ finished' = finished \union {l}
  /\ UNCHANGED <<vars, comps, status, queue, holding, requests, drops>>

Requeue(l) ==
  /\ queue' = [queue EXCEPT ![holding[l]] = @ + 1]
  /\ holding' = [holding EXCEPT ![l] = Nothing]
  /\ finished' = finished \ {l}
  /\ UNCHANGED <<vars, comps, status, requests>>

\* An unknown payrollId throws; the rejected message goes back to the queue.
RejectStranger(l) ==
  /\ holding[l] \in Strangers
  /\ Requeue(l)
  /\ UNCHANGED drops

\* The listener dies, before or after its transaction: redelivery.
ListenerDies(l) ==
  /\ holding[l] # Nothing
  /\ drops < MaxDrops
  /\ drops' = drops + 1
  /\ Requeue(l)

Ack(l) ==
  /\ l \in finished
  /\ holding' = [holding EXCEPT ![l] = Nothing]
  /\ finished' = finished \ {l}
  /\ UNCHANGED <<vars, comps, status, queue, requests, drops>>

\* Mutant of RoutedBack: compensated events have a routing key of their own.
RoutedElsewhere(e) == queue

\* Mutant of PayrollIdOf: the payload carries the id of the audit row saved
\* just before, a number of another sequence and so some other record's id.
AuditRowId(e) == CHOOSE r \in Records : r # e.run

\* The payrollId in the payload of a compensated event.
PayrollIdOf(e) == e.run

\* payroll.compensation.compensated matches payroll.compensation.*
RoutedBack(e) == [queue EXCEPT ![PayrollIdOf(e)] = @ + 1]

\* The publisher's steps; a successful send also enqueues.
Publish(p) ==
  \/ /\ \/ Poll(p)
        \/ \E e \in SagaEvents : SendFails(p, e)
        \/ Commit(p)
        \/ Abort(p)
     /\ UNCHANGED sagaVars
  \/ \E e \in SagaEvents :
        /\ SendOk(p, e)
        /\ queue' = RoutedBack(e)
        /\ UNCHANGED <<comps, status, holding, finished, requests, drops>>

SagaNext ==
  \/ \E m \in Messages : Request(m)
  \/ \E l \in Listeners :
        \/ \E m \in Messages : Deliver(l, m)
        \/ Compensate(l) \/ DropMalformed(l) \/ RejectStranger(l)
        \/ ListenerDies(l) \/ Ack(l)
  \/ \E p \in Publishers : Publish(p)

SagaSpec == SagaInit /\ [][SagaNext]_allVars

-----------------------------------------------------------------------------
SagaTypeOK ==
  /\ events \subseteq SagaEvents
  /\ comps \in [Records -> 0..MaxCompensations]
  /\ status \in [Records -> {"PROCESSED", "COMPENSATED"}]
  /\ queue \in [Messages -> Nat]
  /\ holding \in [Listeners -> Messages \union {Nothing}]
  /\ finished \subseteq {l \in Listeners : holding[l] # Nothing}

\* Status, audit trail and outbox of a record agree whatever crashes and
\* redeliveries happen: as many PAYROLL_COMPENSATED rows as audit rows, and
\* COMPENSATED exactly when there is one (compensatePayroll's transaction).
TrailsAgree ==
  \A r \in Records :
     /\ Cardinality({e \in events : e.run = r}) = comps[r]
     /\ (status[r] = "COMPENSATED") <=> comps[r] > 0

\* A record is compensated only if somebody asked for that very record: the
\* service's own events come back to the listener, but none of them names a
\* record that nobody outside asked for (compensatePayroll's payload).
CompensatedOnRequest == \A r \in Records : comps[r] > 0 => r \in requests

\* The echo: once a record is compensated the service always has another
\* compensation of it under way (an open event, a queued or unacknowledged
\* message), unless the publisher gave one of its events up.  The queue of a
\* compensated record never drains (RabbitMQConfig and resolveRoutingKey).
EchoNeverDies ==
  \A r \in Records : comps[r] > 0 =>
     \/ \E e \in events : e.run = r /\ e \notin sent
     \/ queue[r] > 0
     \/ \E l \in Listeners : holding[l] = r

=============================================================================
