# Verification of the Atlas workforce system

This directory holds TLA+ models of the parts of Atlas whose correctness depends
on the order in which things happen, TLC configurations that check them on small
instances, and TLAPS proofs of their main properties for every size of system.
Paths below are relative to the repository root (`src/` stands for it in the
map); `crud.py:269` means line 269 of that file.

Contents: 1 inventory, 2 plan, 3 modules and code, 4 runs, 5 fairness, 6 proofs,
7 disagreements found, 8 what is not modelled.

To check a model: `tlc -config PayrollOutbox.cfg MCPayrollOutbox.tla`. To check
a proof: `tlapm PayrollSagaProofs.tla`.

## 1. Inventory

Atlas is a set of services in Node, Java, Python and Go behind one gateway. They
talk over HTTP and RabbitMQ (Kafka for a few integrations), each keeps its own
PostgreSQL schema (employee-python-service MongoDB), Redis holds caches and one
retry queue. The services are small transaction scripts; what is hard in them is
what two requests, two replicas, a crash or a redelivery do to rows that several
statements touch.

### Modelled

| component | state | operations | what is hard | what makes it correct |
|---|---|---|---|---|
| payroll runs (`PayrollService`, `PayrollEnterpriseService`, `PayrollFailureOutboxWriter`) | payroll rows (two tables), payslips, audit rows, outbox rows, a connection pool of fixed size | run one payroll, run a multi-country payroll, run a batch, record a failure | races past the advisory pre-check; failure events that need a second connection; batch calls that bypass the transaction proxy; crashes between commits | nobody is paid twice for a period; the outbox says exactly what the ledger says; a progress row means the batch is complete; runs end |
| outbox publisher (`OutboxPublisherService`) | `outbox_events` with status and retry count, row locks of open transactions | poll, send, mark SENT, count a retry, give up with a dead letter | replicas polling together; a send that succeeds before a commit that fails | copies only where a transaction was lost; the retry limit is exact; every row settles |
| compensation saga (`PayrollEventConsumer`, `compensatePayroll`, `RabbitMQConfig`) | payroll status, audit rows, the queue and what a listener holds | deliver, compensate, acknowledge, requeue, dead-letter | redelivery after the commit; the service consumes events it publishes | status, audit and event agree; only what was asked for is compensated |
| bank transactions | transfers, their status, row locks | create a transfer for a payroll line, settle it | races past the look-up, retries after lost answers, double settlement | a line's money moves once; retries agree on the transfer |
| sessions and refresh tokens (`auth-service/index.js`) | `refresh_tokens`, `rotated_tokens`, `sessions`, row locks | log in, refresh, log out, revoke one session or the others, revoke all of a user's (replay, password reset) | every pair of these races on the same rows, in statements that are not one transaction; statements over many rows lock them one by one and keep what they have | a token is good for one refresh; a session has one live token; revocation and logout are final; a replay is noticed; nobody waits for ever |
| audit chain (`audit-compliance-service/crud.py`) | hash-chained entries per tenant, head anchor, per-tenant advisory lock | append, erase a subject, verify | head and number are read in separate statements; erasure takes no lock; verification pages through a table that changes | the chain does not fork; a deletion is detected; no alarm without a cause |
| webhook deliveries (`integration-service`) | delivery logs with status, attempts, next retry; threads with their own copy of the row | route, deliver, retry loop, give up | nothing claims a log; read-modify-write of attempts; column-wise writes; database errors before and after a commit; lost threads | no refusal is counted twice; nothing is given up early; what was accepted ends DELIVERED; retries end |
| audit retry queue (`api-gateway-node/index.js`) | three Redis lists, the attempts and backoff stored with an event, the request handlers and one round at a time of each gateway instance | first POST, enqueue, take, fall back to LPOP, POST again, LREM, put back, dead-letter | every Redis call may fail before or after its effect; several instances share the lists; an instance dies with its drain and its handlers; Redis restarts empty; events are pushed and taken at the same end | a fault costs one event at most besides those it cuts off; a duplicate has a cause; the retry limit is exact; a queued event is settled |
| sign-in (`auth-service/index.js`) | lockout row, MFA challenges in Redis, magic links, reset tokens, password, token and session rows | log in, validate a second factor, use a link, reset a password, deactivate | the lockout is checked before and recorded after the comparison; a reset is six statements; a sign-in spans a reset | guesses are bounded; nobody is locked out early; a link opens one session; an old password opens none that lasts |
| admission (`api-gateway-node`, `auth-service`) | denylist entries and marks of used step-up tokens in Redis, with their expiry; the clock; whether Redis answers | refresh, log out by cookie or header, end one or all other sessions, admit a request, consume a step-up token | signed tokens cannot be recalled; entries and tokens run out separately, in seconds and milliseconds; keys are listed one by one; Redis goes away in between, or comes back without its keys | a token of a session that was reported as listed is refused as long as it lives; a step-up token carries one write |

How they interact. Payroll runs and compensations write outbox rows in their own
transactions; the publisher sends them to RabbitMQ; the listener of the same
service consumes one of the keys it publishes. `PayrollSaga` composes the
publisher with listener and queue. The gateway and the services post to the
audit chain; the integration service delivers what it consumes from RabbitMQ.
The gateway reads sessions only through signed access tokens and the denylist
that auth-service writes beside them: `AccessGate` is that composition. `SignIn`
and `RefreshTokens` meet in `revokeAllUserSessions`, which both model, and in
`issueLoginSession`.

### Not modelled, with a protocol of its own

| component | state | hard behaviour | property wanted |
|---|---|---|---|
| notification-go-service | map of WebSocket clients, per-address counters, digest queue and send keys in memory | broadcast sends outside the mutex while a leaving client closes its channel (`main.go:490`, `347`); items queued between a digest's snapshot and its clear (`digest.go:194`) | no send on a closed channel; every queued item is mailed once; counters return to zero |
| leave-service | leave rows with a version column | overlap and balance span rows, the version guards one (`LeaveService.java:89`, `135`); events before commit (`163`) | approved leave never overlaps or exceeds the balance; events match decisions |
| attendance-service | attendance rows, shifts, anomalies | ineffective row lock (`handlers.go:286`); overlap of shifts (`712`); duplicate anomalies (`1639`) | one open record; first clock-out stands |
| employee deletion (employee-python-service to attendance-service) | a document, an exclusive auto-acknowledged queue, eight tables | delete before publish (`main.py:767`), loss while reconnecting (`main.go:199`), partial archive (`main.go:261`) | a deleted employee's records are eventually archived, all or none |
| lms-service | attempts with a unique number | cap counted once (`assessments.go:390`), two submissions (`514`) | never more than the cap; one grade |
| audit start-up maintenance | unnumbered rows, missing anchors | two instances backfill, anchors created late (`crud.py:1167`, `1201`) | numbering is unique; the anchor counts all |
| integration event outbox | outbox rows, RabbitMQ redelivery, Kafka client buffer | route before acknowledge, PUBLISHED after a failed publish (`event_router.py:363`) | PUBLISHED means handed over; one log per event and webhook |
| ats-service | candidates, interviews, offers | check-then-insert of interviews (`crud.py:418`), offers accepted after a decline (`564`) | an offer is answered once |

Races too small for a module, noted while reading:
`security-service/crud.py:411` approves a revoked grant, `:526` lets two
rotations of a key create two successors; `live-service/main.py:297` iterates a
set across awaits; `scripts/break_glass.py:146` appends to its audit file
without a lock; `publish_to_kafka` answers before the broker does
(`kafka_handler.py:53`), and the payroll publisher runs without publisher
confirms.

### Left out

performance-service, workforce-planning-service and employee-lifecycle-service
(one transaction over one row per call), analytics-python-service (reads only),
ai-service and ai-copilot-service (numeric heuristics), atlas-common and
atlas_observability (stateless helpers), the frontend, scripts, manifests and
dashboards.

## 2. Plan

In order of importance: `PayrollLedger`, `PayrollRun`; `OutboxContract`,
`PayrollOutbox`; `PayrollSaga` (composes `PayrollOutbox`); `DepositContract`,
`PayrollBank`; `SessionContract`, `RefreshTokens`; `AuditContract`,
`AuditChain`; `WebhookDelivery`; `RetryContract`, `AuditRetryQueue`; `SignIn`;
`AccessGate`; and eight proof modules: one for each component, except that
`PayrollProofs` covers runs and bank transactions and `PayrollSagaProofs` the
publisher and the saga built on it.

What would come next, had the project to grow:

1. `NotificationHub`: two clients and one broadcasting goroutine; channels open
   and closed; registration against the capacity limit. Abstract specification:
   every message reaches the clients registered when it was sent, or is counted
   as skipped.
2. `AuditStartup`: two instances numbering three rows beside one writer, on the
   tables of `AuditChain`.
3. `EventOutbox` in front of `WebhookDelivery`: consumer, redelivery, Kafka.
4. `Leave`, `Attendance` and `LmsAttempts`: checks that no constraint backs,
   where a model needs a fix to show more than the race. `EmployeeDeletion`
   likewise.
5. Abstract specifications of the components that have none (deliveries,
   sign-in, admission), with their refinements.

None of the modules needs recursion.

## 3. Modules and the code

A module `X` is the specification, `MCX` gives it a small instance, `XProofs`
holds its theorems. Names of actions follow the methods; PROJECT.json maps every
definition to its lines. Where two definitions differ in one detail, the second
is what the code does and the first a plausible mistake used to confirm that a
property notices it; only the second occurs in `Next`.

**PayrollLedger, PayrollRun.** A run is one request to pay one employee for one
period. `pc[r]` is its place in the method: `Begin` takes a pooled connection
(`@Transactional`), `Check` is the advisory query, `Insert` the insert that
waits while another run's uncommitted row has the same index entry and fails if
that row commits, `SavePayslip`, `SaveAudit`, `SaveEvent` the later writes,
`Commit`/`CommitFails` the end. An exception goes through `BodyFails`, then
`RecordFailure` on a second connection (`REQUIRES_NEW`) or
`RecordFailureTimesOut`, then `Rollback`. Basic and enterprise runs do their
writes in one transaction: `tentative` holds the uncommitted rows, and the
statements between insert and commit, invisible to others until they commit, are
one step. Batched runs, called on `this`, commit every write as it is made, so
each has a step. `FinishBatch` writes `BATCH_PROGRESS`. `Crash` stops every run;
PostgreSQL drops what is not committed. `PayrollLedger` is the promise: a slot
is paid at most once, together with its notice, and a failure is reported only
of an unpaid run.

**OutboxContract, PayrollOutbox.** `Poll(p)` selects the open rows below the
limit under a pessimistic write lock, which is why it waits until no other
replica holds one of them; `SendOk`, `SendFails` visit the rows; `Commit` writes
statuses and counts and sends dead letters; `Abort` is a crash or a failed
commit, after which the messages are out and the rows are not marked. The
contract: a row is handed over while open, settled once, and SENT only after a
hand-over.

**PayrollSaga.** Extends `PayrollOutbox`, whose events are the compensation
events (`SagaAssumption`), with the queue and the listener; `SagaSpec` is its
specification. `Request` is a message from another service, `Deliver`,
`Compensate`, `Ack`, `Requeue`, `ListenerDies` the listener container; a message
without an id is dropped, one with an unknown id rejected. `Publish(p)` is a
publisher step whose sent events re-enter the queue, as the binding of
`RabbitMQConfig` has it.

**DepositContract, PayrollBank.** `BankSpec`: `FindTransfer`, `InsertTransfer`,
`CommitTransfer` for createBankTransaction, `LockTransfer` and `Settle` for
processBankTransaction with its `FOR UPDATE`; `Die` loses the connection of a
call anywhere. `moved` counts how often the money of a transfer moved. The
contract: a payroll line has one transfer, an answered create is told it, its
money moves once.

**SessionContract, RefreshTokens.** Tokens are numbered as issued. A refresh is
`Present`, `Claim` (DELETE ... RETURNING, which takes the row lock and, in READ
COMMITTED, waits for a holder), `LockSession`, `Swap`, commit, `Sweep`; a logout
`LogoutClaim`, `LogoutEnd` and, for a client that names its session in a header,
`LeaveSession`; a replay `DetectReuse`. Revocation of all sessions is two
statements over many rows, each of which reads the rows it affects (`BeginMark`,
`BeginPurge`), then locks them one at a time in any order, keeping those it has
while it waits for the next (`MarkRow`, `PurgeRow`), and commits (`EndMark`,
`EndPurge`). DELETE /sessions/:id and DELETE /sessions mark in the same way the
rows they are about (`StartRevoke`) and then delete the tokens of these rows one
by one (`DropToken`). `snap` is what a statement has still to lock, `held` what
it has locked. `Fail` is an error or a lost process at any point; `HourPasses`
ages rotation records out, `Expire` a token. `fam`, `caught`, `condemned` are
history. The contract: at any time a session has at most one bearer token, a
refresh replaces it, an ended session stays ended, a token once spent never
returns.

**AuditContract, AuditChain.** One tenant. `ReadHead`, `ReadSequence`,
`ReadAnchor`, `AppendEntry` are the statements of `_create_audit_log_once` under
the advisory lock; `AppendEntry` includes the unique index and the retry.
`FindEntries`, `Erase` are `right_to_be_forgotten`, which takes no lock.
`StartWalk`, `ReadPage`, `Compare` are `verify_audit_chain`. The hash of an
entry is the sequence of entry names it commits to, which is what collision
freedom means here. `missed` is the set of entries already gone when a walk
began, `moved` says that the table changed during it. The contract: an entry is
written in one step behind all entries there are, and counted; entries may be
forgotten; a verification is told "intact" only if nothing had been forgotten
when it was asked for, "broken" only if something had or the log changed. The
order of the contract is that of the sequence numbers (`Order`).

**WebhookDelivery.** `Route` commits a log and starts its thread; `Select`,
`Redeliver`, `GiveUp` are a round of the loop, which takes some of the logs that
wait, at most `BatchLimit` (LIMIT 50 without ORDER BY). Whether a log is due and
whether its webhook is switched on is left open whenever the loop looks. A
thread goes `Post`, `Load` (its own session reads the row), `Write` (only the
columns it changed). `DbError` is the except branch, which an error before the
commit or after it (`db.refresh`) reaches, or a failure in that branch itself;
`LoopError` ends a round; `Crash` is a restart that loses the threads. A crash
between the commit of a log and the start of its thread is one that takes the
thread before its POST. `verdict` is history: whether a delivery was accepted,
whether a crash came after that, whether a late refusal overruled it, and
whether something excuses that it was given up early: it was blocked, met a
webhook that was off, or had a database error of its own.

**RetryContract, AuditRetryQueue.** `Finish`, `Measure`, `Store` are the handler
of a write request: the first POST, LLEN against the limit, RPUSH; `FindClosed`
is the handler that finds the Redis client closed and drops the event. A drain
goes `Start`, `Take` (LMOVE) or, when that throws, `PopLeft` and `Stow`; `Hold`
is the look at the stored event, after which it is posted (`Post`), put back, or
given up; `Unpark` is LREM, `Push` RPUSH. Each Redis call has an outcome: it
works, never arrived, or arrived and its answer was lost, and what follows
differs: LREM after a successful POST is inside the try block, so that its
failure counts as a failed POST, and the RPUSH to the dead letters swallows its
own. The queue is a sequence; the processing list is a set, because an event
left behind in it never enters the queue again (which TLC confirms), so that the
text an entry was stored under need not be told apart. Handlers and drain share
a process: `Crash(g)` takes, at any moment, the round of `g` and every event
whose handler runs in `g` (`HomeOf`) and has still to queue it. `Restart` is
Redis coming back with nothing in its lists. `cut` names the events that went in
one of these ways or met a closed client. The branch for text that is not JSON
is left out: only the gateway writes these lists. The contract: an event is in
the gateway's care until it is recorded, has had its tries (the first POST and
`MaxAttempts` more) and is a dead letter, met a full queue or one out of reach,
or was lost to a fault: a failed call costs one event, an instance that stops
also those it had tried only once, a restart of Redis what waited there. An
event that left its care is never tried again.

**SignIn.** One account. A login is `Check` (isAccountLocked reads), `Unlock`
(it deletes the row it judged stale, whatever that holds by now), `Read` (the
user row and bcrypt), then `Record` or `Clear`, `Challenge`; a validation
`Exists` (GET), `User`, `Factor`, `Consume` (DEL); a magic link `Redeem`,
`User`; each ends in `IssueToken`, `IssueSession`. A reset is `Claim`, `Admit`
or, for an administrator, `AdminStart`, then `SetPassword`, `Forget`,
`RevokeSessions`, `RevokeTokens`, `Release`. `Abort` ends any of them between
two statements, `Toggle` is SCIM, `Expire` and `Sweep` are time. `failures`
counts the wrong passwords compared since the counter was last cleared, without
those whose upsert failed; `spanned` and `halfway` remember sign-ins that
overlapped a revocation, and a reset that ended between password and revocation.

**AccessGate.** `Rotate` commits a refresh (or a login), `Sign` signs its access
token, possibly much later. POST /logout ends the session of the cookie's token,
or none, or on a replay all (`EndByCookie`), then the session its header names,
and collects what to list: that session, the bearer token and its session
(`EndByHeader`). DELETE /sessions/:id and DELETE /sessions are `End`, the
UPDATE, after which they list the sessions it ended and then, as far as it goes,
their caller's own token (`ListOwn`). `List` is one SET each. When Redis is
closed (`ListFails`) a logout is refused, a DELETE goes on without the entry; a
logout with nothing to list is reported without a look at Redis. `Report` is the
answer, `Fail` an error or a lost process, after which the client may try again.
The row locks and tokens of these requests are in `RefreshTokens`; here only
whether the session is active matters, as an inactive one is not rotated.
`Arrive`, `Check`, `Consume` are authMiddleware, revokeCheck and consumeMfaJti.
`Outage` closes and opens the connection to Redis; `LoseKeys` is a restart of
Redis, which the manifest runs without a volume (`k8s/infrastructure.yaml:149`):
entries and marks are gone. Time advances in ticks; a second has `Second` of
them, so that the rounding of `iat` (down) and of the lifetime of a mark (up) is
visible. Entries run out by comparison with the clock. `aimed`, `revoked` and
`writers` are history since the keys were last lost: the tokens a request has to
end, those whose end was reported, and the requests that wrote.

## 4. Runs

| run | instance | what it shows |
|---|---|---|
| `payroll_run` | one basic run, two enterprise runs and a batch of two; three of the five want the same slot of one table; pool of two | OnePerPeriod, OutboxMatchesLedger, refinement of PayrollLedger, RunsEnd |
| `payroll_outbox` | three rows, two replicas, limit 2, two lost transactions | DuplicatesNeedAborts, RetryLimitExact, refinement of OutboxContract, EventsSettle |
| `payroll_saga` | two records, a stranger and a malformed message, two listeners, one replica, two compensations of a record, one lost listener, one lost transaction | TrailsAgree, CompensatedOnRequest, EchoNeverDies |
| `payroll_bank` | three creates (two for one line), three settles | LinePaidOnce, refinement of DepositContract |
| `refresh_tokens` | any five of two logins, two refreshes, a logout, a DELETE of sessions and a password reset; four tokens, one expiry, one failure | SingleUse, OneLiveToken, RevocationIsComplete, LogoutEndsSession, LoserFindsRotation, NeverStuck, refinement of SessionContract |
| `audit_chain` | four appends, an erasure of up to two of them, a verification, pages of two | NoFork, AnchorCountsAll, DeletionDetected, AlarmIsReal, refinement of AuditContract |
| `webhook_delivery` | two logs, one of two attempts and one of one, two threads, one log in a round, one fault | AttemptsHonest, NeverGivesUpEarly, AcceptedIsDelivered, RetriesEnd |
| `audit_retry_queue` | two gateways, two events served by the same one, room for one, two attempts, two faults | OneFaultOneEvent, OneFaultOneLeftover, DuplicatesExplained, refinement of RetryContract, EventsSettle |
| `sign_in` | two logins, a validation, two uses of a link, a reset, a limit of three, two passwords | AttemptsBounded, LockEarned, LinkOpensOnce, OldPasswordNeedsOverlap |
| `access_gate` | two sessions, any four of a refresh, a logout, a DELETE and two requests at the gateway; seconds of two ticks, tokens and entries of one second, three ticks | StepUpOnce, RevokedStaysOut |

Two more runs exhibit a disagreement (section 7).

Why the bounds are enough. The hazards are pairwise: two writers of one slot,
two holders of one token, two replicas on one row, two threads on one log, and
every instance has the pair and one bystander, or a third party that interferes
(a batch, a logout, an erasure, a crash). Two connections are the smallest pool
in which failing runs can block each other and a third run suffers. Pages of two
make four entries span pages, which the OFFSET anomalies need. A limit of two
attempts separates "again" from "given up" and shows an increment that is lost.
Two lost transactions are enough to duplicate and to lose an increment on the
same row. Two sessions are the fewest whose rows two many-row statements can
lock in opposite orders, and five requests at a time are a login or two, what
races for them, and a third party. In `webhook_delivery` the second log is what
a fault of the first must leave alone, and a round of one log passes the other
over. In `audit_retry_queue` two events of one instance put an event behind a
newer one and are both in flight when it dies; a second fault lets a restart of
Redis or another loss follow; a queue shorter than the number of events makes it
full. In `sign_in` a limit above the number of logins separates a lock that was
earned from one that was not. In `access_gate` a second of two ticks is the
coarsest clock on which rounding up and down differ, and a second and a half
sees tokens, entries and marks run out and new ones written; any four requests
include two that write with one step-up token, and a logout and a DELETE that
race for one session. That the bounds hide nothing is visible in the proofs:
every safety property of the ten components is proved for every value of them,
save for the ENABLED in NeverStuck (section 5). Runs say CHECK_DEADLOCK FALSE
where the requests of the instance are finite and the system then rests. The
permutations of `refresh_tokens` and `access_gate` (requests of one kind, and
sessions in the latter) are sound there, as these runs check safety only.

The bounds by name: `PoolSize`, `MaxRetries`, `MaxAttempts` and `PageSize` are
parameters of the code, as are `MaxQueue`, `MaxFailed`, `AccessTTL`, `DenyTTL`,
`StepExp` and `BatchLimit`; `MaxAborts`, `MaxRequests`, `MaxCompensations`,
`MaxDrops`, `MaxTokens`, `MaxExpired`, `MaxFails`, `MaxFaults`, `MaxVersion`,
`MaxTime` and the sets of requests, replicas and threads only keep the state
space finite; `Attempts` is the retry loop of `create_audit_log`. NeverStuck
speaks of instances with a token for every login and refresh (`EnoughTokens`),
as `refresh_tokens` has: the bound on tokens must not be what stops a request.

Three invariants say more than their names. OutboxMatchesLedger has, besides the
equivalence for transactional runs, what is left of it for batched ones: an
event never ahead of row, payslip and audit row, never beside PAYROLL_FAILED,
and a progress row only for complete employees. NeverGivesUpEarly excuses a
delivery by what happened to it and nothing else: with two deliveries and one
fault it says that a fault misjudges the delivery it strikes and no other, and
that overlapping updates misjudge none. AcceptedIsDelivered is about the thread
that overlaps: a refusal read before the row became DELIVERED writes columns
beside it and does not take it back; one read afterwards does, which the code
allows and the verdict "overruled" stands for. NeverStuck has three parts:
OnlyKnots (a circle of waiting requests contains two many-row statements of one
kind), SomeoneReady, and the ENABLED of a ready request.

What the runs taught. With as many connections as failing runs and one to spare,
every failure leaves its trace (PAYROLL_FAILED). `Retry` in `AuditChain` is
never taken while every writer takes the lock (LockSuffices): the loop is
insurance against writers outside the service. With three threads on one log TLC
finds a row merged from two threads' columns that is PENDING with all attempts
used, which the loop does not select; the second disjunct of RetriesEnd admits
it. An MFA challenge and a magic link outlive a password reset: the first is why
OldPasswordNeedsOverlap has its exception for sign-ins that were under way, the
second opens a session without any password, by design. A reset that fails
between the new password and the revocation has used up its reset token and
leaves the old sessions in place; only another reset ends them. A password reset
and a detected replay write no denylist entry: the access tokens of the sessions
they end live on until they expire, and RevokedStaysOut speaks of logouts and
DELETEs only. A refresh that rotated before a revocation and signs after it
yields a token the revocation could not know; it outlives the denylist entry by
the time it was late.

## 5. Fairness

RefreshTokens has no liveness property. Instead: requests wait for each other in
a circle only if two many-row statements of one kind met in opposite orders, two
UPDATEs of `sessions` or two DELETEs of `refresh_tokens`, a knot PostgreSQL's
deadlock detector parts by failing one of them (OnlyKnots); while requests are
running, and there is no knot, one of them waits for no row lock (SomeoneReady;
both proved as LocksAreReleased); such a request has an ENABLED step
(NeverStuck, checked by TLC); and a request goes through at most nine stages, in
each of which the rows left only get fewer, failures included
(RequestsAreFinite, proved). So none waits for ever, without any fairness but
that some ready request goes on. Every liveness property is checked under weak
fairness of steps the runtime takes by itself, and of nothing else; clients owe
no request, faults are never fair.

- `PayrollRun!FairSpec`: a thread that is inside a run goes on with its own work
  (`Work`). What may go wrong (`Fault`: an exception in the body, a failed
  commit, a failing recordFailure) is possible at every moment and never owed.
  A run that waits for an index entry has no enabled step of its own: nothing in
  the code ends that wait but its rival's commit or rollback. The wait for a
  connection does end by itself, by the pool's connection timeout
  (`RecordFailureTimesOut`), a step which HikariCP takes; RunsEnd depends on it.
- `PayrollOutbox!FairSpec`: `@Scheduled` polls again and a poll under way visits
  its rows and ends. The number of lost transactions is bounded by `MaxAborts`:
  with a database that fails for ever nothing settles.
- `AuditRetryQueue!FairSpec`: the timer starts a round, a call that was made
  returns, and a backoff runs out. Only the successful outcome of a Redis call
  is owed; a POST is owed an answer, not a good one; a request owes nothing.
  Faults are bounded by `MaxFaults`, and the client is open again after a
  restart of Redis. There are finitely many events: EventsSettle says nothing
  of a load that never ends (section 7).
- `WebhookDelivery!FairSpec`: the loop comes round every 15 seconds and finds
  some log due (`Loop`), a thread goes on and its POST ends by answer or timeout
  (`Deliver`). Faults are bounded by `MaxFaults`. Which logs a round takes is
  not owed: RetriesEnd holds although LIMIT has no ORDER BY, because a log that
  is taken instead has its attempts used up in the end. It assumes that
  `process_outbox`, called before the retries in the same try block, does not
  raise on every tick (`main.py:176`).

## 6. Proofs

Each proof module EXTENDS its component and proves an inductive invariant `IInv`
(first as an invariant of TLC, then with TLAPS), from which its theorems follow.
The only assumptions are the named ones on the constants: finite sets of actors,
limits in Nat, disjoint kinds of requests.

| module | theorems | why the invariant has its parts |
|---|---|---|
| PayrollProofs, runs | TypeCorrect, PaidOnce, OutboxTruthful, ProgressComplete, IndexHolderWorks, Implements | OnePerPeriod speaks of committed rows only; `OneClaim` extends it to uncommitted ones, `OpenRows` says whose they are, `Announced` and `BatchWrites` tie the tables to the place of each run, `ProgressClean` to the batch. IndexHolderWorks is the part of RunsEnd that a proof reaches: the run whose index entry another waits for waits for no entry itself |
| PayrollProofs, bank | BankTypeCorrect, MovedOnce, SameAnswer, BankImplements | `OneTransfer`: the index keeps references apart among committed and uncommitted rows; `Answered` ties an answer to a committed transfer of the line; `Settling` says that what a settle read under the lock is still so, which makes `Money` (the status tells how often the money moved) inductive |
| PayrollSagaProofs, publisher | TypeCorrect, DuplicatesBounded, RetryLimit, Implements | `LocksHold`: a row in a poll is open and in no other poll; `Copies` says which copy is accounted for by which poll or lost transaction |
| PayrollSagaProofs, saga | SagaTypeCorrect, ThreeTrailsAgree, NoStrayCompensation, EchoForever, SagaUsesOutbox, SagaImplements | `Trails`: the events of a record are numbered 1 to its count of audit rows, which turns TrailsAgree into a statement about an interval; `Asked`: what is compensated, queued or held was asked for; `Echoing` counts an event as under way only until it is handed to the broker, and a message only until its handler has finished: what a publisher has sent but not committed is in the queue already, and a finished listener's successor is in the outbox |
| RefreshTokensProofs | TypeCorrect, UsedOnce, OneToken, Revokes, LogoutEnds, LoserFinds, RevokedForGood, LocksAreReleased, RequestsAreFinite, Implements | `Families` links session rows and tokens both ways, `LocksHold` says what a claimed token guarantees, `Revoking` what a revocation has already finished and which snapshot it still works on, `Remembered` that a rotated token is on record, caught or aged, `TurnedAway` that refusals are for good. LocksAreReleased follows the order of the locks: who holds a token's row as a claim waits for a session row at most, who holds session rows for session rows at most, who holds tokens' rows in a many-row DELETE for tokens' rows at most; so a circle has a knot in it. `OneTokenEach` (as many tokens were issued as logins and refreshes minted one) shows that `MaxTokens` is not what stops a request. RequestsAreFinite gives every place of a request a `Rank` that each step lowers, or it leaves the rank and has one row less to deal with |
| AuditChainProofs | TypeCorrect, OneChain, NoCollision, CountsAll, Gapless, Detects, AlarmsAreReal, Implements | `Writing`: what the lock holder read is still true, even after erasures; `Walking`: a walk has counted no more than was left; `Shape`: hashes name only what was written. AlarmsAreReal needs two more: `Numbered` (while nothing was deleted the numbers are 1 to the anchor's) and `Sound` (a walk nobody disturbed is on track: it rests on the row whose number it has counted to). The lemmas about pages (UptoCardinality, InitialSegment, PageLinked) turn OFFSET and LIMIT into intervals of numbers |
| WebhookDeliveryProofs | TypeCorrect, CountsAreRefusals, Persistent, AcceptanceStands | `Counted` adds to the recorded attempts the refusals threads still hold, `UpdatesCounted` does the same for the count a thread is about to write. `Blameless`: a row that nothing excuses is failed, or about to be, by its last refusal only. `Unruled`: a row no late refusal overrules moves to DELIVERED or not at all, and once accepted somebody moves it there |
| AuditRetryQueueProofs | TypeCorrect, LossesBounded, LeftoversBounded, SecondEntriesExplained, DeadLettersAreExhausted, Implements | an event is in one place at a time (`OneCopyOf`, and `OnceIn` for the queue), its attempts are its POSTs less one not yet written back (`TallyAt`, `TallyOf`), its entries are paid for while it may be posted again (`EntriesAt`, `EntriesOf`); a step that moves one event at the price of a fault keeps all of it (lemma Elsewhere), and a crash or a restart moves any number to `cut`, where nothing of it is asked. For the refinement, `Cared` and `Tried` name the mapped variables, and the lemmas IsTry, IsFault and IsQuiet say which changes of them are steps of the contract |
| SignInProofs | TypeCorrect, GuessesBounded, LocksEarned, OneSessionPerLink, ReplacedPasswordsOverlap | `Counted` relates the row, the wrong passwords and the logins between check, comparison and upsert, as cardinalities of the sets of logins at each step; `Once` follows the link from its use to its session, `Overlap` the password a sign-in was let in with to the session it opens |
| AccessGateProofs | TypeCorrect, StepUpIsSingleUse, RevokedTokensStayOut | `Tokens` bounds the expiry of every signed token by the clock, `Aims` says of each token a running request has to end that its session is still to be listed or listed for long enough, `Covered` the latter of every token whose end was reported, `Carried` that a mark outlives its step-up token; after `LoseKeys` nothing is claimed of what came before; the lemmas RoundedUp and RoundedDown are the arithmetic of the two clocks |

Refinements (`Implements`) are proved by mapping each step to a step of the
abstract specification or to a stutter, with `IInv` as hypothesis: runs to
PayrollLedger, the publisher to OutboxContract, the tables of refresh tokens to
SessionContract, the bank transactions to DepositContract, the audit chain to
AuditContract, the retry queue to RetryContract. SagaUsesOutbox is the
composition: every behaviour of the saga is one of the publisher, so that the
theorems about the publisher hold inside the saga, without being proved again
(SagaImplements).

AccessGate's assumption AccessTTL <= DenyTTL is the code's choice of 15 minutes
for both, and StepExp % Second = 0 says that `exp` is a whole second.

BankAssumption says that creates and settles are different calls, SagaAssumption
that a message about a record, a stranger's and a malformed one can be told
apart.

Only model-checked: liveness (RunsEnd, both EventsSettle, RetriesEnd), as
fairness is out of the prover's reach, and of NeverStuck its second part, as the
prover does not reason about ENABLED. Proved and not run, as they are
consequences of the invariants or of a refinement that is run, or too close to
the code to earn a run: ProgressComplete (a part of OutboxMatchesLedger),
IndexHolderWorks, SameAnswer, RevokedForGood, LocksAreReleased (a part of
NeverStuck), RequestsAreFinite, NoCollision, Gapless, DeadLettersAreExhausted,
SagaUsesOutbox and the type invariants.

## 7. Disagreements found

Each is a run that ends in a counterexample to what the repository says.

- `refresh_tokens_replay_lost`, DetectedMeansRevoked. `index.js:1137-1140` says
  a replay revokes every session; the record that detects it is deleted first
  and apart, so a failure between the two loses the revocation for good.
- `sign_in_challenge_twice`, ChallengeOpensOnce. `index.js:2192` and `2661` call
  the challenge single-use; it is looked up with GET and removed with a DEL
  whose count nobody reads (`index.js:787`), so two validations that overlap
  both open a session.

Observed in the models without a run: as many payroll runs failing at once as
the pool has connections leave no PAYROLL_FAILED row, as none gets its second
connection (`PayrollFailureOutboxWriter.java:35`, against its promise in lines
20-22); a batch calls the transactional method on `this`
(`PayrollEnterpriseService.java:922`), and a crash between its commits leaves a
paid row without an event (never an event without its row); an append between
the last page and the anchor of a verification makes it report entries removed
or appended outside the service (`crud.py:1145`); the compensation echo
(EchoNeverDies holds, so a compensated record is compensated again and again,
each time with an audit row), and a login overtaken by a revocation, which
leaves an active session row without a token (`index.js:1249`).

Of the audit retry queue: events are pushed and taken at the same end
(`index.js:1895`, `1916`, `1983`), and one that is not yet due ends the round,
so while the audit service refuses and new events keep coming the oldest can
wait for ever; and a restart of Redis loses the queue and the dead letters with
it.

Of logout and revocation: a logout with a cookie but neither an Authorization
header nor `x-session-id` lists nothing and reports success, with Redis open or
not, although the comment at `auth-service/index.js:2318-2321` says that the
write must not be skipped: the access tokens of the session live on until they
expire. A replayed cookie at logout ends all sessions and lists none of them.
DELETE /sessions/:id lists the session of its caller too (`4138`), whose tokens
are then refused for fifteen minutes although the session is active. A restart
of Redis makes every listed token and every used step-up token good again until
it expires.

## 8. What is not modelled

Inside the modelled components: registration, OAuth and SSO login, enrolment of
second factors, password policy and API keys in auth-service; proxying, CSRF,
role checks, rate limits and caches in the gateway; deleting a webhook with its
logs and the start-up migration of old logs (`integration-service/main.py:100`);
amounts, taxes and currencies; the text of messages, hashes and tokens;
pagination of lists other than the verification; more than one user (sessions,
sign-in), tenant (audit chain) or webhook (deliveries), which share no rows; the
broker's own losses (a message handed to the client library counts as sent);
clocks, except in AccessGate and as "due", "expired" and "aged". Everything else
is listed in section 1 with its reason.
