---------------------------- MODULE WebhookDelivery ----------------------------
(***************************************************************************)
(* Webhook deliveries of integration-service: route_event writes a         *)
(* delivery log and starts a thread that posts it, a background loop       *)
(* starts threads for the logs that are due.  Nothing claims a log, so     *)
(* several threads may deliver one log at once.                            *)
(*                                                                         *)
(* A thread loads the row into a session of its own and writes back only   *)
(* the columns it changed (SQLAlchemy's unit of work), after other threads *)
(* may have committed.  Whether the webhook is enabled, and whether a      *)
(* PENDING row is due, is left open whenever the loop looks.               *)
(***************************************************************************)
EXTENDS Naturals, FiniteSets

CONSTANTS Deliveries,   \* rows of integration_webhook_delivery_logs, of one webhook
          Threads,      \* numbers of the delivery threads that may be alive at once
          MaxAttempts,  \* max_attempts of each row: retry_count + 1 when it was written
          BatchLimit,   \* most rows the background loop selects in a round
          MaxFaults     \* bound on crashes and database errors

NoJob == "none"

ASSUME DeliveryAssumption ==
  /\ MaxAttempts \in [Deliveries -> Nat \ {0}]
  /\ BatchLimit \in Nat \ {0} /\ MaxFaults \in Nat
  /\ IsFiniteSet(Threads) /\ Threads \subseteq Nat
  /\ NoJob \notin Deliveries

VARIABLES
  status, attempts,  \* columns of each row; "none" before it is written
  batch,             \* rows the background loop has selected
  pc, job,           \* where each thread is, the row it delivers
  update,            \* update[t]: the columns t is about to write
  faults,            \* crashes and database errors so far
  refused,           \* refused[d]: POSTs of d the endpoint did not accept
  verdict            \* verdict[d]: what happened to d, for the properties

row == <<status, attempts>>
threads == <<pc, job, update>>
history == <<refused, verdict>>
vars == <<row, batch, threads, faults, history>>

\* An update of no column.
Keep == [status |-> "same", attempts |-> 0]

Goto(t, l) == pc' = [pc EXCEPT ![t] = l]

Leave(t) ==
  /\ Goto(t, "idle")
  /\ job' = [job EXCEPT ![t] = NoJob] /\ update' = [update EXCEPT ![t] = Keep]

Judge(d, v) == verdict' = [verdict EXCEPT ![d] = v]

Init ==
  /\ status = [d \in Deliveries |-> "none"] /\ attempts = [d \in Deliveries |-> 0]
  /\ batch = {}
  /\ pc = [t \in Threads |-> "idle"] /\ job = [t \in Threads |-> NoJob]
  /\ update = [t \in Threads |-> Keep]
  /\ faults = 0
  /\ refused = [d \in Deliveries |-> 0]
  /\ verdict = [d \in Deliveries |-> "open"]

(***************************************************************************)
(* route_event and the background loop.                                    *)
(***************************************************************************)
\* threading.Thread(target=_deliver_sync).start(), under the first free number.
StartThread(t, d) ==
  /\ pc[t] = "idle" /\ \A u \in Threads : u < t => pc[u] # "idle"
  /\ job' = [job EXCEPT ![t] = d]
  /\ Goto(t, "post")

\* create_delivery_log commits; from then on the loop may select the row.  A
\* crash before the thread runs is one that takes it before its POST.
Route(t, d) ==
  /\ status[d] = "none"
  /\ status' = [status EXCEPT ![d] = "PENDING"]
  /\ StartThread(t, d)
  /\ UNCHANGED <<attempts, batch, update, faults, history>>

\* Mutant of Retriable: the first attempt is left to route_event.
OnlyAttempted(d) == status[d] = "PENDING" /\ attempts[d] \in 1 .. MaxAttempts[d] - 1

\* Logs get_pending_retries selects once next_retry_at has passed.
Retriable(d) == status[d] = "PENDING" /\ attempts[d] < MaxAttempts[d]

\* LIMIT without ORDER BY: any of those that are due, up to the limit.
Select(B) ==
  /\ batch = {}
  /\ B # {} /\ Cardinality(B) <= BatchLimit
  /\ \A d \in B : Retriable(d)
  /\ batch' = B
  /\ UNCHANGED <<row, threads, faults, history>>

\* The webhook is enabled when the loop looks.
Redeliver(t, d) ==
  /\ d \in batch
  /\ StartThread(t, d)
  /\ batch' = batch \ {d}
  /\ UNCHANGED <<row, update, faults, history>>

\* It is switched off, or gone: the log is given up.
GiveUp(d) ==
  /\ d \in batch
  /\ status' = [status EXCEPT ![d] = "FAILED"]
  /\ Judge(d, "excused")
  /\ batch' = batch \ {d}
  /\ UNCHANGED <<attempts, threads, faults, refused>>

(***************************************************************************)
(* _deliver_sync.                                                          *)
(***************************************************************************)
\* deliver_webhook: accepted, refused or timed out; blocked, or an exception.
Post(t) ==
  LET d == job[t] IN
  /\ pc[t] = "post"
  /\ \/ /\ Goto(t, "accepted")
        /\ Judge(d, IF verdict[d] \in {"open", "lost"} THEN "accepted" ELSE verdict[d])
        /\ UNCHANGED refused
     \/ /\ Goto(t, "refused")
        /\ refused' = [refused EXCEPT ![d] = @ + 1]
        /\ UNCHANGED verdict
     \/ /\ Goto(t, "broken")
        /\ Judge(d, "excused")
        /\ UNCHANGED refused
  /\ UNCHANGED <<row, batch, job, update, faults>>

\* Mutant of Exhausted: gives up one attempt early.
GivesUpEarly(d, n) == n + 1 >= MaxAttempts[d]

Exhausted(d, n) == n >= MaxAttempts[d]

\* The status each outcome leads to (build_retry_update), n being the attempts.
NewStatus(d, l, n) ==
  CASE l = "accepted" -> "DELIVERED"
    [] l = "refused" -> IF Exhausted(d, n) THEN "FAILED" ELSE "PENDING"
    [] l = "broken" -> "FAILED"

\* Mutant of Counts: what was not sent counts as an attempt too.
EveryOutcome(l) == TRUE

\* The outcomes that count as attempts.
Counts(l) == l = "refused"

\* Mutant of Column: every column is written, whether it changed or not.
EveryColumn(loaded, set) == set

\* A value equal to the one loaded is not written.
Column(loaded, set) == IF set = loaded THEN "same" ELSE set

\* A refusal is late when, as its update begins, the row is DELIVERED or this
\* attempt was its last.
Late(t, d) == pc[t] = "refused" /\ (status[d] = "DELIVERED" \/ Exhausted(d, attempts[d] + 1))

\* An update loads the row and sets columns; it writes them only when it commits.
Load(t) ==
  LET d == job[t]
      n == attempts[d] + 1
  IN /\ pc[t] \in {"accepted", "refused", "broken"}
     /\ update' = [update EXCEPT ![t] =
                     [status |-> Column(status[d], NewStatus(d, pc[t], n)),
                      attempts |-> IF Counts(pc[t]) THEN n ELSE 0]]
     /\ Goto(t, IF pc[t] = "broken" THEN "fail" ELSE "write")
     /\ IF Late(t, d) /\ verdict[d] # "excused" THEN Judge(d, "overruled") ELSE UNCHANGED verdict
     /\ UNCHANGED <<row, batch, job, faults, refused>>

Commit(t) ==
  LET d == job[t]
      u == update[t]
  IN /\ pc[t] \in {"write", "fail"}
     /\ status' = [status EXCEPT ![d] = IF u.status = "same" THEN @ ELSE u.status]
     /\ attempts' = [attempts EXCEPT ![d] = IF u.attempts = 0 THEN @ ELSE u.attempts]

Write(t) ==
  /\ Commit(t)
  /\ Leave(t)
  /\ UNCHANGED <<batch, faults, history>>

\* A database error is caught and recorded as a failed delivery, also one that
\* follows the commit (db.refresh, update_webhook); when recording it fails too,
\* the row stays as it is.
DbError(t) ==
  /\ faults < MaxFaults
  /\ faults' = faults + 1
  /\ Judge(job[t], "excused")
  /\ \/ /\ pc[t] \in {"accepted", "refused", "write"}
        /\ Commit(t) \/ UNCHANGED row
        /\ Goto(t, "broken")
        /\ update' = [update EXCEPT ![t] = Keep]
        /\ UNCHANGED job
     \/ /\ pc[t] \in {"broken", "fail"}
        /\ Leave(t)
        /\ UNCHANGED row
  /\ UNCHANGED <<batch, refused>>

\* Somebody is about to deliver d, or is delivering it.
Attended(d) == d \in batch \/ \E t \in Threads : job[t] = d

\* The process dies and starts again: the rows are all that is left.
Crash ==
  /\ faults < MaxFaults
  /\ faults' = faults + 1
  /\ pc' = [t \in Threads |-> "idle"] /\ job' = [t \in Threads |-> NoJob]
  /\ update' = [t \in Threads |-> Keep]
  /\ batch' = {}
  /\ verdict' = [d \in Deliveries |->
                   IF Attended(d) /\ verdict[d] = "accepted" THEN "lost" ELSE verdict[d]]
  /\ UNCHANGED <<row, refused>>

\* A database error in the loop ends its round (_background_loop).
LoopError ==
  /\ faults < MaxFaults
  /\ batch # {}
  /\ faults' = faults + 1
  /\ batch' = {}
  /\ UNCHANGED <<row, threads, history>>

Deliver(t) == Post(t) \/ Load(t) \/ Write(t)

\* A round of the background loop.
Loop ==
  \/ \E B \in SUBSET Deliveries : Select(B)
  \/ \E d \in Deliveries : GiveUp(d) \/ \E t \in Threads : Redeliver(t, d)

Next ==
  \/ \E d \in Deliveries, t \in Threads : Route(t, d)
  \/ Loop \/ LoopError \/ Crash
  \/ \E t \in Threads : Deliver(t) \/ DbError(t)

Spec == Init /\ [][Next]_vars

\* The loop comes round every 15 seconds, a POST ends or times out, and the
\* next_retry_at of some PENDING log passes.
FairSpec ==
  /\ Spec
  /\ WF_vars(Loop)
  /\ \A t \in Threads : WF_vars(Deliver(t))

-----------------------------------------------------------------------------
Statuses == {"none", "PENDING", "DELIVERED", "FAILED"}

Stages == {"idle", "post", "accepted", "refused", "broken", "write", "fail"}

\* In rising order of what they excuse; "lost" is accepted, but a crash came.
Verdicts == {"open", "accepted", "lost", "overruled", "excused"}

TypeOK ==
  /\ status \in [Deliveries -> Statuses]
  /\ attempts \in [Deliveries -> Nat]
  /\ batch \subseteq Deliveries
  /\ pc \in [Threads -> Stages]
  /\ job \in [Threads -> Deliveries \union {NoJob}]
  /\ update \in [Threads -> [status : (Statuses \ {"none"}) \union {"same"}, attempts : Nat]]
  /\ faults \in 0..MaxFaults
  /\ refused \in [Deliveries -> Nat]
  /\ verdict \in [Deliveries -> Verdicts]

\* The attempts of a delivery are POSTs the endpoint refused: updates of
\* overlapping threads may be lost, none is counted twice
\* (_deliver_sync, read-modify-write of attempts).
AttemptsHonest == \A d \in Deliveries : attempts[d] <= refused[d]

\* A delivery is given up before its attempts are used up only if it was
\* blocked, met a disabled webhook, or had a database error of its own: what
\* strikes one delivery, and updates that overlap, misjudge no other
\* (_deliver_sync, build_retry_update).
NeverGivesUpEarly ==
  \A d \in Deliveries :
     status[d] = "FAILED" /\ refused[d] < MaxAttempts[d] => verdict[d] = "excused"

\* Once the endpoint has accepted a POST of a delivery, a refusal of another
\* POST that overlaps with it does not put the row back, unless it used up the
\* attempts or its thread read the row only when it was DELIVERED: when nobody
\* works on the row any more it is DELIVERED, or PENDING because a crash took
\* the thread before it wrote (_deliver_sync, update_delivery_log).
AcceptedIsDelivered ==
  \A d \in Deliveries :
     verdict[d] \in {"accepted", "lost"} =>
       Attended(d) \/ status[d] = "DELIVERED" \/ (status[d] = "PENDING" /\ verdict[d] = "lost")

\* Every delivery is retried until it settles or its attempts are used up,
\* also one whose thread was lost in a crash (retry_failed_deliveries).
RetriesEnd ==
  \A d \in Deliveries :
     status[d] = "PENDING" ~> status[d] # "PENDING" \/ attempts[d] >= MaxAttempts[d]

=============================================================================
