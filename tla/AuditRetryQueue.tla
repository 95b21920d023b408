--------------------------- MODULE AuditRetryQueue ---------------------------
(***************************************************************************)
(* The audit events of api-gateway-node: one POST to the audit service per *)
(* successful write request (auditProxyMiddleware), and for the events     *)
(* that POST lost a retry queue in Redis that every gateway instance       *)
(* drains (drainAuditRetryQueue).  Each Redis call is a step of its own    *)
(* and may fail before or after it took effect.                            *)
(***************************************************************************)
EXTENDS Naturals, FiniteSets, SequencesExt

CONSTANTS Gateways,     \* gateway instances, each serving requests and draining the queue
          Events,       \* audit events, one per write request
          HomeOf,       \* HomeOf[e]: the instance that serves the request of e
          NoEvent,      \* what a gateway holds between two events
          MaxAttempts,  \* MAX_AUDIT_RETRY_ATTEMPTS
          MaxQueue,     \* MAX_AUDIT_QUEUE_SIZE
          MaxFaults     \* bound on failed Redis calls, crashes and restarts of Redis

ASSUME QueueAssumption ==
  /\ IsFiniteSet(Events)
  /\ NoEvent \notin Events /\ HomeOf \in [Events -> Gateways]
  /\ MaxAttempts \in Nat \ {0} /\ MaxQueue \in Nat /\ MaxFaults \in Nat

VARIABLES
  stage,       \* stage[e]: how far the request handler is with e
  dropped,     \* events refused because the queue was full
  cut,         \* events that went with their request handlers or with Redis
  queue,       \* audit_retry_queue, left to right
  processing,  \* audit_retry_processing; a set, as an event left over in it
               \* is never queued again
  dlq,         \* audit_retry_dlq
  attempts,    \* attempts[e]: the _attempts stored with e
  due,         \* due[e]: the clock has reached the _nextRetryAt of e
  pc,          \* pc[g]: the next step of the drain of g
  item,        \* item[g]: the event it works on
  plan,        \* plan[g]: what is to become of that event
  recorded,    \* recorded[e]: entries the audit service wrote for e
  posts,       \* posts[e]: POSTs of e by drains
  timeouts,    \* timeouts[e]: POSTs that were recorded but answered too late
  faults       \* failed Redis calls, crashes and restarts of Redis so far

handler == <<stage, dropped, cut>>
lists == <<queue, processing, dlq>>
stored == <<attempts, due>>
drain == <<pc, item, plan>>
service == <<recorded, posts, timeouts>>
vars == <<handler, lists, stored, drain, service, faults>>

\* A Redis call works, fails without effect, or fails after its effect.
Outcomes == {"ok", "void", "late"}

Charge(out) ==
  IF out = "ok" THEN UNCHANGED faults
  ELSE faults < MaxFaults /\ faults' = faults + 1

Init ==
  /\ stage = [e \in Events |-> "new"] /\ dropped = {} /\ cut = {}
  /\ queue = <<>> /\ processing = {} /\ dlq = {}
  /\ attempts = [e \in Events |-> 0]
  /\ due = [e \in Events |-> TRUE]
  /\ pc = [g \in Gateways |-> "idle"]
  /\ item = [g \in Gateways |-> NoEvent]
  /\ plan = [g \in Gateways |-> "none"]
  /\ recorded = [e \in Events |-> 0]
  /\ posts = [e \in Events |-> 0]
  /\ timeouts = [e \in Events |-> 0]
  /\ faults = 0

\* What a POST of e does: it may be recorded and still count as failed.
Posted(e, answer) ==
  /\ recorded' = IF answer = "refused" THEN recorded ELSE [recorded EXCEPT ![e] = @ + 1]
  /\ timeouts' = IF answer = "late" THEN [timeouts EXCEPT ![e] = @ + 1] ELSE timeouts

\* The response of a write request is finished: the first POST.
Finish(e, answer) ==
  /\ stage[e] = "new"
  /\ Posted(e, answer)
  /\ stage' = [stage EXCEPT ![e] = IF answer = "ok" THEN "out" ELSE "failed"]
  /\ UNCHANGED <<dropped, cut, lists, stored, drain, posts, faults>>

\* enqueueAuditRetry: LLEN, and nothing if Redis fails or the queue is full.
Measure(e, out) ==
  /\ stage[e] = "failed"
  /\ Charge(out)
  /\ LET full == out = "ok" /\ Len(queue) >= MaxQueue
     IN /\ dropped' = IF full THEN dropped \union {e} ELSE dropped
        /\ stage' = [stage EXCEPT ![e] = IF out = "ok" /\ ~full THEN "measured" ELSE "out"]
  /\ UNCHANGED <<cut, lists, stored, drain, service>>

\* The events in S go with what held them.
CutOff(S) ==
  /\ stage' = [e \in Events |-> IF e \in S THEN "out" ELSE stage[e]]
  /\ cut' = cut \union S

\* enqueueAuditRetry finds the Redis client closed and makes no call.
FindClosed(e) ==
  /\ stage[e] = "failed"
  /\ CutOff({e})
  /\ UNCHANGED <<dropped, lists, stored, drain, service, faults>>

\* enqueueAuditRetry: RPUSH with _attempts 0, due at once.
Store(e, out) ==
  /\ stage[e] = "measured"
  /\ Charge(out)
  /\ stage' = [stage EXCEPT ![e] = "out"]
  /\ queue' = IF out = "void" THEN queue ELSE Append(queue, e)
  /\ UNCHANGED <<dropped, cut, processing, dlq, stored, drain, service>>

\* Backoff is over.
ComesDue(e) ==
  /\ ~due[e]
  /\ due' = [due EXCEPT ![e] = TRUE]
  /\ UNCHANGED <<handler, lists, attempts, drain, service, faults>>

\* The timer starts a round unless one is running in this instance.
Start(g) ==
  /\ pc[g] = "idle"
  /\ pc' = [pc EXCEPT ![g] = "take"]
  /\ UNCHANGED <<handler, lists, stored, item, plan, service, faults>>

\* The round of g goes on with no event in hand, or ends.
Advance(g, step) ==
  /\ pc' = [pc EXCEPT ![g] = step]
  /\ item' = [item EXCEPT ![g] = NoEvent]
  /\ plan' = [plan EXCEPT ![g] = "none"]

\* Mutant of Exhausted: one attempt too many.
ExhaustedLate(e) == attempts[e] > MaxAttempts

Exhausted(e) == attempts[e] + 1 > MaxAttempts

\* Mutant of Hold: the LREM of an event given up is left out.
HoldDiscardsAtOnce(g, e) ==
  /\ item' = [item EXCEPT ![g] = e]
  /\ pc' = [pc EXCEPT ![g] = IF ~due[e] THEN "remove" ELSE IF Exhausted(e) THEN "push" ELSE "post"]
  /\ plan' = [plan EXCEPT ![g] = IF ~due[e] THEN "putback"
                                 ELSE IF Exhausted(e) THEN "discard" ELSE "none"]

\* Mutant of Hold: an event that used up its attempts is put back.
HoldPutsBack(g, e) ==
  /\ item' = [item EXCEPT ![g] = e]
  /\ pc' = [pc EXCEPT ![g] = IF due[e] /\ ~Exhausted(e) THEN "post" ELSE "remove"]
  /\ plan' = [plan EXCEPT ![g] = IF ~due[e] \/ Exhausted(e) THEN "putback" ELSE "none"]

\* The event moved to the processing list is looked at.
Hold(g, e) ==
  /\ item' = [item EXCEPT ![g] = e]
  /\ pc' = [pc EXCEPT ![g] = IF due[e] /\ ~Exhausted(e) THEN "post" ELSE "remove"]
  /\ plan' = [plan EXCEPT ![g] = IF ~due[e] THEN "putback"
                                 ELSE IF Exhausted(e) THEN "discard" ELSE "none"]

\* LMOVE from the right end of the queue; an empty queue ends the round.
Take(g, out) ==
  /\ pc[g] = "take"
  /\ Charge(out)
  /\ IF queue = <<>> \/ out = "void"
     THEN UNCHANGED <<queue, processing>>
     ELSE queue' = Front(queue) /\ processing' = processing \union {Last(queue)}
  /\ CASE out # "ok"   -> Advance(g, "fallback")
       [] queue = <<>> -> Advance(g, "idle")
       [] OTHER        -> Hold(g, Last(queue))
  /\ UNCHANGED <<handler, dlq, stored, service>>

\* The fallback after a failed LMOVE: LPOP from the left end ...
PopLeft(g, out) ==
  /\ pc[g] = "fallback"
  /\ Charge(out)
  /\ queue' = IF queue = <<>> \/ out = "void" THEN queue ELSE Tail(queue)
  /\ IF queue = <<>> \/ out # "ok"
     THEN Advance(g, "idle")
     ELSE /\ pc' = [pc EXCEPT ![g] = "stow"]
          /\ item' = [item EXCEPT ![g] = Head(queue)]
          /\ plan' = plan
  /\ UNCHANGED <<handler, processing, dlq, stored, service>>

\* ... and RPUSH onto the processing list.
Stow(g, out) ==
  /\ pc[g] = "stow"
  /\ Charge(out)
  /\ processing' = IF out = "void" THEN processing ELSE processing \union {item[g]}
  /\ IF out = "ok" THEN Hold(g, item[g]) ELSE Advance(g, "idle")
  /\ UNCHANGED <<handler, queue, dlq, stored, service>>

\* The POST to the audit service.
Post(g, answer) ==
  /\ pc[g] = "post"
  /\ Posted(item[g], answer)
  /\ posts' = [posts EXCEPT ![item[g]] = @ + 1]
  /\ pc' = [pc EXCEPT ![g] = "remove"]
  /\ plan' = [plan EXCEPT ![g] = IF answer = "ok" THEN "done" ELSE "retry"]
  /\ UNCHANGED <<handler, lists, stored, item, faults>>

\* The LREM after a successful POST is inside the try: its failure is caught
\* as a failed POST and the event is queued again.  Any other ends the round.
AfterFailedUnpark(g) ==
  IF plan[g] = "done"
  THEN plan' = [plan EXCEPT ![g] = "retry"] /\ UNCHANGED <<pc, item>>
  ELSE Advance(g, "idle")

\* Mutant of AfterUnpark: a delivered event is queued again.
AlwaysPushes(g) == pc' = [pc EXCEPT ![g] = "push"] /\ UNCHANGED <<item, plan>>

AfterUnpark(g) ==
  IF plan[g] = "done" THEN Advance(g, "take")
  ELSE pc' = [pc EXCEPT ![g] = "push"] /\ UNCHANGED <<item, plan>>

\* LREM from the processing list.
Unpark(g, out) ==
  /\ pc[g] = "remove"
  /\ Charge(out)
  /\ processing' = IF out = "void" THEN processing ELSE processing \ {item[g]}
  /\ IF out = "ok" THEN AfterUnpark(g) ELSE AfterFailedUnpark(g)
  /\ UNCHANGED <<handler, queue, dlq, stored, service>>

\* Mutant of Stored: an event that is not due yet is not pushed back.
StoredUnlessEarly(e, p, out) ==
  /\ queue' = IF p = "retry" /\ out # "void" THEN Append(queue, e) ELSE queue
  /\ dlq' = IF p = "discard" /\ out # "void" THEN dlq \union {e} ELSE dlq

\* The list the event goes to, unless the RPUSH never arrived.
Stored(e, p, out) ==
  /\ queue' = IF p # "discard" /\ out # "void" THEN Append(queue, e) ELSE queue
  /\ dlq' = IF p = "discard" /\ out # "void" THEN dlq \union {e} ELSE dlq

\* RPUSH: back to the queue as it was, back with one attempt more and a
\* backoff, or to the dead letters.  Only the last may fail unnoticed.
Push(g, out) ==
  LET e == item[g] retry == plan[g] = "retry"
  IN /\ pc[g] = "push"
     /\ Charge(out)
     /\ Stored(e, plan[g], out)
     /\ attempts' = IF retry THEN [attempts EXCEPT ![e] = @ + 1] ELSE attempts
     /\ due' = IF retry THEN [due EXCEPT ![e] = FALSE] ELSE due
     /\ Advance(g, IF plan[g] = "discard" \/ (retry /\ out = "ok") THEN "take" ELSE "idle")
     /\ UNCHANGED <<handler, processing, service>>

\* Events whose first POST, or whose way into the queue, g is busy with.
InFlight(g) == {e \in Events : HomeOf[e] = g /\ stage[e] \in {"failed", "measured"}}

\* The instance dies, with its drain and its request handlers, and is started
\* again.  A POST it waits for has been recorded or counts as refused.
Crash(g) ==
  /\ faults < MaxFaults /\ faults' = faults + 1
  /\ Advance(g, "idle")
  /\ CutOff(InFlight(g))
  /\ UNCHANGED <<dropped, lists, stored, service>>

\* Redis is started again: it keeps nothing on disk, and the lists are empty.
Restart ==
  /\ faults < MaxFaults /\ faults' = faults + 1
  /\ queue' = <<>> /\ processing' = {} /\ dlq' = {}
  /\ CutOff(Range(queue) \union dlq)
  /\ UNCHANGED <<dropped, stored, drain, service>>

Request(e) ==
  \/ \E answer \in {"ok", "refused", "late"} : Finish(e, answer)
  \/ \E out \in Outcomes : Measure(e, out) \/ Store(e, out)
  \/ FindClosed(e)

Call(g, out) ==
  \/ Take(g, out) \/ PopLeft(g, out) \/ Stow(g, out) \/ Unpark(g, out) \/ Push(g, out)

Answers(g) == \E answer \in {"ok", "refused", "late"} : Post(g, answer)

Next ==
  \/ \E e \in Events : Request(e) \/ ComesDue(e)
  \/ \E g \in Gateways : Start(g) \/ Answers(g) \/ Crash(g) \/ \E out \in Outcomes : Call(g, out)
  \/ Restart

Spec == Init /\ [][Next]_vars

\* Timers fire again and again, a started call returns, and time passes.
\* Failures are never owed; neither is a request.
FairSpec ==
  /\ Spec
  /\ \A g \in Gateways : WF_vars(Start(g) \/ Answers(g) \/ Call(g, "ok"))
  /\ \A e \in Events : WF_vars(Measure(e, "ok") \/ Store(e, "ok")) /\ WF_vars(ComesDue(e))

-----------------------------------------------------------------------------
TypeOK ==
  /\ stage \in [Events -> {"new", "failed", "measured", "out"}]
  /\ dropped \subseteq Events /\ cut \subseteq Events /\ processing \subseteq Events /\ dlq \subseteq Events
  /\ queue \in Seq(Events)
  /\ attempts \in [Events -> 0..MaxAttempts] /\ due \in [Events -> BOOLEAN]
  /\ pc \in [Gateways -> {"idle", "take", "fallback", "stow", "post", "remove", "push"}]
  /\ item \in [Gateways -> Events \union {NoEvent}]
  /\ plan \in [Gateways -> {"none", "putback", "discard", "done", "retry"}]
  /\ recorded \in [Events -> Nat] /\ posts \in [Events -> Nat] /\ timeouts \in [Events -> Nat]
  /\ faults \in 0..MaxFaults

Held == {item[g] : g \in Gateways} \ {NoEvent}

\* Events whose request handler is through and that are nowhere.
Missing ==
  {e \in Events : /\ stage[e] = "out" /\ recorded[e] = 0
                  /\ e \notin Range(queue) \union Held \union dlq \union dropped \union cut}

\* A failed Redis call or a crash costs one event at most, besides those whose
\* request handlers a crash cuts off: an instance that dies strands only the
\* one its drain has in hand, and without a fault no event is lost but by a full
\* queue or a closed client (enqueueAuditRetry, drainAuditRetryQueue).
OneFaultOneEvent == Cardinality(Missing) <= faults

\* The processing list holds what the gateways have in hand, and at most one
\* leftover per fault: nothing ever moves an entry back out of it.
OneFaultOneLeftover == Cardinality(processing \ Held) <= faults

\* Every entry of an event after its first is charged to a POST that was
\* recorded and timed out, or to a fault, as when the LREM after the POST fails:
\* two instances draining one queue never both deliver an event
\* (drainAuditRetryQueue).
DuplicatesExplained == \A e \in Events : recorded[e] <= 1 + timeouts[e] + faults

\* The retry limit is exact whichever instances made the attempts: an event
\* is dead-lettered after MAX_AUDIT_RETRY_ATTEMPTS POSTs, no more, no fewer.
RetryLimitExact ==
  \A e \in Events : posts[e] <= MaxAttempts /\ (e \in dlq => posts[e] = MaxAttempts)

\* The queue, the instances and the request handlers together keep the
\* gateway's promise: an event is in their care until it is recorded, has had
\* all its tries, met a full queue or a closed client, was lost to a fault of
\* its own or went with its request handler or with Redis, and no instance takes
\* it up again afterwards (enqueueAuditRetry, drainAuditRetryQueue).
Contract == INSTANCE RetryContract WITH
  Limit   <- MaxAttempts + 1,
  open    <- {e \in Events : stage[e] # "out"} \union Range(queue) \union Held,
  entries <- recorded,
  tries   <- [e \in Events |-> posts[e] + IF stage[e] = "new" THEN 0 ELSE 1],
  dead    <- dlq,
  refused <- dropped

ImplementsContract == Contract!Spec

\* Every event that reached the queue leaves it for good: it is recorded or
\* dead-lettered, or a fault took it.  Events are finitely many here, so no
\* newer ones arrive for ever: the newest is taken first, and what is not due
\* yet ends a round, but both only delay the older ones (drainAuditRetryQueue).
EventsSettle ==
  \A e \in Events :
     e \in Range(queue) ~> recorded[e] > 0 \/ e \in dlq \union Missing \union cut

=============================================================================
