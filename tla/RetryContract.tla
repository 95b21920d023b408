---------------------------- MODULE RetryContract ----------------------------
(***************************************************************************)
(* What the gateway promises for its audit events: each is tried up to     *)
(* Limit times and stays in the gateway's care until it is recorded, its   *)
(* tries are used up, its first try failed and the queue was full or out   *)
(* of reach, or a fault took it.  A failed call takes one event at most;   *)
(* an instance that stops also those tried only once, with the requests it *)
(* was serving; a restart of Redis any that waited there.  What has left   *)
(* the gateway's care is never tried again.  Lists, instances, backoff and *)
(* Redis calls are left out.  AuditRetryQueue implements this module.      *)
(***************************************************************************)
EXTENDS Naturals

CONSTANTS Events, Limit

VARIABLES open,     \* events in the gateway's care
          entries,  \* entries[e]: what the audit service wrote for e
          tries,    \* tries[e]: POSTs of e
          dead,     \* the dead letters
          refused,  \* events the full queue did not take
          cut,      \* events that went with a request handler or with Redis
          faults    \* faults so far

vars == <<open, entries, tries, dead, refused, cut, faults>>

Init ==
  /\ open = Events /\ dead = {} /\ refused = {} /\ cut = {} /\ faults = 0
  /\ entries = [e \in Events |-> 0] /\ tries = [e \in Events |-> 0]

\* A POST writes n entries; its sender may not learn of an entry.
Try(e, n) ==
  /\ e \in open /\ tries[e] < Limit
  /\ tries' = [tries EXCEPT ![e] = @ + 1]
  /\ entries' = [entries EXCEPT ![e] = @ + n]
  /\ open' = open \/ (n = 1 /\ open' = open \ {e})
  /\ UNCHANGED <<dead, refused, cut, faults>>

Settle(e) ==
  /\ e \in open /\ entries[e] > 0
  /\ open' = open \ {e}
  /\ UNCHANGED <<entries, tries, dead, refused, cut, faults>>

Bury(e) ==
  /\ e \in open /\ tries[e] = Limit
  /\ open' = open \ {e} /\ dead' = dead \union {e}
  /\ UNCHANGED <<entries, tries, refused, cut, faults>>

Refuse(e) ==
  /\ e \in open /\ tries[e] = 1
  /\ open' = open \ {e} /\ refused' = refused \union {e}
  /\ UNCHANGED <<entries, tries, dead, cut, faults>>

\* The queue is out of reach.
Skip(e) ==
  /\ e \in open /\ tries[e] = 1
  /\ open' = open \ {e} /\ cut' = cut \union {e}
  /\ UNCHANGED <<entries, tries, dead, refused, faults>>

\* The lost event may be found in the dead letters, if that is where it was
\* on the way to.
Fault(lost) ==
  /\ faults' = faults + 1
  /\ open' = open \ lost
  /\ dead' = dead \/ dead' = dead \union {e \in lost \intersect open : tries[e] = Limit}
  /\ UNCHANGED <<entries, tries, refused, cut>>

\* An instance stops, with an event it was retrying and with its requests.
Stop(lost, gone) ==
  /\ gone \subseteq {e \in open : tries[e] = 1}
  /\ faults' = faults + 1
  /\ open' = open \ (lost \union gone) /\ cut' = cut \union gone
  /\ UNCHANGED <<entries, tries, dead, refused>>

\* Redis forgets what waits there, and the dead letters.
Forget(gone) ==
  /\ gone \subseteq open
  /\ faults' = faults + 1
  /\ open' = open \ gone /\ dead' = {}
  /\ cut' = cut \union gone \union dead
  /\ UNCHANGED <<entries, tries, refused>>

Next ==
  \/ \E e \in Events : Settle(e) \/ Bury(e) \/ Refuse(e) \/ Skip(e) \/ \E n \in {0, 1} : Try(e, n)
  \/ \E lost \in {{}} \union {{e} : e \in Events} :
        Fault(lost) \/ \E gone \in SUBSET Events : Stop(lost, gone)
  \/ \E gone \in SUBSET Events : Forget(gone)

Spec == Init /\ [][Next]_vars

=============================================================================
