---------------------------- MODULE AuditContract ----------------------------
(***************************************************************************)
(* What the audit log of one tenant promises: an entry is written once,    *)
(* behind all others, and counted; entries may be forgotten; a             *)
(* verification is told "intact" only if nothing had been forgotten when   *)
(* it was asked for, and "broken" only if something had, or the log        *)
(* changed meanwhile.  Locks, statements, sequence numbers, hashes and     *)
(* pages are left out.  AuditChain implements this module.                 *)
(***************************************************************************)
EXTENDS Naturals

CONSTANTS Entries, Verifiers

VARIABLES log,        \* the entries there are
          order,      \* pairs of them, the older one first
          count,      \* entries ever written, as the log reports it
          forgotten,  \* entries that were there and are no more
          answer,     \* answer[v]: what v was told
          missing,    \* missing[v]: what was forgotten when v was asked for
          changed     \* changed[v]: the log changed since

vars == <<log, order, count, forgotten, answer, missing, changed>>

Init ==
  /\ log = {} /\ order = {} /\ count = 0 /\ forgotten = {}
  /\ answer = [v \in Verifiers |-> "none"]
  /\ missing = [v \in Verifiers |-> {}] /\ changed = [v \in Verifiers |-> FALSE]

Write(e) ==
  /\ e \notin log \union forgotten
  /\ log' = log \union {e}
  /\ order' = order \union (log \X {e})
  /\ count' = count + 1
  /\ changed' = [v \in Verifiers |-> TRUE]
  /\ UNCHANGED <<forgotten, answer, missing>>

Forget(E) ==
  /\ E # {}
  /\ log' = log \ E
  /\ order' = order \intersect (log' \X log')
  /\ forgotten' = forgotten \union E
  /\ changed' = [v \in Verifiers |-> TRUE]
  /\ UNCHANGED <<count, answer, missing>>

Ask(v) ==
  /\ answer[v] = "none"
  /\ answer' = [answer EXCEPT ![v] = "open"]
  /\ missing' = [missing EXCEPT ![v] = forgotten]
  /\ changed' = [changed EXCEPT ![v] = FALSE]
  /\ UNCHANGED <<log, order, count, forgotten>>

Reply(v, a) ==
  /\ answer[v] = "open"
  /\ a = "intact" => missing[v] = {}
  /\ a = "broken" => missing[v] # {} \/ changed[v]
  /\ answer' = [answer EXCEPT ![v] = a]
  /\ UNCHANGED <<log, order, count, forgotten, missing, changed>>

Next ==
  \/ \E e \in Entries : Write(e)
  \/ \E E \in SUBSET log : Forget(E)
  \/ \E v \in Verifiers : Ask(v) \/ \E a \in {"intact", "broken", "failed"} : Reply(v, a)

Spec == Init /\ [][Next]_vars

=============================================================================
