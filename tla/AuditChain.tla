------------------------------ MODULE AuditChain ------------------------------
(***************************************************************************)
(* The hash chain of one tenant's audit log in audit-compliance-service:   *)
(* POST /audit/log appends under an advisory lock of PostgreSQL, POST      *)
(* /gdpr/forget deletes the entries of an employee without it, GET         *)
(* /audit/verify-chain walks the chain page by page.  Requests run in      *)
(* threads of several service instances; a step is one SQL statement       *)
(* (READ COMMITTED) or a commit.                                           *)
(*                                                                         *)
(* SHA-256 is collision-free: the hash of an entry is the sequence of all  *)
(* entries it commits to, itself last.                                     *)
(***************************************************************************)
EXTENDS Integers, Sequences, FiniteSets

CONSTANTS Entries,    \* append requests; each writes the entry of its name
          Erasers,    \* POST /gdpr/forget
          Subject,    \* Subject[e]: entries whose actor is the employee e forgets
          Verifiers,  \* GET /audit/verify-chain
          PageSize,   \* _VERIFY_BATCH_SIZE
          Attempts    \* CHAIN_RETRY_ATTEMPTS

Requests == Entries \union Erasers \union Verifiers

ASSUME ChainAssumption ==
  /\ IsFiniteSet(Entries)
  /\ Entries \intersect (Erasers \union Verifiers) = {}
  /\ Erasers \intersect Verifiers = {}
  /\ Subject \in [Erasers -> SUBSET Entries]
  /\ PageSize \in Nat \ {0} /\ Attempts \in Nat \ {0}

VARIABLES
  pc,      \* where each request is
  prev,    \* prev[w]: hash of the head entry w read
  next,    \* next[w]: sequence number w computed
  seen,    \* seen[w]: the anchor w read
  tries,   \* appends w has tried
  rows,    \* committed rows of audit_logs
  anchor,  \* the row of audit_chain_anchors
  found,   \* found[e]: entries e is about to delete
  walk,    \* walk[v]: how far v has come
  erased,  \* entries deleted so far
  missed,  \* missed[v]: entries that were deleted before v began
  moved    \* moved[v]: the chain changed since v began

writerVars == <<prev, next, seen, tries>>
chain == <<rows, anchor, erased>>
verifierVars == <<walk, missed, moved>>
vars == <<pc, writerVars, chain, found, verifierVars>>

Genesis == <<>>
NoAnchor == [head |-> Genesis, last |-> 0, count |-> 0]
Hash(p, w) == Append(p, w)

Goto(r, l) == pc' = [pc EXCEPT ![r] = l]

Ids == {a.id : a \in rows}
Written == Ids \union erased

\* The entry with the highest sequence number (ORDER BY sequence DESC).
Heads(R) == {a \in R : \A b \in R : b.seq <= a.seq}

\* No verifier notices a change of the chain; moved remembers it.
Disturb == moved' = [v \in Verifiers |-> moved[v] \/ rows' # rows]

Init ==
  /\ pc = [r \in Requests |-> "idle"]
  /\ prev = [w \in Entries |-> Genesis] /\ next = [w \in Entries |-> 0]
  /\ seen = [w \in Entries |-> NoAnchor] /\ tries = [w \in Entries |-> 0]
  /\ rows = {} /\ anchor = NoAnchor /\ erased = {}
  /\ found = [e \in Erasers |-> {}]
  /\ walk = [v \in Verifiers |-> [prev |-> Genesis, last |-> 0, total |-> 0, ok |-> TRUE]]
  /\ missed = [v \in Verifiers |-> {}] /\ moved = [v \in Verifiers |-> FALSE]

(***************************************************************************)
(* create_audit_log.                                                       *)
(***************************************************************************)
Appending == {"sequence", "anchor", "append"}

\* Mutant of LockFree: writers of different instances are not serialized.
NoTenantLock == TRUE

\* The advisory lock of the tenant, held until the transaction ends.
LockFree == \A w \in Entries : pc[w] \notin Appending

\* _tenant_write_lock, then _get_latest_entry_for_tenant.
ReadHead(w) ==
  /\ w \in Entries
  /\ pc[w] = "idle"
  /\ LockFree
  /\ \/ rows = {} /\ prev' = [prev EXCEPT ![w] = Genesis]
     \/ \E a \in Heads(rows) : prev' = [prev EXCEPT ![w] = a.hash]
  /\ Goto(w, "sequence")
  /\ UNCHANGED <<next, seen, tries, chain, found, verifierVars>>

\* _next_sequence_for_tenant: a statement of its own.
ReadSequence(w) ==
  /\ pc[w] = "sequence"
  /\ \/ rows = {} /\ next' = [next EXCEPT ![w] = 1]
     \/ \E a \in Heads(rows) : next' = [next EXCEPT ![w] = a.seq + 1]
  /\ Goto(w, "anchor")
  /\ UNCHANGED <<prev, seen, tries, chain, found, verifierVars>>

\* The query of _upsert_chain_anchor.
ReadAnchor(w) ==
  /\ pc[w] = "anchor"
  /\ seen' = [seen EXCEPT ![w] = anchor]
  /\ Goto(w, "append")
  /\ UNCHANGED <<prev, next, tries, chain, found, verifierVars>>

\* Mutant of Counted: the head is moved, the entry is not counted.
NotCounted(a) == a.count

Counted(a) == a.count + 1

Entry(w) == [id |-> w, prev |-> prev[w], hash |-> Hash(prev[w], w), seq |-> next[w]]

\* The flush and the commit: entry and anchor become visible together.
Commit(w) ==
  /\ rows' = rows \union {Entry(w)}
  /\ anchor' = [head |-> Entry(w).hash, last |-> next[w], count |-> Counted(seen[w])]
  /\ Goto(w, "done")
  /\ Disturb
  /\ UNCHANGED <<writerVars, erased, found, walk, missed>>

\* The unique index on (tenant_id, sequence) refuses the row: IntegrityError,
\* rollback, and again.
Retry(w) ==
  /\ tries' = [tries EXCEPT ![w] = @ + 1]
  /\ Goto(w, IF tries[w] + 1 < Attempts THEN "idle" ELSE "failed")
  /\ UNCHANGED <<prev, next, seen, chain, found, verifierVars>>

AppendEntry(w) ==
  /\ pc[w] = "append"
  /\ IF \E a \in rows : a.seq = next[w] THEN Retry(w) ELSE Commit(w)

\* The request dies or a statement throws: rollback, the lock is released.
Fail(r) ==
  /\ pc[r] \in Appending \union {"erase", "walk", "compare"}
  /\ Goto(r, "failed")
  /\ UNCHANGED <<writerVars, chain, found, verifierVars>>

(***************************************************************************)
(* right_to_be_forgotten: no lock, and the anchor stays as it is.          *)
(***************************************************************************)
FindEntries(e) ==
  /\ e \in Erasers
  /\ pc[e] = "idle"
  /\ found' = [found EXCEPT ![e] = {a \in rows : a.id \in Subject[e]}]
  /\ Goto(e, "erase")
  /\ UNCHANGED <<writerVars, chain, verifierVars>>

Erase(e) ==
  /\ pc[e] = "erase"
  /\ rows' = rows \ found[e]
  /\ erased' = erased \union {a.id : a \in found[e] \intersect rows}
  /\ Goto(e, "done")
  /\ Disturb
  /\ UNCHANGED <<writerVars, anchor, found, walk, missed>>

(***************************************************************************)
(* verify_audit_chain.                                                     *)
(***************************************************************************)
StartWalk(v) ==
  /\ v \in Verifiers
  /\ pc[v] = "idle"
  /\ missed' = [missed EXCEPT ![v] = erased]
  /\ moved' = [moved EXCEPT ![v] = FALSE]
  /\ Goto(v, "walk")
  /\ UNCHANGED <<writerVars, chain, found, walk>>

\* S and P are what OFFSET n LIMIT PageSize skips and returns.
Skips(n, S) ==
  /\ \A a \in S, b \in rows \ S : a.seq < b.seq
  /\ Cardinality(S) = n \/ (S = rows /\ Cardinality(rows) < n)

Returns(S, P) ==
  /\ \A a \in P, b \in (rows \ S) \ P : a.seq < b.seq
  /\ Cardinality(P) = PageSize \/ (P = rows \ S /\ Cardinality(P) < PageSize)

\* Mutant of Before: each page is walked as a chain of its own.
StartsOver(a, P, h) ==
  LET B == {b \in P : b.seq < a.seq} IN
  IF B = {} THEN Genesis ELSE (CHOOSE b \in Heads(B) : TRUE).hash

\* The hash that precedes entry a of page P.
Before(a, P, h) ==
  LET B == {b \in P : b.seq < a.seq} IN
  IF B = {} THEN h ELSE (CHOOSE b \in Heads(B) : TRUE).hash

Linked(a, h) == a.prev = h /\ a.hash = Hash(h, a.id)

\* Hash and sequence number the walk has reached after page P.
Reached(P, k) ==
  IF P = {} THEN {<<k.prev, k.last>>} ELSE {<<a.hash, a.seq>> : a \in Heads(P)}

ReadPage(v) ==
  /\ pc[v] = "walk"
  /\ \E S \in SUBSET rows : \E P \in SUBSET (rows \ S) :
       /\ Skips(walk[v].total, S)
       /\ Returns(S, P)
       /\ \E z \in Reached(P, walk[v]) :
            walk' = [walk EXCEPT ![v] =
              [prev  |-> z[1],
               last  |-> z[2],
               total |-> @.total + Cardinality(P),
               ok    |-> @.ok /\ \A a \in P : Linked(a, Before(a, P, @.prev))]]
       /\ Goto(v, IF Cardinality(P) < PageSize THEN "compare" ELSE "walk")
  /\ UNCHANGED <<writerVars, chain, found, missed, moved>>

\* Mutant of Confirms: the anchor's count is not looked at.
HeadOnly(x, k) == x.head = k.prev

\* A tenant without an anchor row has nothing to compare with.
Confirms(x, k) ==
  x = NoAnchor \/ (x.count = k.total /\ x.head = k.prev /\ x.last = k.last)

Compare(v) ==
  /\ pc[v] = "compare"
  /\ Goto(v, IF walk[v].ok /\ Confirms(anchor, walk[v]) THEN "intact" ELSE "broken")
  /\ UNCHANGED <<writerVars, chain, found, verifierVars>>

Next ==
  \E r \in Requests :
    \/ ReadHead(r) \/ ReadSequence(r) \/ ReadAnchor(r) \/ AppendEntry(r)
    \/ FindEntries(r) \/ Erase(r)
    \/ StartWalk(r) \/ ReadPage(r) \/ Compare(r)
    \/ Fail(r)

Spec == Init /\ [][Next]_vars

-----------------------------------------------------------------------------
EntryRecords == [id : Entries, prev : Seq(Entries), hash : Seq(Entries), seq : Nat]
Anchors == [head : Seq(Entries), last : Nat, count : Nat]

TypeOK ==
  /\ pc \in [Requests -> Appending \union {"idle", "done", "failed", "erase", "walk",
                                           "compare", "intact", "broken"}]
  /\ \A w, u \in Entries : pc[w] \in Appending /\ pc[u] \in Appending => w = u
  /\ prev \in [Entries -> Seq(Entries)] /\ next \in [Entries -> Nat]
  /\ seen \in [Entries -> Anchors]
  /\ tries \in [Entries -> Nat]
  /\ rows \subseteq EntryRecords /\ IsFiniteSet(rows)
  /\ anchor \in Anchors
  /\ erased \subseteq Entries
  /\ found \in [Erasers -> SUBSET EntryRecords]
  /\ walk \in [Verifiers -> [prev : Seq(Entries), last : Nat, total : Nat, ok : BOOLEAN]]
  /\ missed \in [Verifiers -> SUBSET Entries] /\ moved \in [Verifiers -> BOOLEAN]

\* The chain never branches, and no two entries share a sequence number, even
\* when the head is deleted under a writer that has read it
\* (test_concurrent_writers_produce_one_unbranched_chain).
NoFork ==
  \A a, b \in rows : a.prev = b.prev \/ a.seq = b.seq => a = b

\* No append is ever refused by the unique index: while every writer takes the
\* lock the retry loop of create_audit_log is not needed, although deletions
\* give sequence numbers back.
LockSuffices == \A w \in Entries : tries[w] = 0

\* The anchor counts every entry ever written, the deleted ones too: that is
\* what gives a deletion away after the tail has grown again
\* (_upsert_chain_anchor).
AnchorCountsAll == anchor.count = Cardinality(Written)

\* As long as nothing was deleted the chain is numbered without a gap, each
\* entry commits to all before it, and the anchor is its head
\* (_create_audit_log_once).
ChainUnbroken ==
  erased = {} =>
    /\ \A a \in rows : a.seq = Len(a.hash) /\ (a.seq > 1 => \E b \in rows : b.hash = a.prev)
    /\ rows # {} => \E a \in Heads(rows) : anchor.head = a.hash /\ anchor.last = a.seq

\* A chain is never reported intact after an entry of it was deleted,
\* although sequence numbers of deleted entries are given out again and the
\* walk reads page by page (verify_audit_chain).
DeletionDetected == \A v \in Verifiers : pc[v] = "intact" => missed[v] = {}

\* A chain nobody touched while it was verified is reported broken only if an
\* entry was deleted.
AlarmIsReal == \A v \in Verifiers : pc[v] = "broken" => missed[v] # {} \/ moved[v]

\* Entries as pairs, the one with the lower sequence number first.
Order == {<<p[1].id, p[2].id>> : p \in {q \in rows \X rows : q[1].seq < q[2].seq}}

\* What a verifier has been told.
Told(v) ==
  CASE pc[v] = "idle"               -> "none"
    [] pc[v] \in {"walk", "compare"} -> "open"
    [] OTHER                        -> pc[v]

Contract == INSTANCE AuditContract
              WITH log <- Ids, order <- Order, count <- anchor.count, forgotten <- erased,
                   answer <- [v \in Verifiers |-> Told(v)], missing <- missed, changed <- moved

\* The tables, the lock and the walk implement the contract of audit logs:
\* an append is one step behind all entries there are, although head, number
\* and anchor are read one by one while entries are deleted.
ImplementsContract == Contract!Spec

=============================================================================
