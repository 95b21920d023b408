--------------------------- MODULE AuditChainProofs ---------------------------
(***************************************************************************)
(* Theorems about the audit hash chain, for any number of requests, any    *)
(* page size and any deletions.                                            *)
(***************************************************************************)
EXTENDS AuditChain, FiniteSetTheorems, TLAPS

\* The newest entry a hash commits to.
Newest(h) == h[Len(h)]

\* Entries point back at older ones, and a hash names only what was written.
Shape ==
  /\ \A a, b \in rows : a.id = b.id => a = b
  /\ \A a \in rows : a.hash = Append(a.prev, a.id)
  /\ \A a, b \in rows : a.prev = b.hash => b.seq < a.seq
  /\ \A a \in rows : a.prev # Genesis => Newest(a.prev) \in Written
  /\ Ids \intersect erased = {}
  /\ \A w \in Entries : w \in Written => pc[w] = "done"
  /\ NoFork

\* What the writer that holds the lock has read is still true.
Writing ==
  \A w \in Entries : pc[w] \in Appending =>
     /\ \A a \in rows : a.prev # prev[w]
     /\ prev[w] # Genesis => Newest(prev[w]) \in Written
     /\ pc[w] # "sequence" => \A a \in rows : a.seq < next[w]
     /\ pc[w] = "append" => seen[w] = anchor

\* A head entry as writer w has read it.
ReadBy(a, w) ==
  /\ prev[w] = a.hash
  /\ pc[w] # "sequence" => next[w] = a.seq + 1

Unbroken ==
  /\ ChainUnbroken
  /\ erased = {} => \A w \in Entries : pc[w] \in Appending =>
        \/ rows = {} /\ prev[w] = Genesis /\ (pc[w] # "sequence" => next[w] = 1)
        \/ \E a \in Heads(rows) : ReadBy(a, w)

\* A walk has counted no more entries than were left when it began.
Walking ==
  \A v \in Verifiers :
     /\ pc[v] = "idle" => walk[v].total = 0
     /\ pc[v] # "idle" => missed[v] \subseteq erased
     /\ pc[v] \in {"walk", "compare"} => walk[v].total <= Cardinality(Written \ missed[v])
     /\ pc[v] = "intact" => missed[v] = {}

\* Requests do only what they were sent for.
Roles ==
  /\ \A r \in Requests : pc[r] \in Appending => r \in Entries
  /\ \A r \in Requests : pc[r] \in {"walk", "compare", "intact", "broken"} => r \in Verifiers
  /\ \A r \in Requests : pc[r] = "erase" => r \in Erasers

\* The inductive invariant.
IInv ==
  TypeOK /\ Roles /\ Shape /\ Writing /\ LockSuffices /\ AnchorCountsAll /\ Unbroken /\ Walking

LEMMA WrittenFinite ==
  ASSUME TypeOK
  PROVE  /\ Ids \subseteq Entries /\ Written \subseteq Entries
         /\ IsFiniteSet(Written) /\ Cardinality(Written) \in Nat
  <1>1. Written \subseteq Entries /\ Ids \subseteq Entries
    BY DEF TypeOK, EntryRecords, Written, Ids
  <1>2. QED
    BY <1>1, ChainAssumption, FS_Subset, FS_CardinalityType

LEMMA AppendFacts ==
  ASSUME NEW p \in Seq(Entries), NEW w \in Entries
  PROVE  /\ Append(p, w) \in Seq(Entries) /\ Append(p, w) # Genesis
         /\ Newest(Append(p, w)) = w /\ Len(Append(p, w)) = Len(p) + 1
         /\ \A q \in Seq(Entries), u \in Entries : Append(p, w) = Append(q, u) => p = q /\ w = u
  <1>1. /\ Append(p, w) \in Seq(Entries) /\ Append(p, w) # Genesis
        /\ Newest(Append(p, w)) = w /\ Len(Append(p, w)) = Len(p) + 1
    BY DEF Genesis, Newest
  <1>2. ASSUME NEW q \in Seq(Entries), NEW u \in Entries, Append(p, w) = Append(q, u)
        PROVE  p = q /\ w = u
    <2>1. Len(p) = Len(q)
      BY <1>2
    <2>2. \A i \in 1..Len(p) : p[i] = Append(p, w)[i] /\ q[i] = Append(q, u)[i]
      BY <2>1
    <2>3. p = q
      BY <1>2, <2>1, <2>2
    <2>4. w = Append(p, w)[Len(p) + 1] /\ u = Append(q, u)[Len(q) + 1]
      OBVIOUS
    <2>5. QED
      BY <1>2, <2>1, <2>3, <2>4
  <1>3. QED
    BY <1>1, <1>2

LEMMA InitIInv == Init => IInv
  <1> SUFFICES ASSUME Init PROVE IInv
    OBVIOUS
  <1> USE ChainAssumption DEF Init
  <1>1. TypeOK
    BY FS_EmptySet DEF TypeOK, Anchors, NoAnchor, Genesis, EntryRecords, Appending, Requests
  <1>2. Written = {}
    BY DEF Written, Ids
  <1>3. AnchorCountsAll
    BY <1>2, FS_EmptySet DEF AnchorCountsAll, NoAnchor
  <1>4. QED
    BY <1>1, <1>2, <1>3 DEF IInv, Roles, Shape, Writing, LockSuffices, Unbroken, ChainUnbroken,
       Walking, NoFork, Appending, Requests, Ids

\* Steps that leave the chain and the writers' notes alone.
LEMMA QuietIInv ==
  ASSUME IInv, TypeOK', Roles', Walking', UNCHANGED <<writerVars, chain>>,
         \A w \in Entries : pc'[w] = pc[w] \/ (pc'[w] = "failed" /\ pc[w] \in Appending)
  PROVE  IInv'
  <1> USE DEF IInv, writerVars, chain
  <1>1. Ids' = Ids /\ Written' = Written /\ Heads(rows)' = Heads(rows)
    BY DEF Ids, Written, Heads
  <1>2. Shape'
    BY <1>1 DEF Shape, NoFork, Appending
  <1>3. Writing'
    BY <1>1 DEF Writing, Appending
  <1>4. Unbroken'
    BY <1>1 DEF Unbroken, ChainUnbroken, Appending, ReadBy, Heads
  <1>5. LockSuffices' /\ AnchorCountsAll'
    BY <1>1 DEF LockSuffices, AnchorCountsAll
  <1>6. QED
    BY <1>2, <1>3, <1>4, <1>5

\* Steps the verifiers do not notice.
LEMMA WalkingStays ==
  ASSUME Walking, UNCHANGED <<chain, verifierVars>>,
         \A v \in Verifiers : pc'[v] = pc[v] \/ (pc'[v] = "failed" /\ pc[v] # "idle")
  PROVE  Walking'
  <1>1. Written' = Written
    BY DEF Written, Ids, chain
  <1>2. UNCHANGED <<walk, missed, erased>>
    BY DEF chain, verifierVars
  <1>3. ASSUME NEW v \in Verifiers
        PROVE  /\ pc'[v] = "idle" => walk[v].total = 0
               /\ pc'[v] # "idle" => missed[v] \subseteq erased
               /\ pc'[v] \in {"walk", "compare"} => walk[v].total <= Cardinality(Written \ missed[v])
               /\ pc'[v] = "intact" => missed[v] = {}
    BY DEF Walking
  <1>4. QED
    BY <1>1, <1>2, <1>3 DEF Walking

LEMMA CommitIInv ==
  ASSUME IInv, NEW w \in Requests, AppendEntry(w)
  PROVE  IInv'
  <1> USE ChainAssumption DEF AppendEntry
  <1>1. w \in Entries /\ \A a \in rows : a.seq < next[w]
    BY DEF IInv, Roles, Writing, Appending
  <1>2. Commit(w)
    BY <1>1 DEF IInv, TypeOK, EntryRecords
  <1> DEFINE e == Entry(w)
  <1>3. /\ e \in EntryRecords /\ e.id = w /\ e.prev = prev[w] /\ e.seq = next[w]
        /\ e.hash = Append(prev[w], w) /\ prev[w] \in Seq(Entries) /\ next[w] \in Nat
        /\ e.hash # Genesis /\ Newest(e.hash) = w /\ Len(e.hash) = Len(prev[w]) + 1
    BY <1>1, AppendFacts DEF Entry, EntryRecords, Hash, IInv, TypeOK
  <1>4. /\ rows' = rows \union {e} /\ pc' = [pc EXCEPT ![w] = "done"]
        /\ anchor' = [head |-> e.hash, last |-> next[w], count |-> seen[w].count + 1]
        /\ UNCHANGED <<prev, next, seen, tries, erased, found, walk, missed>>
    BY <1>2 DEF Commit, Goto, writerVars, Counted
  <1>5. w \notin Written /\ pc[w] = "append" /\ seen[w] = anchor
    BY <1>1 DEF IInv, Shape, Writing, Appending
  <1>6. Written' = Written \union {w} /\ Ids' = Ids \union {w}
    BY <1>3, <1>4 DEF Written, Ids
  <1>7. \A u \in Entries : u # w => pc[u] \notin Appending
    BY <1>1, <1>5 DEF IInv, TypeOK, Appending
  <1>8. TypeOK'
    <2>1. IsFiniteSet(rows') /\ rows' \subseteq EntryRecords
      BY ZenonT(60), <1>3, <1>4, FS_AddElement DEF IInv, TypeOK
    <2>2. anchor' \in Anchors
      <3>1. seen[w].count \in Nat /\ e.hash \in Seq(Entries)
        BY <1>1, <1>3 DEF IInv, TypeOK, Anchors, EntryRecords
      <3>2. QED
        BY <1>3, <1>4, <3>1 DEF Anchors
    <2>3. pc' \in [Requests -> Appending \union {"idle", "done", "failed", "erase", "walk",
                                                "compare", "intact", "broken"}]
      BY <1>4 DEF IInv, TypeOK
    <2>4. moved' \in [Verifiers -> BOOLEAN]
      BY <1>2 DEF Commit, Disturb, IInv, TypeOK
    <2>5. QED
      BY <1>4, <1>7, <2>1, <2>2, <2>3, <2>4 DEF IInv, TypeOK, Appending, Requests
  <1>9. Roles'
    BY <1>1, <1>4 DEF IInv, Roles, TypeOK, Appending
  <1>10. \A a \in rows : /\ a.id # w /\ a.seq < e.seq
                         /\ a.prev # e.prev /\ a.seq # e.seq /\ a.prev # e.hash
    <2> SUFFICES ASSUME NEW a \in rows
                 PROVE  /\ a.id # w /\ a.seq < e.seq
                        /\ a.prev # e.prev /\ a.seq # e.seq /\ a.prev # e.hash
      OBVIOUS
    <2>1. a.id # w
      BY <1>5 DEF Written, Ids
    <2>2. a.seq < e.seq /\ a.seq # e.seq
      BY <1>1, <1>3 DEF IInv, TypeOK, EntryRecords
    <2>3. a.prev # e.prev
      BY <1>1, <1>3, <1>5 DEF IInv, Writing, Appending
    <2>4. a.prev # e.hash
      BY ZenonT(60), <1>3, <1>5 DEF IInv, Shape
    <2>5. QED
      BY <2>1, <2>2, <2>3, <2>4
  <1>11. Shape'
    <2>1. \A a, b \in rows' : a.id = b.id => a = b
      BY <1>3, <1>4, <1>10 DEF IInv, Shape
    <2>2. \A a \in rows' : a.hash = Append(a.prev, a.id)
      BY <1>3, <1>4 DEF IInv, Shape
    <2>3. \A a, b \in rows' : a.prev = b.hash => b.seq < a.seq
      <3>1. e.prev # e.hash
        BY <1>3
      <3>2. QED
        BY <1>1, <1>3, <1>4, <1>10, <3>1 DEF IInv, Shape
    <2>4. \A a \in rows' : a.prev # Genesis => Newest(a.prev) \in Written'
      BY <1>1, <1>3, <1>4, <1>5, <1>6 DEF IInv, Shape, Writing, Appending
    <2>5. Ids' \intersect erased' = {} /\ \A u \in Entries : u \in Written' => pc'[u] = "done"
      BY <1>4, <1>5, <1>6 DEF IInv, Shape, Written, TypeOK, Requests
    <2>6. NoFork'
      BY <1>3, <1>4, <1>10 DEF NoFork, IInv, Shape
    <2>7. QED
      BY <2>1, <2>2, <2>3, <2>4, <2>5, <2>6 DEF Shape
  <1>12. Writing'
    BY <1>4, <1>7 DEF Writing, Appending, IInv, TypeOK, Requests
  <1>13. LockSuffices'
    BY <1>4 DEF IInv, LockSuffices
  <1>14. AnchorCountsAll'
    <2>1. IsFiniteSet(Written) /\ w \notin Written
      BY <1>5, WrittenFinite DEF IInv
    <2>2. Cardinality(Written \union {w}) = Cardinality(Written) + 1
      BY <2>1, FS_AddElement
    <2>3. anchor'.count = anchor.count + 1 /\ anchor.count = Cardinality(Written)
      BY <1>3, <1>4, <1>5 DEF IInv, AnchorCountsAll
    <2>4. QED
      BY <1>6, <2>2, <2>3 DEF AnchorCountsAll
  <1>15. Unbroken'
    <2> SUFFICES ASSUME erased' = {} PROVE Unbroken'
      BY <1>4, <1>7 DEF Unbroken, ChainUnbroken
    <2>1. e \in Heads(rows)'
      BY SMTT(40), <1>4, <1>10, <1>3 DEF Heads, IInv, TypeOK, EntryRecords
    <2>2. anchor'.head = e.hash /\ anchor'.last = e.seq
      BY <1>3, <1>4
    <2>3. e.seq = Len(e.hash) /\ (e.seq > 1 => \E b \in rows : b.hash = e.prev)
      <3>1. CASE rows = {} /\ prev[w] = Genesis /\ next[w] = 1
        BY <1>3, <3>1 DEF Genesis
      <3>2. CASE \E a \in Heads(rows) : ReadBy(a, w)
        <4>1. PICK a \in rows : prev[w] = a.hash /\ next[w] = a.seq + 1
          BY <3>2, <1>5 DEF Heads, ReadBy
        <4>2. a.seq = Len(a.hash)
          BY <1>4 DEF IInv, Unbroken, ChainUnbroken
        <4>3. QED
          BY <1>3, <4>1, <4>2
      <3>3. QED
        BY <1>1, <1>4, <1>5, <3>1, <3>2 DEF IInv, Unbroken, Appending
    <2>4. \A a \in rows : a.seq = Len(a.hash) /\ (a.seq > 1 => \E b \in rows : b.hash = a.prev)
      BY <1>4 DEF IInv, Unbroken, ChainUnbroken
    <2>5. ChainUnbroken'
      BY <1>4, <2>1, <2>2, <2>3, <2>4 DEF ChainUnbroken
    <2>6. \A u \in Entries : pc'[u] \notin Appending
      BY <1>4, <1>7 DEF Appending, IInv, TypeOK, Requests
    <2>7. QED
      BY <2>5, <2>6 DEF Unbroken
  <1>16. Walking'
    <2> SUFFICES ASSUME NEW v \in Verifiers
                 PROVE  /\ pc[v] = "idle" => walk[v].total = 0
                        /\ pc[v] # "idle" => missed[v] \subseteq erased
                        /\ pc[v] \in {"walk", "compare"}
                             => walk[v].total <= Cardinality(Written' \ missed[v])
                        /\ pc[v] = "intact" => missed[v] = {}
      BY <1>1, <1>4 DEF Walking, IInv, TypeOK, Requests
    <2>1. IsFiniteSet(Written') /\ Written \subseteq Written'
      BY <1>6, WrittenFinite, FS_AddElement DEF IInv
    <2>2. IsFiniteSet(Written' \ missed[v]) /\ Written \ missed[v] \subseteq Written' \ missed[v]
      BY <2>1, FS_Difference
    <2>3. /\ Cardinality(Written \ missed[v]) <= Cardinality(Written' \ missed[v])
          /\ Cardinality(Written \ missed[v]) \in Nat /\ Cardinality(Written' \ missed[v]) \in Nat
      BY <2>2, FS_Subset, FS_CardinalityType
    <2>4. QED
      BY SMTT(40), <2>3 DEF IInv, Walking, TypeOK
  <1>17. QED
    BY <1>8, <1>9, <1>11, <1>12, <1>13, <1>14, <1>15, <1>16 DEF IInv

LEMMA ReadHeadIInv ==
  ASSUME IInv, NEW w \in Requests, ReadHead(w)
  PROVE  IInv'
  <1> USE DEF ReadHead, Goto, chain, verifierVars
  <1>1. /\ w \in Entries /\ pc' = [pc EXCEPT ![w] = "sequence"] /\ UNCHANGED <<next, seen, tries>>
        /\ UNCHANGED <<chain, found, verifierVars>>
        /\ \A u \in Entries : pc[u] \notin Appending
        /\ \A u \in Entries : u # w => prev'[u] = prev[u]
    BY DEF LockFree, IInv, TypeOK
  <1>2. \/ rows = {} /\ prev'[w] = Genesis
        \/ \E a \in Heads(rows) : prev'[w] = a.hash
    BY <1>1 DEF IInv, TypeOK
  <1>3. Ids' = Ids /\ Written' = Written /\ Heads(rows)' = Heads(rows)
    BY DEF Ids, Written, Heads
  <1>4. TypeOK'
    <2>1. prev'[w] \in Seq(Entries)
      <3>1. \A a \in rows : a.hash \in Seq(Entries)
        BY DEF IInv, TypeOK, EntryRecords
      <3>2. <<>> \in Seq(Entries)
        OBVIOUS
      <3>3. Heads(rows) \subseteq rows
        BY DEF Heads
      <3>4. QED
        BY <1>2, <3>1, <3>2, <3>3 DEF Genesis
    <2>2. prev' \in [Entries -> Seq(Entries)]
      BY <1>1, <2>1 DEF IInv, TypeOK
    <2>3. \A u \in Entries : pc'[u] \in Appending => u = w
      BY <1>1 DEF IInv, TypeOK, Requests
    <2>4. pc' \in [Requests -> Appending \union {"idle", "done", "failed", "erase", "walk",
                                                "compare", "intact", "broken"}]
      BY <1>1 DEF IInv, TypeOK, Appending
    <2>5. QED
      BY <1>1, <2>2, <2>3, <2>4 DEF IInv, TypeOK, Appending
  <1>5. Roles'
    BY <1>1 DEF IInv, Roles, TypeOK, Appending
  <1>6. Shape'
    BY <1>1, <1>3 DEF IInv, Shape, NoFork, TypeOK, Requests
  <1>7. Writing'
    <2> SUFFICES ASSUME NEW u \in Entries, pc'[u] \in Appending
                 PROVE  /\ \A a \in rows : a.prev # prev'[u]
                        /\ prev'[u] # Genesis => Newest(prev'[u]) \in Written
                        /\ pc'[u] = "sequence"
      BY <1>1, <1>3 DEF Writing, Appending
    <2>1. u = w /\ pc'[u] = "sequence"
      BY <1>1 DEF IInv, TypeOK, Requests
    <2>2. ASSUME NEW h \in Heads(rows), prev'[w] = h.hash
          PROVE  /\ \A a \in rows : a.prev # prev'[w]
                 /\ Newest(prev'[w]) \in Written
      <3>1. h \in rows /\ \A a \in rows : a.seq <= h.seq
        BY <2>2 DEF Heads
      <3>2. \A a \in rows : a.prev # h.hash
        <4>1. \A a \in rows : a.prev = h.hash => h.seq < a.seq
          BY <3>1 DEF IInv, Shape
        <4>2. \A a \in rows : a.seq \in Nat
          BY DEF IInv, TypeOK, EntryRecords
        <4>3. QED
          BY <3>1, <4>1, <4>2
      <3>3. h.hash = Append(h.prev, h.id) /\ h.prev \in Seq(Entries) /\ h.id \in Entries
        BY <3>1 DEF IInv, Shape, TypeOK, EntryRecords
      <3>4. Newest(h.hash) = h.id
        BY <3>3, AppendFacts
      <3>5. h.id \in Written
        BY <3>1 DEF Written, Ids
      <3>6. QED
        BY <2>2, <3>2, <3>4, <3>5
    <2>3. QED
      BY <1>2, <2>1, <2>2
  <1>8. LockSuffices' /\ AnchorCountsAll'
    BY <1>1, <1>3 DEF IInv, LockSuffices, AnchorCountsAll
  <1>9. Unbroken'
    <2>1. ChainUnbroken'
      BY <1>3 DEF IInv, Unbroken, ChainUnbroken
    <2>2. \A u \in Entries : pc'[u] \in Appending => u = w /\ pc'[u] = "sequence"
      BY <1>1 DEF IInv, TypeOK, Requests
    <2>3. QED
      BY <1>1, <1>2, <1>3, <2>1, <2>2 DEF Unbroken, ReadBy, Heads
  <1>10. Walking'
    <2>1. \A v \in Verifiers : pc'[v] = pc[v]
      BY <1>1, ChainAssumption DEF IInv, TypeOK, Requests
    <2>2. QED
      BY <1>1, <2>1, WalkingStays DEF IInv
  <1>11. QED
    BY <1>4, <1>5, <1>6, <1>7, <1>8, <1>9, <1>10 DEF IInv

LEMMA ReadSequenceIInv ==
  ASSUME IInv, NEW w \in Requests, ReadSequence(w)
  PROVE  IInv'
  <1> USE DEF ReadSequence, Goto, chain, verifierVars
  <1>1. /\ w \in Entries /\ pc' = [pc EXCEPT ![w] = "anchor"] /\ UNCHANGED <<prev, seen, tries>>
        /\ UNCHANGED <<chain, found, verifierVars>>
        /\ \A u \in Entries : pc[u] \in Appending => u = w
        /\ \A u \in Entries : u # w => next'[u] = next[u]
    BY DEF IInv, TypeOK, Roles, Appending
  <1>2. \/ rows = {} /\ next'[w] = 1
        \/ \E a \in Heads(rows) : next'[w] = a.seq + 1
    BY <1>1 DEF IInv, TypeOK
  <1>3. Ids' = Ids /\ Written' = Written /\ Heads(rows)' = Heads(rows)
    BY DEF Ids, Written, Heads
  <1>4. TypeOK'
    <2>1. next'[w] \in Nat
      BY <1>2 DEF IInv, TypeOK, EntryRecords, Heads
    <2>2. next' \in [Entries -> Nat]
      BY <1>1, <2>1 DEF IInv, TypeOK
    <2>3. QED
      BY <1>1, <2>2 DEF IInv, TypeOK, Appending, Requests
  <1>5. Roles'
    BY <1>1 DEF IInv, Roles, TypeOK, Appending
  <1>6. Shape'
    BY <1>1, <1>3 DEF IInv, Shape, NoFork, TypeOK, Requests
  <1>7. \A a \in rows : a.seq < next'[w]
    BY <1>2 DEF Heads, IInv, TypeOK, EntryRecords
  <1>8. Writing'
    BY <1>1, <1>3, <1>7 DEF IInv, Writing, Appending, TypeOK, Requests
  <1>9. LockSuffices' /\ AnchorCountsAll'
    BY <1>1, <1>3 DEF IInv, LockSuffices, AnchorCountsAll
  <1>10. Unbroken'
    <2>1. ChainUnbroken'
      BY <1>3 DEF IInv, Unbroken, ChainUnbroken
    <2> SUFFICES ASSUME erased = {}
                 PROVE  \/ rows = {} /\ prev[w] = Genesis /\ next'[w] = 1
                        \/ \E a \in Heads(rows) : prev[w] = a.hash /\ next'[w] = a.seq + 1
      BY <1>1, <1>3, <2>1 DEF Unbroken, ReadBy, IInv, TypeOK, Requests
    <2>2. \A a, b \in Heads(rows) : a = b
      BY SMTT(40) DEF Heads, IInv, Shape, NoFork, TypeOK, EntryRecords
    <2>3. \/ rows = {} /\ prev[w] = Genesis
          \/ \E a \in Heads(rows) : prev[w] = a.hash
      BY <1>1 DEF IInv, Unbroken, ReadBy, Appending
    <2>4. QED
      BY <1>2, <2>2, <2>3 DEF Heads
  <1>11. Walking'
    <2>1. \A v \in Verifiers : pc'[v] = pc[v]
      BY <1>1, ChainAssumption DEF IInv, TypeOK, Requests
    <2>2. QED
      BY <1>1, <2>1, WalkingStays DEF IInv
  <1>12. QED
    BY <1>4, <1>5, <1>6, <1>8, <1>9, <1>10, <1>11 DEF IInv

LEMMA ReadAnchorIInv ==
  ASSUME IInv, NEW w \in Requests, ReadAnchor(w)
  PROVE  IInv'
  <1> USE DEF ReadAnchor, Goto, chain, verifierVars
  <1>1. /\ w \in Entries /\ pc' = [pc EXCEPT ![w] = "append"] /\ UNCHANGED <<prev, next, tries>>
        /\ UNCHANGED <<chain, found, verifierVars>>
        /\ \A u \in Entries : pc[u] \in Appending => u = w
        /\ seen' = [seen EXCEPT ![w] = anchor]
    BY DEF IInv, TypeOK, Roles, Appending
  <1>2. Ids' = Ids /\ Written' = Written /\ Heads(rows)' = Heads(rows)
    BY DEF Ids, Written, Heads
  <1>3. TypeOK'
    BY <1>1 DEF IInv, TypeOK, Appending, Requests
  <1>4. Roles'
    BY <1>1 DEF IInv, Roles, TypeOK, Appending
  <1>5. Shape'
    BY <1>1, <1>2 DEF IInv, Shape, NoFork, TypeOK, Requests
  <1>6. Writing'
    BY <1>1, <1>2 DEF IInv, Writing, Appending, TypeOK, Requests
  <1>7. LockSuffices' /\ AnchorCountsAll'
    BY <1>1, <1>2 DEF IInv, LockSuffices, AnchorCountsAll
  <1>8. Unbroken'
    BY <1>1, <1>2 DEF IInv, Unbroken, ChainUnbroken, ReadBy, Appending, TypeOK, Requests, Heads
  <1>9. Walking'
    <2>1. \A v \in Verifiers : pc'[v] = pc[v]
      BY <1>1, ChainAssumption DEF IInv, TypeOK, Requests
    <2>2. QED
      BY <1>1, <2>1, WalkingStays DEF IInv
  <1>10. QED
    BY <1>3, <1>4, <1>5, <1>6, <1>7, <1>8, <1>9 DEF IInv

\* A deletion takes rows away and touches nothing else; what was written
\* stays written.
LEMMA EraseIInv ==
  ASSUME IInv, NEW r \in Requests, Erase(r)
  PROVE  IInv'
  <1> USE ChainAssumption DEF Erase, Goto
  <1>1. /\ r \in Erasers /\ pc' = [pc EXCEPT ![r] = "done"] /\ rows' = rows \ found[r]
        /\ erased' = erased \union {a.id : a \in found[r] \intersect rows}
        /\ UNCHANGED <<prev, next, seen, tries, anchor, found, walk, missed>>
    BY DEF IInv, Roles, writerVars
  <1>2. \A u \in Entries : pc'[u] = pc[u]
    BY <1>1 DEF IInv, TypeOK, Requests
  <1>3. Written' = Written /\ erased \subseteq erased' /\ rows' \subseteq rows
    BY <1>1 DEF Written, Ids
  <1>4. TypeOK'
    <2>1. IsFiniteSet(rows') /\ rows' \subseteq EntryRecords
      <3>1. IsFiniteSet(rows) /\ rows \subseteq EntryRecords
        BY DEF IInv, TypeOK
      <3>2. rows' \in SUBSET rows
        BY <1>1
      <3>3. QED
        BY <3>1, <3>2, FS_Subset
    <2>2. erased' \subseteq Entries
      BY <1>1 DEF IInv, TypeOK, EntryRecords
    <2>3. moved' \in [Verifiers -> BOOLEAN]
      BY DEF Disturb, IInv, TypeOK
    <2>4. QED
      BY <1>1, <1>2, <2>1, <2>2, <2>3 DEF IInv, TypeOK, Requests
  <1>5. Roles'
    BY <1>1 DEF IInv, Roles, TypeOK, Appending
  <1>6. Shape'
    <2>1. Ids' \intersect erased' = {}
      BY <1>1 DEF IInv, Shape, Ids
    <2>2. QED
      BY <1>2, <1>3, <2>1 DEF IInv, Shape, NoFork
  <1>7. Writing'
    BY <1>1, <1>2, <1>3 DEF IInv, Writing
  <1>8. LockSuffices' /\ AnchorCountsAll'
    BY <1>1, <1>3 DEF IInv, LockSuffices, AnchorCountsAll
  <1>9. Unbroken'
    <2> SUFFICES ASSUME erased' = {} PROVE Unbroken'
      BY DEF Unbroken, ChainUnbroken
    <2>1. rows' = rows /\ erased = {}
      BY <1>1
    <2>2. QED
      BY <1>1, <1>2, <2>1 DEF IInv, Unbroken, ChainUnbroken, ReadBy, Heads
  <1>10. Walking'
    BY <1>1, <1>3 DEF IInv, Walking, TypeOK, Requests
  <1>11. QED
    BY <1>4, <1>5, <1>6, <1>7, <1>8, <1>9, <1>10 DEF IInv

LEMMA StartWalkIInv ==
  ASSUME IInv, NEW v \in Requests, StartWalk(v)
  PROVE  IInv'
  <1> USE ChainAssumption DEF StartWalk, Goto
  <1>1. /\ v \in Verifiers /\ UNCHANGED <<writerVars, chain, found, walk>>
        /\ pc' = [pc EXCEPT ![v] = "walk"] /\ missed' = [missed EXCEPT ![v] = erased]
    OBVIOUS
  <1>2. \A w \in Entries : pc'[w] = pc[w]
    BY <1>1 DEF IInv, TypeOK, Requests
  <1>3. TypeOK'
    BY <1>1, <1>2 DEF IInv, TypeOK, Requests, writerVars, chain
  <1>4. Roles'
    BY <1>1 DEF IInv, Roles, TypeOK, Appending
  <1>5. Walking'
    <2>1. Written' = Written
      BY <1>1 DEF Written, Ids, chain
    <2>2. Cardinality(Written \ erased) \in Nat
      <3>1. IsFiniteSet(Written \ erased)
        BY WrittenFinite, FS_Difference DEF IInv
      <3>2. QED
        BY <3>1, FS_CardinalityType
    <2>3. /\ pc[v] = "idle" /\ pc'[v] = "walk" /\ missed'[v] = erased
          /\ \A u \in Verifiers : u # v => pc'[u] = pc[u] /\ missed'[u] = missed[u]
      BY <1>1 DEF IInv, TypeOK, Requests
    <2>4. walk[v].total = 0 /\ 0 <= Cardinality(Written \ erased)
      <3>1. walk[v].total = 0
        BY <1>1, <2>3 DEF IInv, Walking
      <3>2. \A n \in Nat : 0 <= n
        OBVIOUS
      <3>3. QED
        BY <2>2, <3>1, <3>2
    <2>5. UNCHANGED <<walk, erased>>
      BY <1>1 DEF chain
    <2>6. ASSUME NEW u \in Verifiers
          PROVE  /\ pc'[u] = "idle" => walk[u].total = 0
                 /\ pc'[u] # "idle" => missed'[u] \subseteq erased
                 /\ pc'[u] \in {"walk", "compare"}
                      => walk[u].total <= Cardinality(Written \ missed'[u])
                 /\ pc'[u] = "intact" => missed'[u] = {}
      <3>1. CASE u = v
        BY <2>3, <2>4, <3>1
      <3>2. CASE u # v
        BY <2>3, <3>2 DEF IInv, Walking
      <3>3. QED
        BY <3>1, <3>2
    <2>7. QED
      BY <2>1, <2>5, <2>6 DEF Walking
  <1>6. QED
    BY <1>1, <1>2, <1>3, <1>4, <1>5, QuietIInv

\* A page adds no entry that was missing when the walk began.
LEMMA ReadPageIInv ==
  ASSUME IInv, NEW v \in Requests, ReadPage(v)
  PROVE  IInv'
  <1> USE ChainAssumption DEF ReadPage, Goto
  <1>1. v \in Verifiers /\ pc[v] = "walk" /\ UNCHANGED <<writerVars, chain, found, missed, moved>>
    BY DEF IInv, Roles
  <1>2. PICK S \in SUBSET rows : \E P \in SUBSET (rows \ S) :
          /\ Skips(walk[v].total, S)
          /\ Returns(S, P)
          /\ \E z \in Reached(P, walk[v]) :
               walk' = [walk EXCEPT ![v] =
                 [prev  |-> z[1],
                  last  |-> z[2],
                  total |-> @.total + Cardinality(P),
                  ok    |-> @.ok /\ \A a \in P : Linked(a, Before(a, P, @.prev))]]
          /\ pc' = [pc EXCEPT ![v] = IF Cardinality(P) < PageSize THEN "compare" ELSE "walk"]
    BY DEF ReadPage, Goto
  <1>3. PICK P \in SUBSET (rows \ S) :
          /\ Skips(walk[v].total, S)
          /\ \E z \in Reached(P, walk[v]) :
               walk' = [walk EXCEPT ![v] =
                 [prev  |-> z[1],
                  last  |-> z[2],
                  total |-> walk[v].total + Cardinality(P),
                  ok    |-> walk[v].ok /\ \A a \in P : Linked(a, Before(a, P, walk[v].prev))]]
          /\ pc' = [pc EXCEPT ![v] = IF Cardinality(P) < PageSize THEN "compare" ELSE "walk"]
    BY <1>2
  <1>4. PICK z \in Reached(P, walk[v]) :
           walk' = [walk EXCEPT ![v] =
             [prev  |-> z[1],
              last  |-> z[2],
              total |-> walk[v].total + Cardinality(P),
              ok    |-> walk[v].ok /\ \A a \in P : Linked(a, Before(a, P, walk[v].prev))]]
    BY <1>3
  <1>5. /\ IsFiniteSet(rows) /\ IsFiniteSet(S) /\ IsFiniteSet(P) /\ IsFiniteSet(S \union P)
        /\ Cardinality(S) \in Nat /\ Cardinality(P) \in Nat /\ Cardinality(rows) \in Nat
        /\ Cardinality(S) + Cardinality(P) <= Cardinality(rows)
    <2>1. IsFiniteSet(rows)
      BY DEF IInv, TypeOK
    <2>2. S \in SUBSET rows /\ P \in SUBSET rows /\ S \intersect P = {} /\ S \union P \in SUBSET rows
      OBVIOUS
    <2>3. IsFiniteSet(S) /\ IsFiniteSet(P) /\ IsFiniteSet(S \union P)
      BY <2>1, <2>2, FS_Subset
    <2>4. Cardinality(S \union P) <= Cardinality(rows)
      BY <2>1, <2>2, FS_Subset
    <2>5. Cardinality(S \union P) = Cardinality(S) + Cardinality(P) - Cardinality(S \intersect P)
      BY <2>3, FS_Union
    <2>6. Cardinality(S \intersect P) = 0
      BY <2>2, FS_EmptySet
    <2>7. Cardinality(S) \in Nat /\ Cardinality(P) \in Nat /\ Cardinality(rows) \in Nat
      BY <2>1, <2>3, FS_CardinalityType
    <2>8. QED
      BY <2>1, <2>3, <2>4, <2>5, <2>6, <2>7
  <1>6. z[1] \in Seq(Entries) /\ z[2] \in Nat
    BY <1>1, <1>4 DEF Reached, Heads, IInv, TypeOK, EntryRecords
  <1>7. TypeOK'
    <2>1. walk[v].total + Cardinality(P) \in Nat
      BY <1>1, <1>5 DEF IInv, TypeOK
    <2>2. (walk[v].ok /\ \A a \in P : Linked(a, Before(a, P, walk[v].prev))) \in BOOLEAN
      OBVIOUS
    <2>3. walk' \in [Verifiers -> [prev : Seq(Entries), last : Nat, total : Nat, ok : BOOLEAN]]
      BY <1>1, <1>4, <1>6, <2>1, <2>2 DEF IInv, TypeOK
    <2>4. pc'[v] \in {"compare", "walk"} /\ \A r \in Requests : r # v => pc'[r] = pc[r]
      BY <1>3 DEF IInv, TypeOK
    <2>5. pc' \in [Requests -> Appending \union {"idle", "done", "failed", "erase", "walk",
                                                "compare", "intact", "broken"}]
      BY <1>3 DEF IInv, TypeOK
    <2>6. QED
      BY SMTT(40), <1>1, <2>3, <2>4, <2>5 DEF IInv, TypeOK, Requests, writerVars, chain
  <1>8. Roles'
    BY <1>1, <1>3 DEF IInv, Roles, TypeOK, Appending
  <1>9. Cardinality(rows) <= Cardinality(Written \ missed[v])
    <2>1. [a \in rows |-> a.id] \in Injection(rows, Written \ missed[v])
      <3>1. \A a \in rows : a.id \in Written /\ a.id \notin missed[v]
        BY ZenonT(60), <1>1 DEF Written, Ids, IInv, Shape, Walking
      <3>2. QED
        BY <3>1 DEF Injection, IsInjective, IInv, Shape
    <2>2. IsFiniteSet(Written \ missed[v])
      BY WrittenFinite, FS_Difference DEF IInv
    <2>3. QED
      BY <2>1, <2>2, FS_Injection
  <1>10. walk[v].total + Cardinality(P) <= Cardinality(Written \ missed[v])
    <2>1. CASE Cardinality(S) = walk[v].total
      <3>1. Cardinality(Written \ missed[v]) \in Nat
        BY WrittenFinite, FS_Difference, FS_CardinalityType DEF IInv
      <3>2. QED
        BY <1>5, <1>9, <2>1, <3>1
    <2>2. CASE S = rows
      <3>1. P = {}
        BY <2>2
      <3>2. Cardinality(P) = 0
        BY <3>1, FS_EmptySet
      <3>3. QED
        BY <1>1, <3>2 DEF IInv, Walking, TypeOK
    <2>3. QED
      BY <1>3, <2>1, <2>2 DEF Skips
  <1>11. Walking'
    <2>1. Written' = Written /\ walk'[v].total = walk[v].total + Cardinality(P)
      BY <1>1, <1>4 DEF Written, Ids, chain, IInv, TypeOK
    <2>2. \A u \in Verifiers : u # v => walk'[u] = walk[u] /\ pc'[u] = pc[u]
      BY <1>3, <1>4 DEF IInv, TypeOK, Requests
    <2>3. pc'[v] \in {"walk", "compare"}
      BY <1>3 DEF IInv, TypeOK
    <2>4. QED
      BY ZenonT(60), <1>1, <1>10, <2>1, <2>2, <2>3 DEF IInv, Walking, chain
  <1>12. \A w \in Entries : pc'[w] = pc[w]
    BY <1>1, <1>3 DEF IInv, TypeOK, Requests
  <1>13. QED
    BY <1>1, <1>7, <1>8, <1>11, <1>12, QuietIInv

\* The verdict: an intact chain has lost nothing.
LEMMA CompareIInv ==
  ASSUME IInv, NEW v \in Requests, Compare(v)
  PROVE  IInv'
  <1> USE ChainAssumption DEF Compare, Goto
  <1>1. v \in Verifiers /\ UNCHANGED <<writerVars, chain, found, verifierVars>> /\ pc[v] = "compare"
    BY DEF IInv, Roles
  <1>2. \A w \in Entries : pc'[w] = pc[w]
    BY <1>1 DEF IInv, TypeOK, Requests
  <1>3. TypeOK'
    BY <1>1, <1>2 DEF IInv, TypeOK, Requests, writerVars, chain, verifierVars
  <1>4. Roles'
    BY <1>1 DEF IInv, Roles, TypeOK, Appending
  <1>5. Confirms(anchor, walk[v]) => missed[v] = {}
    <2> SUFFICES ASSUME Confirms(anchor, walk[v]) PROVE missed[v] = {}
      OBVIOUS
    <2>1. /\ missed[v] \subseteq Written /\ IsFiniteSet(Written) /\ Cardinality(Written) \in Nat
          /\ walk[v].total <= Cardinality(Written \ missed[v])
      BY <1>1, WrittenFinite DEF IInv, Walking, Written
    <2>2. anchor = NoAnchor => Written = {}
      BY <2>1, FS_EmptySet DEF IInv, AnchorCountsAll, NoAnchor
    <2>3. ASSUME walk[v].total = Cardinality(Written) PROVE missed[v] = {}
      <3>1. Cardinality(Written \ missed[v]) = Cardinality(Written) - Cardinality(Written \intersect missed[v])
        BY <2>1, FS_Difference
      <3>2. IsFiniteSet(Written \intersect missed[v]) /\ Cardinality(Written \intersect missed[v]) \in Nat
        BY <2>1, FS_Intersection, FS_CardinalityType
      <3>3. Cardinality(Written \intersect missed[v]) = 0
        BY <2>1, <2>3, <3>1, <3>2
      <3>4. QED
        BY <2>1, <3>2, <3>3, FS_EmptySet
    <2>4. QED
      BY <2>1, <2>2, <2>3 DEF Confirms, IInv, AnchorCountsAll
  <1>6. Walking'
    <2>1. Written' = Written
      BY <1>1 DEF Written, Ids, chain
    <2>2. pc'[v] \in {"intact", "broken"} /\ (pc'[v] = "intact" => missed[v] = {})
      BY <1>1, <1>5 DEF IInv, TypeOK
    <2>3. QED
      BY <1>1, <2>1, <2>2 DEF IInv, Walking, TypeOK, Requests, chain, verifierVars
  <1>7. QED
    BY <1>1, <1>2, <1>3, <1>4, <1>6, QuietIInv

LEMMA FindOrFailIInv ==
  ASSUME IInv, NEW r \in Requests, FindEntries(r) \/ Fail(r)
  PROVE  IInv'
  <1> USE ChainAssumption DEF FindEntries, Fail, Goto
  <1>1. /\ UNCHANGED <<writerVars, chain, verifierVars>>
        /\ pc' = [pc EXCEPT ![r] = pc'[r]] /\ pc'[r] \in {"erase", "failed"}
        /\ pc'[r] = "erase" => r \in Erasers
        /\ pc'[r] = "failed" => pc[r] \in Appending \union {"erase", "walk", "compare"}
    BY DEF IInv, TypeOK
  <1>2. \A w \in Entries : pc'[w] = pc[w] \/ (pc'[w] = "failed" /\ pc[w] \in Appending)
    BY <1>1 DEF IInv, TypeOK, Requests, Roles
  <1>3. TypeOK'
    <2>1. found' \in [Erasers -> SUBSET EntryRecords]
      <3>1. CASE FindEntries(r)
        <4>1. {a \in rows : a.id \in Subject[r]} \in SUBSET EntryRecords
          BY DEF IInv, TypeOK
        <4>2. found' = [found EXCEPT ![r] = {a \in rows : a.id \in Subject[r]}]
          BY <3>1
        <4>3. QED
          BY <4>1, <4>2 DEF IInv, TypeOK
      <3>2. CASE Fail(r)
        BY <3>2 DEF IInv, TypeOK
      <3>3. QED
        BY <3>1, <3>2
    <2>2. pc' \in [Requests -> Appending \union {"idle", "done", "failed", "erase", "walk",
                                                "compare", "intact", "broken"}]
      BY <1>1 DEF IInv, TypeOK
    <2>3. \A w, u \in Entries : pc'[w] \in Appending /\ pc'[u] \in Appending => w = u
      BY <1>2 DEF IInv, TypeOK, Appending
    <2>4. UNCHANGED <<prev, next, seen, tries, rows, anchor, erased, walk, missed, moved>>
      BY <1>1 DEF writerVars, chain, verifierVars
    <2>5. QED
      BY <2>1, <2>2, <2>3, <2>4 DEF IInv, TypeOK
  <1>4. Roles'
    BY <1>1 DEF IInv, Roles, TypeOK, Appending
  <1>5. Walking'
    <2>1. \A v \in Verifiers : pc'[v] = pc[v] \/ (pc'[v] = "failed" /\ pc[v] # "idle")
      BY <1>1 DEF IInv, TypeOK, Requests, Appending
    <2>2. QED
      BY <1>1, <2>1, WalkingStays DEF IInv
  <1>6. QED
    BY <1>1, <1>2, <1>3, <1>4, <1>5, QuietIInv

LEMMA NextIInv == IInv /\ [Next]_vars => IInv'
  <1> SUFFICES ASSUME IInv, [Next]_vars PROVE IInv'
    OBVIOUS
  <1>1. CASE UNCHANGED vars
    <2>1. UNCHANGED <<pc, writerVars, chain, found, walk, missed, moved>>
      BY <1>1 DEF vars, verifierVars
    <2>2. TypeOK'
      BY <2>1 DEF IInv, TypeOK, writerVars, chain
    <2>3. Roles'
      BY <2>1 DEF IInv, Roles
    <2>4. Walking'
      BY <2>1, WalkingStays DEF IInv, verifierVars
    <2>5. QED
      BY <2>1, <2>2, <2>3, <2>4, QuietIInv
  <1>2. QED
    BY <1>1, CommitIInv, ReadHeadIInv, ReadSequenceIInv, ReadAnchorIInv, EraseIInv, StartWalkIInv,
       ReadPageIInv, CompareIInv, FindOrFailIInv DEF Next

LEMMA Invariance == Spec => []IInv
  BY InitIInv, NextIInv, PTL DEF Spec

-----------------------------------------------------------------------------
(***************************************************************************)
(* A walk over a chain nothing was deleted from: the sequence numbers are  *)
(* 1, 2, ... without a gap, so a page is an interval of them, its first    *)
(* entry follows the row the walk has reached, and the last page ends at   *)
(* the head the anchor names.                                              *)
(***************************************************************************)
Numbered ==
  erased = {} =>
    /\ anchor.last = anchor.count
    /\ anchor.last = 0 => anchor = NoAnchor
    /\ \A a \in rows : a.seq \in 1..anchor.last
    /\ \A n \in 1..anchor.last : \E a \in rows : a.seq = n

\* Nothing was deleted before v began, nothing changed since.
Calm(v) == missed[v] = {} /\ ~moved[v]

\* The state k of a walk rests on a row, or on the genesis hash.
Rests(k) ==
  IF k.total = 0 THEN k.prev = Genesis ELSE \E a \in rows : a.seq = k.total /\ a.hash = k.prev

Start == [prev |-> Genesis, last |-> 0, total |-> 0, ok |-> TRUE]

OnTrack(v) ==
  /\ erased = {}
  /\ walk[v].ok /\ walk[v].last = walk[v].total /\ walk[v].total <= anchor.last
  /\ Rests(walk[v])
  /\ pc[v] = "compare" => walk[v].total = anchor.last

Sound ==
  \A v \in Verifiers :
     /\ pc[v] = "idle" => walk[v] = Start
     /\ pc[v] \in {"walk", "compare", "broken"} /\ Calm(v) => pc[v] # "broken" /\ OnTrack(v)

\* What the lemmas about pages assume.
Gapfree == IInv /\ Numbered /\ erased = {}

Upto(n) == {a \in rows : a.seq <= n}

\* As many rows as numbers: the numbering is a bijection.
LEMMA UptoCardinality ==
  ASSUME Gapfree, NEW n \in 0..anchor.last
  PROVE  IsFiniteSet(Upto(n)) /\ Cardinality(Upto(n)) = n
  <1> DEFINE f == [a \in Upto(n) |-> a.seq]
  <1>1. anchor.last \in Nat /\ \A a \in rows : a.seq \in 1..anchor.last
    BY DEF Gapfree, Numbered, IInv, TypeOK, Anchors
  <1>2. \A a, b \in rows : a.seq = b.seq => a = b
    BY DEF Gapfree, IInv, Shape, NoFork
  <1>3. f \in Injection(Upto(n), 1..n)
    BY <1>1, <1>2 DEF Injection, IsInjective, Upto
  <1>4. f \in Surjection(Upto(n), 1..n)
    <2>1. \A k \in 1..n : \E a \in Upto(n) : f[a] = k
      <3> SUFFICES ASSUME NEW k \in 1..n PROVE \E a \in Upto(n) : f[a] = k
        OBVIOUS
      <3>1. PICK a \in rows : a.seq = k
        BY <1>1 DEF Gapfree, Numbered
      <3>2. a \in Upto(n)
        BY <3>1 DEF Upto
      <3>3. QED
        BY <3>1, <3>2
    <2>2. QED
      BY <1>3, <2>1 DEF Injection, Surjection
  <1>5. IsFiniteSet(1..n) /\ Cardinality(1..n) = n
    BY <1>1, FS_Interval
  <1>6. QED
    BY <1>3, <1>4, <1>5, FS_Injection

LEMMA AllRows ==
  ASSUME Gapfree
  PROVE  /\ anchor.last \in Nat /\ IsFiniteSet(rows)
         /\ rows = Upto(anchor.last) /\ Cardinality(rows) = anchor.last
         /\ \A a \in rows : a.seq \in Nat /\ a.seq >= 1 /\ a.seq <= anchor.last
         /\ \A a, b \in rows : a.seq = b.seq => a = b
  <1>1. anchor.last \in Nat /\ \A a \in rows : a.seq \in 1..anchor.last
    BY DEF Gapfree, Numbered, IInv, TypeOK, Anchors
  <1>2. rows = Upto(anchor.last)
    BY <1>1 DEF Upto
  <1>3. \A a, b \in rows : a.seq = b.seq => a = b
    BY DEF Gapfree, IInv, Shape, NoFork
  <1>4. anchor.last \in 0..anchor.last
    BY <1>1
  <1>5. QED
    BY <1>1, <1>2, <1>3, <1>4, UptoCardinality

\* What OFFSET and LIMIT cut off by sequence number is an interval.
LEMMA InitialSegment ==
  ASSUME Gapfree, NEW S \in SUBSET rows, \A a \in S, b \in rows \ S : a.seq < b.seq
  PROVE  Cardinality(S) \in 0..anchor.last /\ S = Upto(Cardinality(S))
  <1> DEFINE k == Cardinality(S)
  <1>1. IsFiniteSet(S) /\ k \in Nat /\ k <= anchor.last
    BY AllRows, FS_Subset, FS_CardinalityType
  <1>2. k \in 0..anchor.last
    BY <1>1, AllRows
  <1> HIDE DEF k
  <1>3. IsFiniteSet(Upto(k)) /\ Cardinality(Upto(k)) = k
    BY <1>2, UptoCardinality
  <1>4. CASE S \in SUBSET Upto(k)
    <2>1. Cardinality(Upto(k)) = Cardinality(S)
      BY <1>3 DEF k
    <2>2. Upto(k) = S
      BY <1>3, <1>4, <2>1, FS_Subset
    <2>3. QED
      BY <1>2, <2>2 DEF k
  <1>5. CASE \E a \in S : a \notin Upto(k)
    <2>1. PICK a \in S : a \notin Upto(k)
      BY <1>5
    <2>2. a.seq > k
      BY <1>1, <2>1, AllRows DEF Upto
    <2>3. Upto(k) \in SUBSET S
      <3> SUFFICES ASSUME NEW b \in Upto(k) PROVE b \in S
        OBVIOUS
      <3>1. b \in rows /\ b.seq <= k
        BY DEF Upto
      <3>2. ~(a.seq < b.seq)
        BY <1>1, <2>2, <3>1, AllRows
      <3>3. QED
        BY <3>1, <3>2
    <2>4. QED
      BY <1>1, <1>3, <2>3, FS_Subset DEF k
  <1>6. QED
    BY <1>2, <1>4, <1>5 DEF k

\* Every entry commits to the one numbered before it.
LEMMA Predecessor ==
  ASSUME Gapfree, NEW a \in rows
  PROVE  /\ a.hash = Hash(a.prev, a.id)
         /\ a.seq = 1 => a.prev = Genesis
         /\ \A b \in rows : b.seq = a.seq - 1 => b.hash = a.prev
  <1>1. /\ a.hash = Append(a.prev, a.id) /\ a.prev \in Seq(Entries) /\ a.id \in Entries
        /\ a.seq \in Nat
    BY DEF Gapfree, IInv, Shape, TypeOK, EntryRecords
  <1>2. /\ \A b \in rows : b.seq = Len(b.hash)
        /\ a.seq > 1 => \E b \in rows : b.hash = a.prev
    BY DEF Gapfree, IInv, Unbroken, ChainUnbroken
  <1>3. Len(a.prev) = a.seq - 1
    BY <1>1, <1>2, AppendFacts
  <1>4. a.seq = 1 => a.prev = Genesis
    BY <1>1, <1>3 DEF Genesis
  <1>5. ASSUME NEW b \in rows, b.seq = a.seq - 1 PROVE b.hash = a.prev
    <2>1. a.seq > 1
      BY <1>1, <1>5, AllRows
    <2>2. PICK c \in rows : c.hash = a.prev
      BY <1>2, <2>1
    <2>3. c.seq = a.seq - 1
      BY <1>2, <1>3, <2>2
    <2>4. c = b
      BY <1>5, <2>3, AllRows
    <2>5. QED
      BY <2>2, <2>4
  <1>6. QED
    BY <1>1, <1>4, <1>5 DEF Hash

\* A page after the first n rows: numbers n + 1 and up, linked throughout.
LEMMA PageLinked ==
  ASSUME Gapfree, NEW n \in 0..anchor.last, NEW m \in n..anchor.last, NEW h,
         IF n = 0 THEN h = Genesis ELSE \E b \in rows : b.seq = n /\ b.hash = h,
         NEW P, P = Upto(m) \ Upto(n), NEW a \in P
  PROVE  Linked(a, Before(a, P, h))
  <1> DEFINE B == {b \in P : b.seq < a.seq}
  <1>1. a \in rows /\ a.seq \in Nat /\ a.seq > n /\ a.seq <= m /\ n \in Nat /\ m \in Nat
    BY AllRows DEF Upto
  <1>2. \A b \in P : b \in rows /\ b.seq \in Nat /\ b.seq > n /\ b.seq <= m
    BY AllRows DEF Upto
  <1>3. a.seq - 1 # 0 => \E b \in rows : b.seq = a.seq - 1
    <2>1. a.seq - 1 # 0 => a.seq - 1 \in 1..anchor.last
      BY <1>1, AllRows
    <2>2. QED
      BY <2>1 DEF Gapfree, Numbered
  <1>4. CASE B = {}
    <2>1. Before(a, P, h) = h
      BY <1>4 DEF Before
    <2>2. a.seq = n + 1
      <3> SUFFICES ASSUME a.seq # n + 1 PROVE FALSE
        OBVIOUS
      <3>1. a.seq - 1 > n /\ a.seq - 1 # 0 /\ a.seq - 1 <= m /\ a.seq - 1 < a.seq
        BY <1>1
      <3>2. PICK b \in rows : b.seq = a.seq - 1
        BY <1>3, <3>1
      <3>3. b \in B
        BY <1>1, <3>1, <3>2 DEF Upto
      <3>4. QED
        BY <1>4, <3>3
    <2>3. CASE n = 0
      BY <1>1, <2>1, <2>2, <2>3, Predecessor DEF Linked
    <2>4. CASE n # 0
      <3>1. PICK b \in rows : b.seq = n /\ b.hash = h
        BY <2>4
      <3>2. b.seq = a.seq - 1
        BY <1>1, <2>2, <3>1
      <3>3. QED
        BY <1>1, <2>1, <3>1, <3>2, Predecessor DEF Linked
    <2>5. QED
      BY <2>3, <2>4
  <1>5. CASE B # {}
    <2>1. PICK c \in B : TRUE
      BY <1>5
    <2>2. c.seq > n /\ c.seq < a.seq /\ c.seq \in Nat
      BY <1>2
    <2>3. a.seq - 1 > n /\ a.seq - 1 # 0 /\ a.seq - 1 <= m /\ a.seq - 1 < a.seq
      BY <1>1, <2>2
    <2>4. PICK b \in rows : b.seq = a.seq - 1
      BY <1>3, <2>3
    <2>5. b \in B
      BY <1>1, <2>3, <2>4 DEF Upto
    <2>6. \A d \in B : d.seq <= b.seq
      BY <1>1, <1>2, <2>4
    <2>7. b \in Heads(B) /\ \A d \in Heads(B) : d = b
      <3>1. b \in Heads(B)
        BY <2>5, <2>6 DEF Heads
      <3>2. ASSUME NEW d \in Heads(B) PROVE d = b
        <4>1. d \in B /\ b.seq <= d.seq
          BY <2>5 DEF Heads
        <4>2. d.seq = b.seq
          BY <1>2, <2>5, <2>6, <4>1
        <4>3. QED
          BY <1>2, <2>4, <4>1, <4>2, AllRows
      <3>3. QED
        BY <3>1, <3>2
    <2>8. (CHOOSE d \in Heads(B) : TRUE) = b
      BY <2>7
    <2>9. Before(a, P, h) = b.hash
      BY <1>5, <2>8 DEF Before
    <2>10. QED
      BY <1>1, <2>4, <2>9, Predecessor DEF Linked
  <1>6. QED
    BY <1>4, <1>5

LEMMA InitSound == Init => Numbered /\ Sound
  <1> SUFFICES ASSUME Init PROVE Numbered /\ Sound
    OBVIOUS
  <1>1. Numbered
    BY DEF Init, Numbered, NoAnchor
  <1>2. Sound
    BY ChainAssumption DEF Init, Sound, Start, Requests
  <1>3. QED
    BY <1>1, <1>2

\* An append takes the number after the last one and becomes the head.
LEMMA NumberedStep ==
  ASSUME IInv, Numbered, [Next]_vars
  PROVE  Numbered'
  <1> SUFFICES ASSUME erased' = {} PROVE Numbered'
    BY DEF Numbered
  <1> USE DEF chain
  <1>1. CASE UNCHANGED <<rows, anchor>> /\ erased = {}
    BY <1>1 DEF Numbered
  <1>2. ASSUME NEW w \in Requests, AppendEntry(w), Commit(w) PROVE Numbered'
    <2>1. w \in Entries /\ pc[w] = "append" /\ erased = {} /\ seen[w] = anchor
      BY <1>2 DEF AppendEntry, Commit, IInv, Roles, Writing, Appending
    <2>2. rows' = rows \union {Entry(w)} /\ Entry(w).seq = next[w]
      BY <1>2 DEF Commit, Entry
    <2>3. anchor'.last = next[w] /\ anchor'.count = anchor.count + 1
      BY <1>2, <2>1 DEF Commit, Counted
    <2>4. Gapfree /\ anchor.last \in Nat
      BY <2>1, AllRows DEF Gapfree
    <2>5. next[w] = anchor.last + 1
      <3>1. \/ rows = {} /\ next[w] = 1
            \/ \E a \in Heads(rows) : next[w] = a.seq + 1
        BY <2>1 DEF IInv, Unbroken, ReadBy, Appending
      <3>2. CASE rows = {} /\ next[w] = 1
        BY <2>1, <2>4, <3>2 DEF Numbered
      <3>3. ASSUME NEW a \in Heads(rows), next[w] = a.seq + 1 PROVE next[w] = anchor.last + 1
        <4>1. PICK b \in Heads(rows) : anchor.last = b.seq
          BY <2>1 DEF IInv, Unbroken, ChainUnbroken, Heads
        <4>2. a.seq = b.seq
          BY <2>4, <4>1, AllRows DEF Heads
        <4>3. QED
          BY <3>3, <4>1, <4>2
      <3>4. QED
        BY <3>1, <3>2, <3>3
    <2>6. anchor'.last = anchor'.count /\ anchor'.last # 0
      BY <2>1, <2>3, <2>4, <2>5 DEF Numbered
    <2>7. \A a \in rows' : a.seq \in 1..anchor'.last
      BY <2>2, <2>3, <2>4, <2>5, AllRows
    <2>8. ASSUME NEW n \in 1..anchor'.last PROVE \E a \in rows' : a.seq = n
      <3>1. n = next[w] \/ n \in 1..anchor.last
        BY <2>3, <2>4, <2>5
      <3>2. QED
        BY <2>1, <2>2, <3>1 DEF Numbered
    <2>9. QED
      BY <2>6, <2>7, <2>8 DEF Numbered
  <1>3. ASSUME NEW r \in Requests, Erase(r) PROVE Numbered'
    <2>1. UNCHANGED <<rows, anchor>> /\ erased = {}
      BY <1>3 DEF Erase
    <2>2. QED
      BY <1>1, <2>1
  <1>4. ASSUME NEW r \in Requests,
               \/ ReadHead(r) \/ ReadSequence(r) \/ ReadAnchor(r) \/ FindEntries(r)
               \/ StartWalk(r) \/ ReadPage(r) \/ Compare(r) \/ Fail(r)
               \/ AppendEntry(r) /\ Retry(r)
        PROVE  Numbered'
    <2>1. UNCHANGED chain
      BY <1>4 DEF ReadHead, ReadSequence, ReadAnchor, FindEntries, StartWalk, ReadPage, Compare,
         Fail, Retry
    <2>2. QED
      BY <1>1, <2>1
  <1>5. CASE UNCHANGED vars
    BY <1>1, <1>5 DEF vars
  <1>6. QED
    BY <1>2, <1>3, <1>4, <1>5 DEF Next, AppendEntry

\* A change of the chain is remembered against every walk in progress.
LEMMA DisturbedSound ==
  ASSUME IInv, Sound, NEW r \in Requests, (AppendEntry(r) /\ Commit(r)) \/ Erase(r)
  PROVE  Sound'
  <1>1. /\ \A v \in Verifiers : pc'[v] = pc[v]
        /\ UNCHANGED <<walk, missed>>
        /\ \A v \in Verifiers : moved'[v] = (moved[v] \/ rows' # rows)
    <2>1. r \notin Verifiers /\ pc' = [pc EXCEPT ![r] = "done"]
      <3>1. CASE AppendEntry(r) /\ Commit(r)
        BY <3>1, ChainAssumption DEF AppendEntry, Commit, Goto, IInv, Roles, Appending
      <3>2. CASE Erase(r)
        BY <3>2, ChainAssumption DEF Erase, Goto, IInv, Roles
      <3>3. QED
        BY <3>1, <3>2
    <2>2. QED
      BY <2>1 DEF Commit, Erase, Disturb, IInv, TypeOK, Requests
  <1>2. rows' # rows \/ UNCHANGED <<rows, anchor, erased>>
    <2>1. CASE AppendEntry(r) /\ Commit(r)
      <3>1. r \notin Ids /\ Entry(r) \in rows' /\ Entry(r).id = r
        BY <2>1 DEF AppendEntry, Commit, Entry, IInv, Roles, Shape, Written, Appending
      <3>2. QED
        BY <3>1 DEF Ids
    <2>2. CASE Erase(r)
      BY <2>2 DEF Erase
    <2>3. QED
      BY <2>1, <2>2
  <1>3. CASE rows' # rows
    BY <1>1, <1>3 DEF Sound, Calm
  <1>4. CASE UNCHANGED <<rows, anchor, erased>>
    BY <1>1, <1>4 DEF Sound, Calm, OnTrack, Rests, IInv, TypeOK
  <1>5. QED
    BY <1>2, <1>3, <1>4

\* Steps of others that leave chain and walks alone.
LEMMA UndisturbedSound ==
  ASSUME Sound, UNCHANGED <<chain, verifierVars>>,
         \A v \in Verifiers : pc'[v] = pc[v] \/ pc'[v] \notin {"idle", "walk", "compare", "broken"}
  PROVE  Sound'
  <1>1. UNCHANGED <<rows, anchor, erased, walk, missed, moved>>
    BY DEF chain, verifierVars
  <1>2. ASSUME NEW v \in Verifiers
        PROVE  /\ pc'[v] = "idle" => walk'[v] = Start
               /\ pc'[v] \in {"walk", "compare", "broken"} /\ Calm(v)'
                    => pc'[v] # "broken" /\ OnTrack(v)'
    BY <1>1 DEF Sound, Calm, OnTrack, Rests
  <1>3. QED
    BY <1>2 DEF Sound

LEMMA StartWalkSound ==
  ASSUME IInv, Sound, NEW v \in Requests, StartWalk(v)
  PROVE  Sound'
  <1> USE DEF StartWalk, Goto, chain
  <1>1. /\ v \in Verifiers /\ pc[v] = "idle" /\ pc'[v] = "walk" /\ missed'[v] = erased
        /\ UNCHANGED <<rows, anchor, erased, walk>>
        /\ \A u \in Verifiers \ {v} : pc'[u] = pc[u] /\ missed'[u] = missed[u] /\ moved'[u] = moved[u]
    BY DEF IInv, TypeOK, Requests
  <1>2. anchor.last \in Nat
    BY DEF IInv, TypeOK, Anchors
  <1>3. ASSUME Calm(v)' PROVE OnTrack(v)'
    <2>1. erased = {} /\ walk[v] = Start
      BY <1>1, <1>3 DEF Calm, Sound
    <2>2. QED
      BY <1>1, <1>2, <2>1 DEF OnTrack, Start, Rests
  <1>4. \A u \in Verifiers \ {v} :
           /\ pc'[u] = "idle" => walk'[u] = Start
           /\ pc'[u] \in {"walk", "compare", "broken"} /\ Calm(u)'
                => pc'[u] # "broken" /\ OnTrack(u)'
    BY <1>1 DEF Sound, Calm, OnTrack, Rests
  <1>5. QED
    BY <1>1, <1>3, <1>4 DEF Sound

\* A page brings a walk that is on track to the end of the page.
LEMMA ReadPageSound ==
  ASSUME IInv, Numbered, Sound, NEW v \in Requests, ReadPage(v)
  PROVE  Sound'
  <1> USE DEF Goto, chain
  <1>1. /\ v \in Verifiers /\ pc[v] = "walk"
        /\ UNCHANGED <<rows, anchor, erased, missed, moved>>
    BY DEF ReadPage, IInv, Roles
  <1> DEFINE k == walk[v]
  <1>2. PICK S \in SUBSET rows : \E P \in SUBSET (rows \ S) :
          /\ Skips(k.total, S)
          /\ Returns(S, P)
          /\ \E z \in Reached(P, k) :
               walk' = [walk EXCEPT ![v] =
                 [prev  |-> z[1],
                  last  |-> z[2],
                  total |-> k.total + Cardinality(P),
                  ok    |-> k.ok /\ \A a \in P : Linked(a, Before(a, P, k.prev))]]
          /\ pc' = [pc EXCEPT ![v] = IF Cardinality(P) < PageSize THEN "compare" ELSE "walk"]
    BY DEF ReadPage
  <1>3. PICK P \in SUBSET (rows \ S) :
          /\ Skips(k.total, S)
          /\ Returns(S, P)
          /\ \E z \in Reached(P, k) :
               walk' = [walk EXCEPT ![v] =
                 [prev  |-> z[1],
                  last  |-> z[2],
                  total |-> k.total + Cardinality(P),
                  ok    |-> k.ok /\ \A a \in P : Linked(a, Before(a, P, k.prev))]]
          /\ pc' = [pc EXCEPT ![v] = IF Cardinality(P) < PageSize THEN "compare" ELSE "walk"]
    BY <1>2
  <1>4. PICK z \in Reached(P, k) :
           walk' = [walk EXCEPT ![v] =
             [prev  |-> z[1],
              last  |-> z[2],
              total |-> k.total + Cardinality(P),
              ok    |-> k.ok /\ \A a \in P : Linked(a, Before(a, P, k.prev))]]
    BY <1>3
  <1>5. /\ walk'[v].prev = z[1] /\ walk'[v].last = z[2]
        /\ walk'[v].total = k.total + Cardinality(P)
        /\ walk'[v].ok = (k.ok /\ \A a \in P : Linked(a, Before(a, P, k.prev)))
        /\ pc'[v] = IF Cardinality(P) < PageSize THEN "compare" ELSE "walk"
    BY <1>1, <1>3, <1>4 DEF IInv, TypeOK
  <1>6. \A u \in Verifiers \ {v} : walk'[u] = walk[u] /\ pc'[u] = pc[u]
    BY <1>3, <1>4 DEF IInv, TypeOK, Requests
  <1>7. ASSUME Calm(v)' PROVE OnTrack(v)'
    <2>1. Gapfree /\ OnTrack(v) /\ k.total \in Nat
      BY <1>1, <1>7 DEF Sound, Calm, Gapfree, OnTrack, IInv, TypeOK
    <2> DEFINE n == k.total
               m == n + Cardinality(P)
    <2>2. anchor.last \in Nat /\ n \in 0..anchor.last /\ IsFiniteSet(rows)
          /\ Cardinality(rows) = anchor.last
      BY <2>1, AllRows DEF OnTrack
    <2>3. \A a \in S, b \in rows \ S : a.seq < b.seq
      BY <1>3 DEF Skips
    <2>4. S = Upto(n) /\ Cardinality(S) = n
      <3>1. Cardinality(S) \in 0..anchor.last /\ S = Upto(Cardinality(S))
        BY <2>1, <2>3, InitialSegment
      <3>2. Cardinality(S) = n
        BY <1>3, <2>2, <2>1 DEF Skips
      <3>3. QED
        BY <3>1, <3>2
    <2>5. IsFiniteSet(S) /\ IsFiniteSet(P) /\ Cardinality(P) \in Nat
      BY <2>2, FS_Subset, FS_CardinalityType
    <2>6. Cardinality(S \union P) = m
      <3>1. S \intersect P = {} /\ Cardinality(S \intersect P) = 0
        BY FS_EmptySet
      <3>2. Cardinality(S \union P) = Cardinality(S) + Cardinality(P) - Cardinality(S \intersect P)
        BY <2>5, FS_Union
      <3>3. QED
        BY <2>1, <2>4, <2>5, <3>1, <3>2
    <2>7. S \union P = Upto(m) /\ m \in n..anchor.last
      <3>1. \A a \in S \union P, b \in rows \ (S \union P) : a.seq < b.seq
        BY <1>3, <2>3 DEF Returns
      <3>2. S \union P \in SUBSET rows
        OBVIOUS
      <3>3. m \in 0..anchor.last /\ S \union P = Upto(m)
        BY <2>1, <2>6, <3>1, <3>2, InitialSegment
      <3>4. QED
        BY <2>1, <2>2, <2>5, <3>3
    <2>8. P = Upto(m) \ Upto(n) /\ m \in Nat /\ n \in Nat
      BY <2>1, <2>2, <2>4, <2>5, <2>7
    <2> HIDE DEF n, m
    <2>9. walk'[v].ok
      <3>1. IF n = 0 THEN k.prev = Genesis ELSE \E b \in rows : b.seq = n /\ b.hash = k.prev
        BY <2>1 DEF OnTrack, Rests, n
      <3>2. \A a \in P : Linked(a, Before(a, P, k.prev))
        BY <2>1, <2>2, <2>7, <2>8, <3>1, PageLinked
      <3>3. QED
        BY <1>5, <2>1, <3>2 DEF OnTrack
    <2>10. walk'[v].last = walk'[v].total /\ Rests(walk[v])'
      <3>1. CASE P = {}
        <4>1. Cardinality(P) = 0 /\ z = <<k.prev, k.last>>
          BY <3>1, FS_EmptySet DEF Reached
        <4>2. walk'[v].total = n /\ walk'[v].last = k.last /\ walk'[v].prev = k.prev
          BY <1>5, <2>1, <4>1 DEF n
        <4>3. k.last = k.total /\ Rests(k)
          BY <2>1 DEF OnTrack
        <4>4. QED
          BY <1>1, <4>2, <4>3 DEF Rests, n
      <3>2. CASE P # {}
        <4>1. PICK a \in Heads(P) : z = <<a.hash, a.seq>>
          BY <3>2 DEF Reached
        <4>2. a \in P /\ a \in rows /\ a.seq \in Nat /\ a.seq <= m /\ a.seq > n
          <5>1. a \in P /\ \A b \in P : b.seq <= a.seq
            BY <4>1 DEF Heads
          <5>2. a.seq \in Nat /\ a \in rows
            BY <2>1, <5>1, AllRows
          <5>3. QED
            BY <2>8, <5>1, <5>2 DEF Upto
        <4>3. m \in 1..anchor.last /\ m # 0
          BY <2>1, <2>2, <2>7, <4>2
        <4>4. PICK b \in rows : b.seq = m
          BY <2>1, <4>3 DEF Gapfree, Numbered
        <4>5. b \in P
          BY <2>1, <2>2, <2>8, <4>2, <4>3, <4>4 DEF Upto
        <4>6. a.seq = m
          BY <2>1, <2>8, <4>1, <4>2, <4>4, <4>5 DEF Heads
        <4>7. walk'[v].total = m /\ walk'[v].last = m /\ walk'[v].prev = a.hash
          BY <1>5, <4>1, <4>6 DEF m, n
        <4>8. QED
          BY <1>1, <4>2, <4>3, <4>6, <4>7 DEF Rests
      <3>3. QED
        BY <3>1, <3>2
    <2>11. pc'[v] = "compare" => m = anchor.last
      <3> SUFFICES ASSUME pc'[v] = "compare" PROVE m = anchor.last
        OBVIOUS
      <3>1. PageSize \in Nat /\ Cardinality(P) < PageSize
        BY <1>5, ChainAssumption
      <3>2. P = rows \ S
        BY <2>5, <3>1, <1>3 DEF Returns
      <3>3. S \union P = rows
        BY <3>2
      <3>4. QED
        BY <2>2, <2>6, <3>3
    <2>12. QED
      <3>1. walk'[v].total = m
        BY <1>5 DEF m, n
      <3>2. walk'[v].total <= anchor.last
        BY <2>2, <2>7, <2>8, <3>1
      <3>3. erased' = {} /\ anchor' = anchor
        BY <1>1, <2>1 DEF OnTrack
      <3>4. QED
        BY <2>9, <2>10, <2>11, <3>1, <3>2, <3>3 DEF OnTrack
  <1>8. pc'[v] \in {"walk", "compare"}
    BY <1>5
  <1>9. \A u \in Verifiers \ {v} :
           /\ pc'[u] = "idle" => walk'[u] = Start
           /\ pc'[u] \in {"walk", "compare", "broken"} /\ Calm(u)'
                => pc'[u] # "broken" /\ OnTrack(u)'
    BY <1>1, <1>6 DEF Sound, Calm, OnTrack, Rests
  <1>10. QED
    BY <1>7, <1>8, <1>9 DEF Sound

\* A walk that is on track at its end agrees with the anchor.
LEMMA CompareSound ==
  ASSUME IInv, Numbered, Sound, NEW v \in Requests, Compare(v)
  PROVE  Sound'
  <1> USE DEF Compare, Goto, chain, verifierVars
  <1>1. /\ v \in Verifiers /\ pc[v] = "compare"
        /\ UNCHANGED <<rows, anchor, erased, walk, missed, moved>>
        /\ \A u \in Verifiers \ {v} : pc'[u] = pc[u]
        /\ pc'[v] = IF walk[v].ok /\ Confirms(anchor, walk[v]) THEN "intact" ELSE "broken"
    BY DEF IInv, Roles, TypeOK, Requests
  <1> DEFINE k == walk[v]
  <1>2. ASSUME Calm(v) PROVE k.ok /\ Confirms(anchor, k)
    <2>1. OnTrack(v) /\ Gapfree /\ k.last = k.total /\ k.total = anchor.last /\ k.ok
      BY <1>1, <1>2 DEF Sound, OnTrack, Gapfree
    <2>2. anchor.count = anchor.last
      BY <2>1 DEF Gapfree, Numbered
    <2>3. CASE anchor.last = 0
      BY <2>1, <2>3 DEF Gapfree, Numbered, Confirms
    <2>4. CASE anchor.last # 0
      <3>1. PICK a \in rows : a.seq = anchor.last /\ a.hash = k.prev
        BY <2>1, <2>4 DEF OnTrack, Rests
      <3>2. PICK b \in Heads(rows) : anchor.head = b.hash /\ anchor.last = b.seq
        BY <2>1, <3>1 DEF Gapfree, IInv, Unbroken, ChainUnbroken
      <3>3. a = b
        BY <2>1, <3>1, <3>2, AllRows DEF Heads
      <3>4. QED
        BY <2>1, <2>2, <3>1, <3>2, <3>3 DEF Confirms
    <2>5. QED
      BY <2>3, <2>4
  <1>3. \A u \in Verifiers : Calm(u)' <=> Calm(u)
    BY <1>1 DEF Calm
  <1>4. Calm(v) => pc'[v] = "intact"
    BY <1>1, <1>2
  <1>5. pc'[v] # "idle"
    BY <1>1
  <1>6. \A u \in Verifiers \ {v} :
           /\ pc'[u] = "idle" => walk'[u] = Start
           /\ pc'[u] \in {"walk", "compare", "broken"} /\ Calm(u)'
                => pc'[u] # "broken" /\ OnTrack(u)'
    BY <1>1 DEF Sound, Calm, OnTrack, Rests
  <1>7. QED
    BY <1>3, <1>4, <1>5, <1>6 DEF Sound

LEMMA SoundStep ==
  ASSUME IInv, Numbered, Sound, [Next]_vars
  PROVE  Sound'
  <1> USE ChainAssumption DEF Goto
  <1>1. CASE UNCHANGED vars
    <2>1. UNCHANGED <<pc, chain, verifierVars>>
      BY <1>1 DEF vars
    <2>2. QED
      BY <2>1, UndisturbedSound
  <1>2. ASSUME NEW w \in Requests,
               \/ ReadHead(w) \/ ReadSequence(w) \/ ReadAnchor(w)
               \/ (AppendEntry(w) /\ Retry(w)) \/ FindEntries(w)
        PROVE  Sound'
    <2>1. w \notin Verifiers
      BY <1>2 DEF ReadHead, ReadSequence, ReadAnchor, AppendEntry, FindEntries, IInv, Roles, Appending
    <2>2. UNCHANGED <<chain, verifierVars>>
      BY <1>2 DEF ReadHead, ReadSequence, ReadAnchor, Retry, FindEntries
    <2>3. \A v \in Verifiers : pc'[v] = pc[v]
      BY <1>2, <2>1 DEF ReadHead, ReadSequence, ReadAnchor, Retry, FindEntries, IInv, TypeOK, Requests
    <2>4. QED
      BY <2>2, <2>3, UndisturbedSound
  <1>3. ASSUME NEW r \in Requests, Fail(r) PROVE Sound'
    <2>1. UNCHANGED <<chain, verifierVars>> /\ pc' = [pc EXCEPT ![r] = "failed"]
      BY <1>3 DEF Fail
    <2>2. \A v \in Verifiers : pc'[v] = pc[v] \/ pc'[v] \notin {"idle", "walk", "compare", "broken"}
      BY <2>1 DEF IInv, TypeOK, Requests
    <2>3. QED
      BY <2>1, <2>2, UndisturbedSound
  <1>4. QED
    BY <1>1, <1>2, <1>3, DisturbedSound, StartWalkSound, ReadPageSound, CompareSound
       DEF Next, AppendEntry

LEMMA SoundInvariance == Spec => [](IInv /\ Numbered /\ Sound)
  <1>1. Init => IInv /\ Numbered /\ Sound
    BY InitIInv, InitSound
  <1>2. (IInv /\ Numbered /\ Sound) /\ [Next]_vars => (IInv /\ Numbered /\ Sound)'
    BY NextIInv, NumberedStep, SoundStep
  <1>3. QED
    BY <1>1, <1>2, PTL DEF Spec

-----------------------------------------------------------------------------
\* The states are well typed and at most one writer of the tenant is at work.
THEOREM TypeCorrect == Spec => []TypeOK
  <1>1. IInv => TypeOK
    BY DEF IInv
  <1>2. QED
    BY <1>1, Invariance, PTL

\* The chain never branches (_create_audit_log_once).
THEOREM OneChain == Spec => []NoFork
  <1>1. IInv => NoFork
    BY DEF IInv, Shape
  <1>2. QED
    BY <1>1, Invariance, PTL

\* The retry loop of create_audit_log is never needed.
THEOREM NoCollision == Spec => []LockSuffices
  <1>1. IInv => LockSuffices
    BY DEF IInv
  <1>2. QED
    BY <1>1, Invariance, PTL

\* The anchor counts all that was ever written (_upsert_chain_anchor).
THEOREM CountsAll == Spec => []AnchorCountsAll
  <1>1. IInv => AnchorCountsAll
    BY DEF IInv
  <1>2. QED
    BY <1>1, Invariance, PTL

\* Without deletions the log is one gapless chain under its anchor.
THEOREM Gapless == Spec => []ChainUnbroken
  <1>1. IInv => ChainUnbroken
    BY DEF IInv, Unbroken
  <1>2. QED
    BY <1>1, Invariance, PTL

\* No chain that lost an entry is reported intact (verify_audit_chain).
THEOREM Detects == Spec => []DeletionDetected
  <1>1. IInv => DeletionDetected
    BY DEF IInv, Walking, DeletionDetected
  <1>2. QED
    BY <1>1, Invariance, PTL

\* An alarm of verify_audit_chain about a chain that stood still means a
\* deletion: the walk never calls a complete chain broken, whatever the page
\* size and wherever its pages begin.
THEOREM AlarmsAreReal == Spec => []AlarmIsReal
  <1>1. Sound => AlarmIsReal
    BY DEF Sound, Calm, AlarmIsReal
  <1>2. QED
    BY <1>1, SoundInvariance, PTL

-----------------------------------------------------------------------------
(***************************************************************************)
(* Refinement of AuditContract.                                            *)
(***************************************************************************)
\* The append step adds the entry behind all others and counts it.
LEMMA AppendIsWrite ==
  ASSUME IInv, NEW w \in Requests, AppendEntry(w)
  PROVE  w \in Entries /\ Contract!Write(w)
  <1>1. /\ w \in Entries /\ w \notin Written /\ pc[w] = "append" /\ seen[w] = anchor
        /\ \A a \in rows : a.seq < next[w]
    BY DEF AppendEntry, IInv, Roles, Writing, Shape, Appending
  <1>2. Commit(w)
    BY <1>1 DEF AppendEntry, IInv, TypeOK, EntryRecords
  <1> DEFINE e == Entry(w)
  <1>3. /\ e.id = w /\ e.seq = next[w] /\ next[w] \in Nat
        /\ rows' = rows \union {e} /\ anchor'.count = anchor.count + 1
        /\ UNCHANGED <<erased, missed>> /\ pc' = [pc EXCEPT ![w] = "done"]
    BY <1>1, <1>2 DEF Entry, Commit, Counted, Goto, IInv, TypeOK
  <1> HIDE DEF e
  <1>4. /\ \A a \in rows : a.seq \in Nat /\ a.seq < e.seq /\ ~(e.seq < a.seq)
        /\ ~(e.seq < e.seq)
    BY <1>1, <1>3 DEF IInv, TypeOK, EntryRecords
  <1>5. Ids' = Ids \union {w} /\ w \notin Ids /\ w \notin erased
    BY <1>1, <1>3 DEF Ids, Written
  <1>6. Order' = Order \union (Ids \X {w})
    <2>1. {q \in rows' \X rows' : q[1].seq < q[2].seq}
             = {q \in rows \X rows : q[1].seq < q[2].seq} \union (rows \X {e})
      BY <1>3, <1>4
    <2>2. {<<p[1].id, p[2].id>> : p \in rows \X {e}} = Ids \X {w}
      <3>1. \A p \in rows \X {e} : <<p[1].id, p[2].id>> \in Ids \X {w}
        BY <1>3 DEF Ids
      <3>2. ASSUME NEW i \in Ids PROVE \E p \in rows \X {e} : <<i, w>> = <<p[1].id, p[2].id>>
        <4>1. PICK a \in rows : a.id = i
          BY DEF Ids
        <4>2. <<a, e>> \in rows \X {e} /\ <<a, e>>[1] = a /\ <<a, e>>[2] = e
          BY <4>1
        <4>3. <<i, w>> = <<(<<a, e>>[1]).id, (<<a, e>>[2]).id>>
          BY <1>3, <4>1
        <4>4. QED
          BY <4>2, <4>3
      <3>3. QED
        BY <3>1, <3>2
    <2>3. QED
      BY <2>1, <2>2 DEF Order
  <1>7. moved' = [v \in Verifiers |-> TRUE]
    <2>1. rows' # rows
      BY <1>3, <1>5 DEF Ids
    <2>2. QED
      BY <1>2, <2>1 DEF Commit, Disturb, IInv, TypeOK
  <1>8. \A v \in Verifiers : Told(v)' = Told(v)
    BY <1>1, <1>3, ChainAssumption DEF Told, IInv, TypeOK, Requests
  <1>9. QED
    BY <1>1, <1>3, <1>5, <1>6, <1>7, <1>8 DEF Contract!Write

\* A deletion forgets the entries it finds, all at once.
LEMMA EraseIsForget ==
  ASSUME IInv, NEW x \in Requests, Erase(x)
  PROVE  Contract!Next \/ UNCHANGED Contract!vars
  <1> DEFINE gone == {a \in rows : a \in found[x]}
             E == {a.id : a \in gone}
  <1>1. /\ x \in Erasers /\ rows' = rows \ gone /\ erased' = erased \union E
        /\ UNCHANGED <<anchor, missed>> /\ pc' = [pc EXCEPT ![x] = "done"]
        /\ moved' = [v \in Verifiers |-> moved[v] \/ rows' # rows]
    BY DEF Erase, Goto, Disturb, IInv, Roles
  <1>2. \A v \in Verifiers : Told(v)' = Told(v)
    BY <1>1, ChainAssumption DEF Told, IInv, TypeOK, Requests
  <1>3. CASE gone = {}
    <2>1. rows' = rows /\ E = {}
      BY <1>1, <1>3
    <2>2. Ids' = Ids /\ Order' = Order /\ erased' = erased
      BY <1>1, <2>1 DEF Ids, Order
    <2>3. moved' = moved
      BY <1>1, <2>1 DEF IInv, TypeOK
    <2>4. QED
      BY <1>1, <1>2, <2>2, <2>3 DEF Contract!vars
  <1>4. CASE gone # {}
    <2>1. \A a, b \in rows : a.id = b.id => a = b
      BY DEF IInv, Shape
    <2>2. E # {} /\ E \in SUBSET Ids /\ Ids' = Ids \ E /\ rows' # rows
      BY <1>1, <1>4, <2>1 DEF Ids
    <2>3. moved' = [v \in Verifiers |-> TRUE]
      BY <1>1, <2>2 DEF IInv, TypeOK
    <2>4. Order' = Order \intersect (Ids' \X Ids')
      <3>1. \A a, b \in rows' : a \in rows /\ b \in rows /\ a.id \in Ids' /\ b.id \in Ids'
        BY <1>1 DEF Ids
      <3>2. \A a \in rows : a.id \in Ids' => a \in rows'
        BY <1>1, <2>1 DEF Ids
      <3>3. Order' \subseteq Order \intersect (Ids' \X Ids')
        BY <3>1 DEF Order
      <3>4. Order \intersect (Ids' \X Ids') \subseteq Order'
        BY <3>2 DEF Order
      <3>5. QED
        BY <3>3, <3>4
    <2>5. Contract!Forget(E)
      BY <1>1, <1>2, <2>2, <2>3, <2>4 DEF Contract!Forget
    <2>6. QED
      BY <2>2, <2>5 DEF Contract!Next
  <1>5. QED
    BY <1>3, <1>4

\* Steps that leave the chain alone change at most one verifier's answer.
LEMMA QuietStep ==
  ASSUME UNCHANGED chain
  PROVE  UNCHANGED <<Ids, Order, anchor.count, erased>>
  BY DEF chain, Ids, Order

\* A verification is asked for, and answered as its verdict is.
LEMMA VerdictIsReply ==
  ASSUME IInv, IInv', Sound', NEW v \in Requests,
         StartWalk(v) \/ ReadPage(v) \/ Compare(v) \/ (Fail(v) /\ v \in Verifiers)
  PROVE  Contract!Next \/ UNCHANGED Contract!vars
  <1> USE DEF Goto
  <1>1. v \in Verifiers /\ UNCHANGED <<Ids, Order, anchor.count, erased>>
    BY QuietStep DEF StartWalk, ReadPage, Compare, Fail, IInv, Roles
  <1>2. \A u \in Verifiers : u # v => pc'[u] = pc[u]
    BY <1>1 DEF StartWalk, ReadPage, Compare, Fail, IInv, TypeOK, Requests
  <1>3. ASSUME StartWalk(v) PROVE Contract!Next
    <2>1. /\ pc[v] = "idle" /\ pc'[v] = "walk"
          /\ missed' = [missed EXCEPT ![v] = erased] /\ moved' = [moved EXCEPT ![v] = FALSE]
      BY <1>1, <1>3 DEF StartWalk, IInv, TypeOK
    <2>2. [u \in Verifiers |-> Told(u)]' = [[u \in Verifiers |-> Told(u)] EXCEPT ![v] = "open"]
      BY <1>1, <1>2, <2>1 DEF Told
    <2>3. Contract!Ask(v)
      BY <1>1, <2>1, <2>2 DEF Contract!Ask, Told
    <2>4. QED
      BY <1>1, <2>3 DEF Contract!Next
  <1>4. ASSUME ReadPage(v) PROVE UNCHANGED Contract!vars
    <2>1. pc[v] = "walk" /\ pc'[v] \in {"walk", "compare"} /\ UNCHANGED <<missed, moved>>
      BY <1>1, <1>4 DEF ReadPage, IInv, TypeOK
    <2>2. \A u \in Verifiers : Told(u)' = Told(u)
      BY <1>1, <1>2, <2>1 DEF Told
    <2>3. QED
      BY <1>1, <2>1, <2>2 DEF Contract!vars
  <1>5. ASSUME Compare(v) \/ Fail(v) PROVE Contract!Next
    <2>1. /\ pc[v] \in {"walk", "compare"} /\ pc'[v] \in {"intact", "broken", "failed"}
          /\ UNCHANGED <<missed, moved>>
      BY <1>1, <1>5, ChainAssumption DEF Compare, Fail, verifierVars, IInv, TypeOK, Roles, Appending
    <2>2. [u \in Verifiers |-> Told(u)]' = [[u \in Verifiers |-> Told(u)] EXCEPT ![v] = pc'[v]]
      BY <1>1, <1>2, <2>1 DEF Told
    <2>3. pc'[v] = "intact" => missed[v] = {}
      BY <1>1, <2>1 DEF IInv, Walking
    <2>4. pc'[v] = "broken" => missed[v] # {} \/ moved[v]
      BY <1>1, <2>1 DEF Sound, Calm
    <2>5. Contract!Reply(v, pc'[v])
      BY <1>1, <2>1, <2>2, <2>3, <2>4 DEF Contract!Reply, Told
    <2>6. QED
      BY <1>1, <2>1, <2>5 DEF Contract!Next
  <1>6. QED
    BY <1>3, <1>4, <1>5

\* The tables, the lock and the walk implement the contract of audit logs:
\* an append is one step behind all other entries, a deletion is one step,
\* and a verdict means what it says (_create_audit_log_once,
\* right_to_be_forgotten, verify_audit_chain).
THEOREM Implements == Spec => ImplementsContract
  <1>1. Init => Contract!Init
    BY DEF Init, Contract!Init, Ids, Order, NoAnchor, Told, Requests
  <1>2. IInv /\ IInv' /\ Sound' /\ [Next]_vars => [Contract!Next]_(Contract!vars)
    <2> SUFFICES ASSUME IInv, IInv', Sound', [Next]_vars
                 PROVE  Contract!Next \/ UNCHANGED Contract!vars
      OBVIOUS
    <2>1. ASSUME NEW w \in Requests, AppendEntry(w) PROVE Contract!Next
      BY <2>1, AppendIsWrite DEF Contract!Next
    <2>2. ASSUME NEW r \in Requests, r \notin Verifiers,
                 ReadHead(r) \/ ReadSequence(r) \/ ReadAnchor(r) \/ FindEntries(r) \/ Fail(r)
          PROVE  UNCHANGED Contract!vars
      <3>1. UNCHANGED <<chain, verifierVars>>
        BY <2>2 DEF ReadHead, ReadSequence, ReadAnchor, FindEntries, Fail
      <3>2. \A v \in Verifiers : pc'[v] = pc[v]
        BY <2>2 DEF ReadHead, ReadSequence, ReadAnchor, FindEntries, Fail, Goto, IInv, TypeOK, Requests
      <3>3. QED
        BY <3>1, <3>2, QuietStep DEF Contract!vars, Told, verifierVars
    <2>3. ASSUME NEW r \in Requests, ReadHead(r) \/ ReadSequence(r) \/ ReadAnchor(r) \/ FindEntries(r)
          PROVE  r \notin Verifiers
      BY <2>3, ChainAssumption
         DEF ReadHead, ReadSequence, ReadAnchor, FindEntries, IInv, Roles, Appending
    <2>4. CASE UNCHANGED vars
      <3>1. UNCHANGED <<pc, chain, verifierVars>>
        BY <2>4 DEF vars
      <3>2. QED
        BY <3>1, QuietStep DEF Contract!vars, Told, verifierVars
    <2>5. QED
      BY <2>1, <2>2, <2>3, <2>4, EraseIsForget, VerdictIsReply DEF Next
  <1>3. QED
    BY <1>1, <1>2, SoundInvariance, PTL DEF Spec, ImplementsContract, Contract!Spec

=============================================================================
