------------------------ MODULE AuditRetryQueueProofs ------------------------
(* What AuditRetryQueue guarantees for any number of gateway instances and  *)
(* events, any limits and any number of Redis faults and crashes.           *)
EXTENDS AuditRetryQueue, SequenceTheorems, FiniteSetTheorems, TLAPS

\* No event is in the list twice.
OnceIn(list) == \A i, j \in 1..Len(list) : list[i] = list[j] => i = j

-----------------------------------------------------------------------------
\* RPUSH puts an event at the right end of a list.
LEMMA Pushed ==
  ASSUME NEW list \in Seq(Events), NEW e \in Events
  PROVE  /\ Append(list, e) \in Seq(Events)
         /\ Range(Append(list, e)) = Range(list) \union {e}
         /\ OnceIn(list) /\ e \notin Range(list) => OnceIn(Append(list, e))
<1>1. /\ Append(list, e) \in Seq(Events) /\ Len(list) \in Nat
      /\ Len(Append(list, e)) = Len(list) + 1
      /\ \A i \in 1..Len(list) : Append(list, e)[i] = list[i]
      /\ Append(list, e)[Len(list) + 1] = e
  OBVIOUS
<1>2. DOMAIN list = 1..Len(list) /\ DOMAIN Append(list, e) = 1..(Len(list) + 1)
  OBVIOUS
<1>3. \A i \in 1..(Len(list) + 1) : i \in 1..Len(list) \/ i = Len(list) + 1
  BY <1>1
<1>4. \A i \in 1..Len(list) : i \in 1..(Len(list) + 1)
  BY <1>1
<1>5. Len(list) + 1 \in 1..(Len(list) + 1)
  BY <1>1
<1>6. Range(Append(list, e)) = Range(list) \union {e}
  BY <1>1, <1>2, <1>3, <1>4, <1>5 DEF Range
<1>7. ASSUME OnceIn(list), e \notin Range(list) PROVE OnceIn(Append(list, e))
  BY <1>1, <1>2, <1>3, <1>7 DEF OnceIn, Range
<1> QED
  BY <1>1, <1>6, <1>7

\* An index that is not the last is one of the others.
LEMMA Below ==
  ASSUME NEW n \in Nat, NEW i \in 1..n, i # n
  PROVE  i \in 1..(n - 1)
  OBVIOUS

\* LMOVE takes the event at the right end of a list.
LEMMA MovedRight ==
  ASSUME NEW list \in Seq(Events), list # <<>>
  PROVE  /\ Front(list) \in Seq(Events) /\ Last(list) \in Range(list)
         /\ Range(Front(list)) \subseteq Range(list)
         /\ Range(list) \subseteq Range(Front(list)) \union {Last(list)}
         /\ OnceIn(list) => OnceIn(Front(list)) /\ Last(list) \notin Range(Front(list))
<1>1. Len(list) \in Nat /\ Len(list) > 0 /\ DOMAIN list = 1..Len(list)
  OBVIOUS
<1>2. /\ Front(list) \in Seq(Events) /\ Len(Front(list)) = Len(list) - 1
      /\ \A i \in 1..(Len(list) - 1) : Front(list)[i] = list[i]
  BY <1>1 DEF Front
<1>3. DOMAIN Front(list) = 1..(Len(list) - 1)
  BY <1>2
<1>4. Last(list) = list[Len(list)]
  BY DEF Last
<1>5. /\ Len(list) \in 1..Len(list) /\ Len(list) \notin 1..(Len(list) - 1)
      /\ \A i \in 1..(Len(list) - 1) : i \in 1..Len(list)
      /\ \A i \in 1..Len(list) : i = Len(list) \/ i \in 1..(Len(list) - 1)
  <2> DEFINE n == Len(list)
  <2>1. n \in Nat /\ n > 0
    BY <1>1
  <2> HIDE DEF n
  <2>2. n \in 1..n /\ n \notin 1..(n - 1)
    BY <2>1
  <2>3. \A i \in 1..(n - 1) : i \in 1..n
    BY <2>1
  <2>4. \A i \in 1..n : i = n \/ i \in 1..(n - 1)
    BY SMTT(40), <2>1, Below
  <2> QED
    BY <2>2, <2>3, <2>4 DEF n
<1>6. /\ Last(list) \in Range(list) /\ Range(Front(list)) \subseteq Range(list)
      /\ Range(list) \subseteq Range(Front(list)) \union {Last(list)}
  BY ZenonT(60), <1>1, <1>2, <1>3, <1>4, <1>5 DEF Range
<1>7. ASSUME OnceIn(list) PROVE OnceIn(Front(list)) /\ Last(list) \notin Range(Front(list))
  BY ZenonT(60), <1>1, <1>2, <1>3, <1>4, <1>5, <1>7 DEF OnceIn, Range
<1> QED
  BY <1>2, <1>6, <1>7

\* LPOP takes the event at the left end of a list.
LEMMA PoppedLeft ==
  ASSUME NEW list \in Seq(Events), list # <<>>
  PROVE  /\ Tail(list) \in Seq(Events) /\ Head(list) \in Range(list)
         /\ Range(Tail(list)) \subseteq Range(list)
         /\ Range(list) \subseteq Range(Tail(list)) \union {Head(list)}
         /\ OnceIn(list) => OnceIn(Tail(list)) /\ Head(list) \notin Range(Tail(list))
<1>1. Len(list) \in Nat /\ Len(list) > 0 /\ DOMAIN list = 1..Len(list)
  OBVIOUS
<1>2. /\ Tail(list) \in Seq(Events) /\ Len(Tail(list)) = Len(list) - 1
      /\ \A i \in 1..(Len(list) - 1) : Tail(list)[i] = list[i + 1]
      /\ Head(list) = list[1]
  BY <1>1
<1>3. DOMAIN Tail(list) = 1..(Len(list) - 1)
  BY <1>2
<1>4. /\ 1 \in 1..Len(list)
      /\ \A i \in 1..(Len(list) - 1) : i + 1 \in 1..Len(list) /\ i + 1 # 1
      /\ \A i, j \in 1..(Len(list) - 1) : i + 1 = j + 1 => i = j
      /\ \A i \in 1..Len(list) : i = 1 \/ \E j \in 1..(Len(list) - 1) : i = j + 1
  <2>1. \A i \in 1..Len(list) : i # 1 => i - 1 \in 1..(Len(list) - 1) /\ i = (i - 1) + 1
    BY <1>1
  <2> QED
    BY <1>1, <2>1
<1>5. /\ Head(list) \in Range(list) /\ Range(Tail(list)) \subseteq Range(list)
      /\ Range(list) \subseteq Range(Tail(list)) \union {Head(list)}
  <2>1. Head(list) \in Range(list)
    BY <1>1, <1>2, <1>4 DEF Range
  <2>2. Range(Tail(list)) \subseteq Range(list)
    BY <1>1, <1>2, <1>3, <1>4 DEF Range
  <2>3. ASSUME NEW i \in 1..Len(list) PROVE list[i] \in Range(Tail(list)) \union {Head(list)}
    <3>1. CASE i = 1
      BY <1>2, <3>1
    <3>2. CASE i # 1
      <4>1. PICK j \in 1..(Len(list) - 1) : i = j + 1
        BY <1>4, <3>2
      <4>2. Tail(list)[j] = list[i]
        BY <1>2, <4>1
      <4> QED
        BY <1>3, <4>2 DEF Range
    <3> QED
      BY <3>1, <3>2
  <2> QED
    BY <1>1, <2>1, <2>2, <2>3 DEF Range
<1>6. ASSUME OnceIn(list) PROVE OnceIn(Tail(list)) /\ Head(list) \notin Range(Tail(list))
  BY <1>1, <1>2, <1>3, <1>4, <1>6 DEF OnceIn, Range
<1> QED
  BY <1>2, <1>5, <1>6

\* The events of a list are events.
LEMMA Listed ==
  ASSUME NEW list \in Seq(Events)
  PROVE  Range(list) \subseteq Events /\ (list = <<>> => Range(list) = {})
<1>1. DOMAIN list = 1..Len(list) /\ \A i \in 1..Len(list) : list[i] \in Events
  OBVIOUS
<1> QED
  BY <1>1 DEF Range

\* A set of events that grows by one event at most.
LEMMA OneMore ==
  ASSUME NEW S \in SUBSET Events, NEW T \in SUBSET Events
  PROVE  /\ Cardinality(S) \in Nat
         /\ T \subseteq S => Cardinality(T) <= Cardinality(S)
         /\ \A x : T \subseteq S \union {x} => Cardinality(T) <= Cardinality(S) + 1
<1>1. IsFiniteSet(S) /\ IsFiniteSet(T)
  BY QueueAssumption, FS_Subset
<1>2. Cardinality(S) \in Nat /\ Cardinality(T) \in Nat
  BY <1>1, FS_CardinalityType
<1>3. T \subseteq S => Cardinality(T) <= Cardinality(S)
  BY <1>1, FS_Subset
<1>4. ASSUME NEW x, T \subseteq S \union {x} PROVE Cardinality(T) <= Cardinality(S) + 1
  <2>1. IsFiniteSet(S \union {x}) /\ Cardinality(S \union {x}) <= Cardinality(S) + 1
    <3>1. CASE x \in S
      <4>1. S \union {x} = S
        BY <3>1
      <4> QED
        BY <1>1, <1>2, <4>1
    <3>2. CASE x \notin S
      <4>1. IsFiniteSet(S \union {x}) /\ Cardinality(S \union {x}) = Cardinality(S) + 1
        BY <1>1, <3>2, FS_AddElement
      <4> QED
        BY <1>2, <4>1
    <3> QED
      BY <3>1, <3>2
  <2>2. Cardinality(T) <= Cardinality(S \union {x}) /\ Cardinality(S \union {x}) \in Nat
    BY <1>4, <2>1, FS_Subset, FS_CardinalityType
  <2> QED
    BY <1>2, <2>1, <2>2
<1> QED
  BY <1>2, <1>3, <1>4

-----------------------------------------------------------------------------
\* What a gateway has in hand, step by step of its round.
Hand(g) ==
  /\ item[g] = NoEvent <=> pc[g] \in {"idle", "take", "fallback"}
  /\ pc[g] \notin {"remove", "push"} => plan[g] = "none"
  /\ pc[g] = "remove" => plan[g] # "none"
  /\ pc[g] = "push" => plan[g] \notin {"none", "done"} /\ item[g] \notin processing

\* An event still to be delivered is in one place: with its request handler,
\* in the queue, in the hands of one gateway or in the dead letters.
OneCopyOf(e) ==
  /\ e \notin Range(queue) \/ e \notin dlq
  /\ e \in Range(queue) \union dlq \/ stage[e] # "out" => \A g \in Gateways : item[g] # e
  /\ stage[e] # "out" => e \notin Range(queue) \union dlq
  /\ \A g, h \in Gateways : item[g] = e /\ item[h] = e => g = h

\* The attempts stored with an event are the POSTs drains made of it ...
TallyOf(e) ==
  /\ posts[e] <= MaxAttempts
  /\ stage[e] # "out" => posts[e] = 0 /\ attempts[e] = 0
  /\ e \in Range(queue) => posts[e] = attempts[e]
  /\ e \in dlq => posts[e] = MaxAttempts

\* ... less the one a gateway has made and not yet written back.
TallyAt(g) ==
  /\ item[g] # NoEvent => posts[item[g]] = IF plan[g] \in {"done", "retry"}
                                           THEN attempts[item[g]] + 1 ELSE attempts[item[g]]
  /\ pc[g] = "post" => attempts[item[g]] < MaxAttempts
  /\ plan[g] = "discard" => attempts[item[g]] = MaxAttempts

\* Entries of an event that may be posted again are accounted for by late
\* answers and faults ...
EntriesOf(e) ==
  /\ recorded[e] <= 1 + timeouts[e] + faults
  /\ stage[e] # "out" \/ e \in Range(queue) => recorded[e] <= timeouts[e] + faults

\* ... and a gateway that means to drop one saw its entry.
EntriesAt(g) ==
  /\ item[g] # NoEvent /\ plan[g] # "done" => recorded[item[g]] <= timeouts[item[g]] + faults
  /\ plan[g] = "done" => recorded[item[g]] > 0

GatewaysSound == \A g \in Gateways : Hand(g) /\ TallyAt(g) /\ EntriesAt(g)
EventsSound == \A e \in Events : OneCopyOf(e) /\ TallyOf(e) /\ EntriesOf(e)

Known == TypeOK /\ OnceIn(queue) /\ GatewaysSound /\ EventsSound

IInv == Known /\ OneFaultOneEvent /\ OneFaultOneLeftover

-----------------------------------------------------------------------------
\* Only the gateways in G go on in their rounds.
Turns(G) ==
  /\ pc' \in [Gateways -> {"idle", "take", "fallback", "stow", "post", "remove", "push"}]
  /\ item' \in [Gateways -> Events \union {NoEvent}]
  /\ plan' \in [Gateways -> {"none", "putback", "discard", "done", "retry"}]
  /\ \A h \in Gateways \ G : pc'[h] = pc[h] /\ item'[h] = item[h] /\ plan'[h] = plan[h]

\* A request handler is through with e, or was cut off.
StageKept(e) == stage'[e] = stage[e] \/ (stage'[e] = "out" /\ stage[e] # "out" /\ e \in cut')

\* Only x moves, and nobody else has it in hand; other events may be cut off
\* with their request handlers.
Moves(G, x) ==
  /\ queue' \in Seq(Events) /\ OnceIn(queue')
  /\ Range(queue') \subseteq Range(queue) \union {x} /\ Range(queue) \subseteq Range(queue') \union {x}
  /\ dlq' \subseteq dlq \union {x} /\ dlq \subseteq dlq'
  /\ dropped \subseteq dropped' /\ cut \subseteq cut' /\ processing' \subseteq processing \union {x}
  /\ \A e \in Events \ {x} :
       /\ StageKept(e) /\ attempts'[e] = attempts[e]
       /\ recorded'[e] = recorded[e] /\ posts'[e] = posts[e] /\ timeouts'[e] = timeouts[e]
  /\ \A g \in G : {item[g], item'[g]} \subseteq {NoEvent, x}
  /\ \A h \in Gateways \ G : item[h] = NoEvent \/ item[h] # x

\* A step costs nothing, or x for one more fault.
Costs(x) ==
  \/ faults' = faults + 1
  \/ /\ faults' >= faults
     /\ x \in Missing' => x \in Missing
     /\ x \in processing' \ Held' => x \in processing \ Held

\* A set of events that grows with the faults.
LEMMA Budget ==
  ASSUME NEW S \in SUBSET Events, NEW T \in SUBSET Events, NEW x, T \subseteq S \union {x},
         NEW m \in Nat, NEW n \in Nat, Cardinality(S) <= m,
         n = m + 1 \/ (n >= m /\ (x \in T => x \in S))
  PROVE  Cardinality(T) <= n
<1>1. Cardinality(S) \in Nat /\ Cardinality(T) \in Nat
  BY OneMore
<1>2. CASE n = m + 1
  <2>1. Cardinality(T) <= Cardinality(S) + 1
    BY OneMore
  <2> QED
    BY <1>1, <1>2, <2>1
<1>3. CASE n >= m /\ (x \in T => x \in S)
  <2>1. T \subseteq S
    BY <1>3
  <2>2. Cardinality(T) <= Cardinality(S)
    BY <2>1, OneMore
  <2> QED
    BY <1>1, <1>3, <2>2
<1> QED
  BY <1>2, <1>3

\* A step that is sound where it happens is sound.
LEMMA Elsewhere ==
  ASSUME IInv, TypeOK', NEW G \in SUBSET Gateways, NEW x \in Events \union {NoEvent},
         Turns(G), Moves(G, x), Costs(x),
         \A g \in G : Hand(g)' /\ TallyAt(g)' /\ EntriesAt(g)',
         x \in Events => OneCopyOf(x)' /\ TallyOf(x)' /\ EntriesOf(x)'
  PROVE  IInv'
<1> USE DEF IInv, Known
<1>1. faults \in Nat /\ faults' \in Nat /\ faults' >= faults /\ NoEvent \notin Events
  BY QueueAssumption DEF TypeOK, Costs
<1>2. ASSUME NEW h \in Gateways PROVE Hand(h)' /\ TallyAt(h)' /\ EntriesAt(h)'
  <2>1. CASE h \in G
    BY <2>1
  <2>2. CASE h \notin G
    <3>1. /\ pc'[h] = pc[h] /\ item'[h] = item[h] /\ plan'[h] = plan[h]
          /\ item[h] = NoEvent \/ item[h] \in Events \ {x}
      BY <2>2 DEF Turns, Moves, TypeOK
    <3>2. Hand(h) /\ TallyAt(h) /\ EntriesAt(h)
      BY DEF GatewaysSound
    <3>3. Hand(h)'
      BY <3>1, <3>2 DEF Hand, Moves
    <3>4. TallyAt(h)'
      BY <3>1, <3>2 DEF Hand, TallyAt, Moves
    <3>5. CASE item[h] = NoEvent
      BY <3>1, <3>2, <3>3, <3>4, <3>5 DEF Hand, EntriesAt
    <3>6. CASE item[h] # NoEvent
      <4>1. /\ recorded'[item[h]] = recorded[item[h]] /\ timeouts'[item[h]] = timeouts[item[h]]
            /\ recorded[item[h]] \in Nat /\ timeouts[item[h]] \in Nat
        BY <3>1, <3>6 DEF Moves, TypeOK
      <4> QED
        BY <1>1, <3>1, <3>2, <3>3, <3>4, <4>1 DEF EntriesAt
    <3> QED
      BY <3>5, <3>6
  <2> QED
    BY <2>1, <2>2
<1>3. ASSUME NEW e \in Events PROVE OneCopyOf(e)' /\ TallyOf(e)' /\ EntriesOf(e)'
  <2>1. CASE e = x
    BY <2>1
  <2>2. CASE e # x
    <3>1. /\ e \in Range(queue') <=> e \in Range(queue)
          /\ e \in dlq' <=> e \in dlq
          /\ stage'[e] # "out" => stage[e] # "out"
          /\ stage'[e] # "out" => stage'[e] = stage[e] /\ attempts'[e] = attempts[e]
          /\ attempts'[e] = attempts[e]
          /\ recorded'[e] = recorded[e] /\ posts'[e] = posts[e] /\ timeouts'[e] = timeouts[e]
      BY <2>2 DEF Moves, StageKept
    <3>2. OneCopyOf(e) /\ TallyOf(e) /\ EntriesOf(e)
      BY DEF EventsSound
    <3>3. \A h \in Gateways : item'[h] = e => item[h] = e
      BY <1>1, <2>2 DEF Turns, Moves
    <3>4. OneCopyOf(e)'
      BY <3>1, <3>2, <3>3 DEF OneCopyOf
    <3>5. TallyOf(e)'
      BY <3>1, <3>2 DEF TallyOf
    <3>6. recorded[e] \in Nat /\ timeouts[e] \in Nat
      BY DEF TypeOK
    <3>7. EntriesOf(e)'
      BY <1>1, <3>1, <3>2, <3>6 DEF EntriesOf
    <3> QED
      BY <3>4, <3>5, <3>7
  <2> QED
    BY <2>1, <2>2
<1>4. Known'
  BY <1>2, <1>3 DEF GatewaysSound, EventsSound, Moves
<1>5. Held \subseteq Held' \union {x} /\ Held' \subseteq Held \union {x}
  BY DEF Turns, Moves, Held
<1>6. Missing' \subseteq Missing \union {x}
  <2>1. ASSUME NEW e \in Missing', e # x PROVE e \in Missing
    <3>1. /\ e \in Events /\ stage'[e] = "out" /\ recorded'[e] = 0
          /\ e \notin Range(queue') \union Held' \union dlq' \union dropped' \union cut'
      BY <2>1 DEF Missing
    <3>2. stage[e] = "out" /\ recorded[e] = 0
      BY <2>1, <3>1 DEF Moves, StageKept
    <3>3. e \notin Range(queue) \union Held \union dlq \union dropped \union cut
      BY <1>5, <2>1, <3>1 DEF Moves
    <3> QED
      BY <3>1, <3>2, <3>3 DEF Missing
  <2> QED
    BY <2>1
<1>7. processing' \ Held' \subseteq (processing \ Held) \union {x}
  BY <1>5 DEF Moves
<1>8. Cardinality(Missing') <= faults'
  <2>1. Missing \in SUBSET Events /\ Missing' \in SUBSET Events /\ Cardinality(Missing) <= faults
    BY DEF Missing, OneFaultOneEvent
  <2> QED
    BY <1>1, <1>6, <2>1, Budget DEF Costs
<1>9. Cardinality(processing' \ Held') <= faults'
  <2>1. /\ processing \ Held \in SUBSET Events /\ processing' \ Held' \in SUBSET Events
        /\ Cardinality(processing \ Held) <= faults
    BY DEF TypeOK, OneFaultOneLeftover
  <2> QED
    BY <1>1, <1>7, <2>1, Budget DEF Costs
<1> QED
  BY <1>4, <1>8, <1>9 DEF OneFaultOneEvent, OneFaultOneLeftover

-----------------------------------------------------------------------------
\* A gateway has put down what it had in hand.
Free(g) == pc'[g] \in {"idle", "take", "fallback"} /\ item'[g] = NoEvent /\ plan'[g] = "none"

\* It has an event in hand and knows what to do with it.
Holds(g, e) ==
  /\ item'[g] = e
  /\ \/ pc'[g] = "post" /\ plan'[g] = "none" /\ attempts[e] < MaxAttempts
     \/ pc'[g] = "remove" /\ plan'[g] = "putback"
     \/ pc'[g] = "remove" /\ plan'[g] = "discard" /\ attempts[e] = MaxAttempts

\* A gateway that goes on empty-handed has put its event down.
LEMMA Advancing ==
  ASSUME TypeOK, NEW g \in Gateways, NEW step \in {"idle", "take", "fallback"}, Advance(g, step)
  PROVE  Turns({g}) /\ Free(g)
  BY DEF TypeOK, Advance, Turns, Free

\* After Hold a gateway has the event in hand and its plan made.
LEMMA Holding ==
  ASSUME TypeOK, NEW g \in Gateways, NEW e \in Events, Hold(g, e)
  PROVE  Turns({g}) /\ Holds(g, e)
<1>1. attempts[e] \in 0..MaxAttempts /\ MaxAttempts \in Nat
  BY QueueAssumption DEF TypeOK
<1>2. Exhausted(e) <=> attempts[e] = MaxAttempts
  BY <1>1 DEF Exhausted
<1>3. Turns({g})
  BY DEF TypeOK, Hold, Turns
<1>4. /\ item'[g] = e
      /\ pc'[g] = IF due[e] /\ ~Exhausted(e) THEN "post" ELSE "remove"
      /\ plan'[g] = IF ~due[e] THEN "putback" ELSE IF Exhausted(e) THEN "discard" ELSE "none"
  BY DEF TypeOK, Hold
<1> QED
  BY <1>1, <1>2, <1>3, <1>4 DEF Holds

\* More faults excuse no less.
LEMMA EntriesKept ==
  ASSUME TypeOK, TypeOK', NEW x \in Events, EntriesOf(x), faults' >= faults,
         recorded'[x] = recorded[x], timeouts'[x] = timeouts[x],
         stage'[x] # "out" \/ x \in Range(queue') => recorded[x] <= timeouts[x] + faults
  PROVE  EntriesOf(x)'
<1>1. /\ recorded[x] \in Nat /\ timeouts[x] \in Nat /\ faults \in Nat /\ faults' \in Nat
      /\ recorded[x] <= 1 + timeouts[x] + faults
  BY QueueAssumption DEF TypeOK, EntriesOf
<1> QED
  BY <1>1 DEF EntriesOf

\* What a POST of an event adds.
LEMMA Posting ==
  ASSUME TypeOK, NEW e \in Events, NEW answer \in {"ok", "refused", "late"}, Posted(e, answer)
  PROVE  /\ recorded' \in [Events -> Nat] /\ timeouts' \in [Events -> Nat]
         /\ \A x \in Events \ {e} : recorded'[x] = recorded[x] /\ timeouts'[x] = timeouts[x]
         /\ recorded'[e] = recorded[e] + IF answer = "refused" THEN 0 ELSE 1
         /\ timeouts'[e] = timeouts[e] + IF answer = "late" THEN 1 ELSE 0
<1>1. recorded[e] \in Nat /\ timeouts[e] \in Nat
  BY DEF TypeOK
<1>2. CASE answer = "ok"
  BY <1>1, <1>2 DEF TypeOK, Posted
<1>3. CASE answer = "late"
  BY <1>1, <1>3 DEF TypeOK, Posted
<1>4. CASE answer = "refused"
  BY <1>1, <1>4 DEF TypeOK, Posted
<1> QED
  BY <1>2, <1>3, <1>4

\* A call that works or fails: the faults stay within their bound.
LEMMA Charged ==
  ASSUME TypeOK, NEW out \in Outcomes, Charge(out)
  PROVE  /\ faults \in Nat /\ faults' \in 0..MaxFaults
         /\ faults' = IF out = "ok" THEN faults ELSE faults + 1
  BY QueueAssumption DEF TypeOK, Charge

-----------------------------------------------------------------------------
\* The invariant holds before any request.
LEMMA Initially == Init => IInv
<1> SUFFICES ASSUME Init PROVE IInv
  OBVIOUS
<1>1. Range(queue) = {} /\ OnceIn(queue) /\ queue \in Seq(Events)
  BY DEF Init, Range, OnceIn
<1>2. TypeOK
  BY <1>1, QueueAssumption DEF Init, TypeOK
<1>3. GatewaysSound
  BY QueueAssumption DEF Init, GatewaysSound, Hand, TallyAt, EntriesAt
<1>4. EventsSound
  BY <1>1, QueueAssumption DEF Init, EventsSound, OneCopyOf, TallyOf, EntriesOf
<1>5. Missing = {} /\ processing \ Held = {}
  BY DEF Init, Missing
<1>6. /\ Cardinality(Missing) = 0 /\ Cardinality(processing \ Held) = 0
      /\ faults = 0
  BY <1>5, FS_EmptySet DEF Init
<1> QED
  BY <1>1, <1>2, <1>3, <1>4, <1>5, <1>6 DEF IInv, Known, OneFaultOneEvent, OneFaultOneLeftover

\* The first POST is recorded or left to the retry queue.
LEMMA FinishKeeps ==
  ASSUME IInv, NEW e \in Events, NEW answer \in {"ok", "refused", "late"}, Finish(e, answer)
  PROVE  IInv'
<1> USE QueueAssumption DEF IInv, Known, Outcomes
<1>1. /\ recorded' \in [Events -> Nat] /\ timeouts' \in [Events -> Nat]
      /\ \A y \in Events \ {e} : recorded'[y] = recorded[y] /\ timeouts'[y] = timeouts[y]
      /\ recorded'[e] = recorded[e] + IF answer = "refused" THEN 0 ELSE 1
      /\ timeouts'[e] = timeouts[e] + IF answer = "late" THEN 1 ELSE 0
  BY Posting DEF Finish
<1>2. /\ stage[e] = "new" /\ stage' \in [Events -> {"new", "failed", "measured", "out"}]
      /\ \A y \in Events \ {e} : stage'[y] = stage[y]
  BY DEF TypeOK, Finish
<1>3. stage'[e] = IF answer = "ok" THEN "out" ELSE "failed"
  BY DEF TypeOK, Finish
<1>4. UNCHANGED <<dropped, cut, queue, processing, dlq, attempts, due, pc, item, plan, posts, faults>>
  BY DEF Finish, handler, lists, stored, drain, service
<1>a. TypeOK /\ OnceIn(queue)
  OBVIOUS
<1> USE <1>1, <1>2, <1>3, <1>4, <1>a
<1> HIDE DEF IInv, Known
<1>5. TypeOK'
  BY DEF TypeOK
<1>6. Turns({})
  BY DEF TypeOK, Turns
<1>7. /\ OneCopyOf(e) /\ TallyOf(e) /\ EntriesOf(e)
      /\ recorded[e] \in Nat /\ timeouts[e] \in Nat /\ posts[e] \in Nat
      /\ attempts[e] \in Nat /\ faults \in Nat
  BY <1>6 DEF TypeOK, EventsSound, IInv, Known
<1>8. Moves({}, e)
  BY <1>6, <1>7 DEF OneCopyOf, TypeOK, Moves, StageKept
<1>9. Costs(e)
  BY SMTT(40), <1>6, <1>7 DEF TypeOK, Costs, Missing, Held
<1>10. OneCopyOf(e)'
  BY <1>6, <1>7 DEF OneCopyOf
<1>11. TallyOf(e)'
  BY <1>6, <1>7 DEF OneCopyOf, TallyOf
<1>12. EntriesOf(e)'
  BY <1>6, <1>7 DEF OneCopyOf, EntriesOf
<1> QED
  BY <1>5, <1>6, <1>7, <1>8, <1>9, <1>10, <1>11, <1>12, Elsewhere

\* An event that is not queued is refused by a full queue or taken by a fault.
LEMMA MeasureKeeps ==
  ASSUME IInv, NEW e \in Events, NEW out \in Outcomes, Measure(e, out)
  PROVE  IInv'
<1> USE QueueAssumption DEF IInv, Known, Outcomes
<1>1. /\ faults \in Nat /\ faults' \in 0..MaxFaults
      /\ faults' = IF out = "ok" THEN faults ELSE faults + 1
  BY Charged DEF Measure
<1>2. /\ stage[e] = "failed" /\ stage' \in [Events -> {"new", "failed", "measured", "out"}]
      /\ \A y \in Events \ {e} : stage'[y] = stage[y]
  BY DEF TypeOK, Measure
<1>3. stage'[e] = IF out = "ok" /\ ~(Len(queue) >= MaxQueue) THEN "measured" ELSE "out"
  BY DEF TypeOK, Measure
<1>4. out = "ok" /\ Len(queue) >= MaxQueue => e \in (dropped')
  BY DEF Measure
<1>5. dropped' \subseteq dropped \union {e} /\ dropped \subseteq (dropped')
  BY DEF Measure
<1>6. UNCHANGED <<cut, queue, processing, dlq, attempts, due, pc, item, plan, recorded, posts, timeouts>>
  BY DEF Measure, handler, lists, stored, drain, service
<1>a. TypeOK /\ OnceIn(queue)
  OBVIOUS
<1> USE <1>1, <1>2, <1>3, <1>4, <1>5, <1>6, <1>a
<1> HIDE DEF IInv, Known
<1>7. TypeOK'
  BY DEF TypeOK
<1>8. Turns({})
  BY DEF TypeOK, Turns
<1>9. /\ OneCopyOf(e) /\ TallyOf(e) /\ EntriesOf(e)
      /\ recorded[e] \in Nat /\ timeouts[e] \in Nat /\ posts[e] \in Nat
      /\ attempts[e] \in Nat /\ faults \in Nat
  BY <1>8 DEF TypeOK, EventsSound, IInv, Known
<1>10. Moves({}, e)
  BY <1>8, <1>9 DEF OneCopyOf, TypeOK, Moves, StageKept
<1>11. Costs(e)
  BY <1>8, <1>9 DEF TypeOK, Costs, Missing, Held
<1>12. OneCopyOf(e)'
  BY <1>8, <1>9 DEF OneCopyOf
<1>13. TallyOf(e)'
  BY <1>8, <1>9 DEF OneCopyOf, TallyOf
<1>14. EntriesOf(e)'
  <2>1. stage'[e] # "out" \/ e \in Range(queue') => recorded[e] <= timeouts[e] + faults
    BY <1>8, <1>9 DEF OneCopyOf, EntriesOf
  <2>2. faults' >= faults /\ recorded'[e] = recorded[e] /\ timeouts'[e] = timeouts[e]
    OBVIOUS
  <2> QED
    BY <1>7, <1>8, <1>9, <2>1, <2>2, EntriesKept
<1> QED
  BY <1>7, <1>8, <1>9, <1>10, <1>11, <1>12, <1>13, <1>14, Elsewhere

\* RPUSH of a new event.
LEMMA StoreKeeps ==
  ASSUME IInv, NEW e \in Events, NEW out \in Outcomes, Store(e, out)
  PROVE  IInv'
<1> USE QueueAssumption DEF IInv, Known, Outcomes
<1>1. /\ faults \in Nat /\ faults' \in 0..MaxFaults
      /\ faults' = IF out = "ok" THEN faults ELSE faults + 1
  BY Charged DEF Store
<1>2. /\ stage[e] = "measured" /\ stage' \in [Events -> {"new", "failed", "measured", "out"}]
      /\ \A y \in Events \ {e} : stage'[y] = stage[y]
  BY DEF TypeOK, Store
<1>3. stage'[e] = "out"
  BY DEF TypeOK, Store
<1>4. OneCopyOf(e) /\ EntriesOf(e) /\ TallyOf(e)
  BY DEF EventsSound
<1>5. /\ queue' \in Seq(Events) /\ OnceIn(queue')
      /\ Range(queue') = IF out = "void" THEN Range(queue) ELSE Range(queue) \union {e}
  BY <1>2, <1>4, Pushed DEF TypeOK, OneCopyOf, Store
<1>6. UNCHANGED <<dropped, cut, processing, dlq, attempts, due, pc, item, plan, recorded, posts, timeouts>>
  BY DEF Store, handler, lists, stored, drain, service
<1>a. TypeOK /\ OnceIn(queue)
  OBVIOUS
<1> USE <1>1, <1>2, <1>3, <1>4, <1>5, <1>6, <1>a
<1> HIDE DEF IInv, Known
<1>7. TypeOK'
  BY DEF TypeOK
<1>8. Turns({})
  BY DEF TypeOK, Turns
<1>9. /\ OneCopyOf(e) /\ TallyOf(e) /\ EntriesOf(e)
      /\ recorded[e] \in Nat /\ timeouts[e] \in Nat /\ posts[e] \in Nat
      /\ attempts[e] \in Nat /\ faults \in Nat
  BY <1>8 DEF TypeOK, EventsSound, IInv, Known
<1>10. Moves({}, e)
  BY <1>8, <1>9 DEF OneCopyOf, TypeOK, Moves, StageKept
<1>11. Costs(e)
  BY <1>8, <1>9 DEF TypeOK, Costs, Missing, Held
<1>12. OneCopyOf(e)'
  BY <1>8, <1>9 DEF OneCopyOf
<1>13. TallyOf(e)'
  BY <1>8, <1>9 DEF OneCopyOf, TallyOf
<1>14. EntriesOf(e)'
  <2>1. stage'[e] # "out" \/ e \in Range(queue') => recorded[e] <= timeouts[e] + faults
    BY <1>8, <1>9 DEF OneCopyOf, EntriesOf
  <2>2. faults' >= faults /\ recorded'[e] = recorded[e] /\ timeouts'[e] = timeouts[e]
    OBVIOUS
  <2> QED
    BY <1>7, <1>8, <1>9, <2>1, <2>2, EntriesKept
<1> QED
  BY <1>7, <1>8, <1>9, <1>10, <1>11, <1>12, <1>13, <1>14, Elsewhere

\* A round starts.
LEMMA StartKeeps ==
  ASSUME IInv, NEW g \in Gateways, Start(g)
  PROVE  IInv'
<1> USE QueueAssumption DEF IInv, Known, Outcomes
<1>1. Turns({g}) /\ pc[g] = "idle" /\ pc'[g] = "take"
  BY DEF TypeOK, Turns, Start, handler, lists, stored, drain, service
<1>2. UNCHANGED <<stage, dropped, cut, queue, processing, dlq, attempts, due, item, plan, recorded, posts, timeouts, faults>>
  BY DEF Start, handler, lists, stored, drain, service
<1>3. Hand(g) /\ TallyAt(g) /\ EntriesAt(g)
  BY DEF GatewaysSound
<1>a. TypeOK /\ OnceIn(queue)
  OBVIOUS
<1> USE <1>1, <1>2, <1>3, <1>a
<1> HIDE DEF IInv, Known
<1>4. TypeOK'
  BY DEF TypeOK, Turns
<1>5. Moves({g}, NoEvent)
  BY DEF Hand, Turns, Free, Holds, OneCopyOf, TypeOK, Moves, StageKept
<1>6. Costs(NoEvent)
  BY DEF Hand, Turns, Free, Holds, EntriesAt, TypeOK, Costs, Missing, Held
<1>7. Hand(g)'
  BY DEF Hand, Free, Holds
<1>8. TallyAt(g)'
  BY DEF Hand, TallyAt, TallyOf, Free, Holds
<1>9. EntriesAt(g)'
  BY DEF Hand, EntriesAt, EntriesOf, Free, Holds
<1> QED
  BY <1>4, <1>5, <1>6, <1>7, <1>8, <1>9, Elsewhere

\* LMOVE hands one event of the queue to one gateway.
LEMMA TakeKeeps ==
  ASSUME IInv, NEW g \in Gateways, NEW out \in Outcomes, Take(g, out)
  PROVE  IInv'
<1> USE QueueAssumption DEF IInv, Known, Outcomes
<1>1. /\ faults \in Nat /\ faults' \in 0..MaxFaults
      /\ faults' = IF out = "ok" THEN faults ELSE faults + 1
  BY Charged DEF Take
<1>2. queue # <<>> => Last(queue) \in Range(queue) /\ Last(queue) \in Events
  BY MovedRight, Listed DEF TypeOK
<1>3. queue # <<>> /\ out # "void" =>
        /\ queue' \in Seq(Events) /\ OnceIn(queue') /\ Last(queue) \notin Range(queue')
        /\ Range(queue') \subseteq Range(queue) /\ Range(queue) \subseteq Range(queue') \union {Last(queue)}
  BY SMTT(40), MovedRight DEF TypeOK, Take
<1>4. queue = <<>> \/ out = "void" => queue' = queue
  BY DEF Take
<1>5. /\ pc[g] = "take" /\ Turns({g})
      /\ IF out = "ok" /\ queue # <<>> THEN Holds(g, Last(queue)) ELSE Free(g)
  BY <1>2, Advancing, Holding DEF Take
<1>6. processing' = IF queue = <<>> \/ out = "void" THEN processing
                     ELSE processing \union {Last(queue)}
  BY DEF Take
<1>7. UNCHANGED <<stage, dropped, cut, dlq, attempts, due, recorded, posts, timeouts>>
  BY DEF Take, handler, lists, stored, drain, service
<1>8. Hand(g) /\ TallyAt(g) /\ EntriesAt(g)
  BY DEF GatewaysSound
<1>a. TypeOK /\ OnceIn(queue)
  OBVIOUS
<1> USE <1>1, <1>2, <1>3, <1>4, <1>5, <1>6, <1>7, <1>8, <1>a
<1> HIDE DEF IInv, Known
<1>9. TypeOK'
  BY DEF TypeOK, Turns
<1>10. CASE queue = <<>> \/ out = "void"
  <2>1. Moves({g}, NoEvent)
    BY <1>10 DEF Hand, Turns, Free, Holds, OneCopyOf, TypeOK, Moves, StageKept
  <2>2. Costs(NoEvent)
    BY <1>10 DEF Hand, Turns, Free, Holds, EntriesAt, TypeOK, Costs, Missing, Held
  <2>3. Hand(g)'
    BY <1>10 DEF Hand, Free, Holds
  <2>4. TallyAt(g)'
    BY <1>10 DEF Hand, TallyAt, TallyOf, Free, Holds
  <2>5. EntriesAt(g)'
    BY <1>10 DEF Hand, EntriesAt, EntriesOf, Free, Holds
  <2> QED
    BY <1>9, <1>10, <2>1, <2>2, <2>3, <2>4, <2>5, Elsewhere
<1>11. CASE queue # <<>> /\ out # "void"
  <2>1. PICK x \in Events : x = Last(queue)
    BY <1>11 DEF TypeOK
  <2>2. /\ OneCopyOf(x) /\ TallyOf(x) /\ EntriesOf(x)
        /\ recorded[x] \in Nat /\ timeouts[x] \in Nat /\ posts[x] \in Nat
        /\ attempts[x] \in Nat /\ faults \in Nat
    BY <1>11, <2>1 DEF TypeOK, EventsSound, IInv, Known
  <2>3. Moves({g}, x)
    BY <1>11, <2>1, <2>2 DEF Hand, Turns, Free, Holds, OneCopyOf, TypeOK, Moves, StageKept
  <2>4. Costs(x)
    BY SMTT(40), <1>11, <2>1, <2>2 DEF Hand, Turns, Free, Holds, EntriesAt, TypeOK, Costs, Missing, Held
  <2>5. Hand(g)'
    BY <1>11, <2>1, <2>2 DEF Hand, Free, Holds
  <2>6. TallyAt(g)'
    BY <1>11, <2>1, <2>2 DEF Hand, TallyAt, TallyOf, Free, Holds
  <2>7. EntriesAt(g)'
    BY <1>11, <2>1, <2>2 DEF Hand, EntriesAt, EntriesOf, Free, Holds
  <2>8. OneCopyOf(x)'
    BY <1>11, <2>1, <2>2 DEF Hand, Turns, Free, Holds, OneCopyOf
  <2>9. TallyOf(x)'
    BY <1>11, <2>1, <2>2 DEF Hand, TallyAt, Free, Holds, OneCopyOf, TallyOf
  <2>10. EntriesOf(x)'
    <3>1. stage'[x] # "out" \/ x \in Range(queue') => recorded[x] <= timeouts[x] + faults
      BY <1>11, <2>1, <2>2 DEF Hand, EntriesAt, OneCopyOf, EntriesOf, Free, Holds
    <3>2. faults' >= faults /\ recorded'[x] = recorded[x] /\ timeouts'[x] = timeouts[x]
      OBVIOUS
    <3> QED
      BY <1>9, <1>11, <2>1, <2>2, <3>1, <3>2, EntriesKept
  <2> QED
    BY <1>9, <1>11, <2>1, <2>2, <2>3, <2>4, <2>5, <2>6, <2>7, <2>8, <2>9, <2>10, Elsewhere
<1> QED
  BY <1>10, <1>11

\* LPOP hands one event of the queue to one gateway.
LEMMA PopLeftKeeps ==
  ASSUME IInv, NEW g \in Gateways, NEW out \in Outcomes, PopLeft(g, out)
  PROVE  IInv'
<1> USE QueueAssumption DEF IInv, Known, Outcomes
<1>1. /\ faults \in Nat /\ faults' \in 0..MaxFaults
      /\ faults' = IF out = "ok" THEN faults ELSE faults + 1
  BY Charged DEF PopLeft
<1>2. queue # <<>> => Head(queue) \in Range(queue) /\ Head(queue) \in Events
  BY PoppedLeft, Listed DEF TypeOK
<1>3. queue # <<>> /\ out # "void" =>
        /\ queue' \in Seq(Events) /\ OnceIn(queue') /\ Head(queue) \notin Range(queue')
        /\ Range(queue') \subseteq Range(queue) /\ Range(queue) \subseteq Range(queue') \union {Head(queue)}
  BY PoppedLeft DEF TypeOK, PopLeft
<1>4. queue = <<>> \/ out = "void" => queue' = queue
  BY DEF PopLeft
<1>5. /\ pc[g] = "fallback" /\ Turns({g})
      /\ IF out = "ok" /\ queue # <<>>
         THEN item'[g] = Head(queue) /\ pc'[g] = "stow" /\ plan'[g] = plan[g]
         ELSE Free(g)
  <2>1. CASE out = "ok" /\ queue # <<>>
    BY ZenonT(60), <1>2, <2>1 DEF TypeOK, Turns, PopLeft
  <2>2. CASE ~(out = "ok" /\ queue # <<>>)
    BY <2>2, Advancing DEF PopLeft
  <2> QED
    BY <2>1, <2>2
<1>6. UNCHANGED <<stage, dropped, cut, dlq, attempts, due, recorded, posts, timeouts, processing>>
  BY DEF PopLeft, handler, lists, stored, drain, service
<1>7. Hand(g) /\ TallyAt(g) /\ EntriesAt(g)
  BY DEF GatewaysSound
<1>a. TypeOK /\ OnceIn(queue)
  OBVIOUS
<1> USE <1>1, <1>2, <1>3, <1>4, <1>5, <1>6, <1>7, <1>a
<1> HIDE DEF IInv, Known
<1>8. TypeOK'
  BY DEF TypeOK, Turns
<1>9. CASE queue = <<>> \/ out = "void"
  <2>1. Moves({g}, NoEvent)
    BY <1>9 DEF Hand, Turns, Free, Holds, OneCopyOf, TypeOK, Moves, StageKept
  <2>2. Costs(NoEvent)
    BY <1>9 DEF Hand, Turns, Free, Holds, EntriesAt, TypeOK, Costs, Missing, Held
  <2>3. Hand(g)'
    BY <1>9 DEF Hand, Free, Holds
  <2>4. TallyAt(g)'
    BY <1>9 DEF Hand, TallyAt, TallyOf, Free, Holds
  <2>5. EntriesAt(g)'
    BY <1>9 DEF Hand, EntriesAt, EntriesOf, Free, Holds
  <2> QED
    BY <1>8, <1>9, <2>1, <2>2, <2>3, <2>4, <2>5, Elsewhere
<1>10. CASE queue # <<>> /\ out # "void"
  <2>1. PICK x \in Events : x = Head(queue)
    BY <1>10 DEF TypeOK
  <2>2. /\ OneCopyOf(x) /\ TallyOf(x) /\ EntriesOf(x)
        /\ recorded[x] \in Nat /\ timeouts[x] \in Nat /\ posts[x] \in Nat
        /\ attempts[x] \in Nat /\ faults \in Nat
    BY SMTT(40), <1>10, <2>1 DEF TypeOK, EventsSound, IInv, Known
  <2>3. Moves({g}, x)
    BY SMTT(40), <1>10, <2>1, <2>2 DEF Hand, Turns, Free, Holds, OneCopyOf, TypeOK, Moves, StageKept
  <2>4. Costs(x)
    BY SMTT(40), <1>10, <2>1, <2>2 DEF Hand, Turns, Free, Holds, EntriesAt, TypeOK, Costs, Missing, Held
  <2>5. Hand(g)'
    BY <1>10, <2>1, <2>2 DEF Hand, Free, Holds
  <2>6. TallyAt(g)'
    BY <1>10, <2>1, <2>2 DEF Hand, TallyAt, TallyOf, Free, Holds
  <2>7. EntriesAt(g)'
    BY <1>10, <2>1, <2>2 DEF Hand, EntriesAt, EntriesOf, Free, Holds
  <2>8. OneCopyOf(x)'
    BY <1>10, <2>1, <2>2 DEF Hand, Turns, Free, Holds, OneCopyOf
  <2>9. TallyOf(x)'
    BY <1>10, <2>1, <2>2 DEF Hand, TallyAt, Free, Holds, OneCopyOf, TallyOf
  <2>10. EntriesOf(x)'
    <3>1. stage'[x] # "out" \/ x \in Range(queue') => recorded[x] <= timeouts[x] + faults
      BY <1>10, <2>1, <2>2 DEF Hand, EntriesAt, OneCopyOf, EntriesOf, Free, Holds
    <3>2. faults' >= faults /\ recorded'[x] = recorded[x] /\ timeouts'[x] = timeouts[x]
      OBVIOUS
    <3> QED
      BY <1>8, <1>10, <2>1, <2>2, <3>1, <3>2, EntriesKept
  <2> QED
    BY <1>8, <1>10, <2>1, <2>2, <2>3, <2>4, <2>5, <2>6, <2>7, <2>8, <2>9, <2>10, Elsewhere
<1> QED
  BY <1>9, <1>10

\* RPUSH onto the processing list.
LEMMA StowKeeps ==
  ASSUME IInv, NEW g \in Gateways, NEW out \in Outcomes, Stow(g, out)
  PROVE  IInv'
<1> USE QueueAssumption DEF IInv, Known, Outcomes
<1>1. /\ faults \in Nat /\ faults' \in 0..MaxFaults
      /\ faults' = IF out = "ok" THEN faults ELSE faults + 1
  BY Charged DEF Stow
<1>2. pc[g] = "stow" /\ item[g] \in Events
  BY DEF TypeOK, GatewaysSound, Hand, Stow
<1>3. Turns({g}) /\ IF out = "ok" THEN Holds(g, item[g]) ELSE Free(g)
  BY <1>2, Advancing, Holding DEF Stow
<1>4. processing' = IF out = "void" THEN processing ELSE processing \union {item[g]}
  BY DEF Stow
<1>5. UNCHANGED <<stage, dropped, cut, queue, dlq, attempts, due, recorded, posts, timeouts>>
  BY DEF Stow, handler, lists, stored, drain, service
<1>6. Hand(g) /\ TallyAt(g) /\ EntriesAt(g)
  BY DEF GatewaysSound
<1>a. TypeOK /\ OnceIn(queue)
  OBVIOUS
<1> USE <1>1, <1>2, <1>3, <1>4, <1>5, <1>6, <1>a
<1> HIDE DEF IInv, Known
<1>7. TypeOK'
  BY DEF TypeOK, Turns
<1>8. PICK x \in Events : x = item[g]
  BY DEF TypeOK
<1>9. /\ OneCopyOf(x) /\ TallyOf(x) /\ EntriesOf(x)
      /\ recorded[x] \in Nat /\ timeouts[x] \in Nat /\ posts[x] \in Nat
      /\ attempts[x] \in Nat /\ faults \in Nat
  BY <1>8 DEF TypeOK, EventsSound, IInv, Known
<1>10. Moves({g}, x)
  BY <1>8, <1>9 DEF Hand, Turns, Free, Holds, OneCopyOf, TypeOK, Moves, StageKept
<1>11. Costs(x)
  BY <1>8, <1>9 DEF Hand, Turns, Free, Holds, EntriesAt, TypeOK, Costs, Missing, Held
<1>12. Hand(g)'
  BY <1>8, <1>9 DEF Hand, Free, Holds
<1>13. TallyAt(g)'
  BY <1>8, <1>9 DEF Hand, TallyAt, TallyOf, Free, Holds
<1>14. EntriesAt(g)'
  BY <1>8, <1>9 DEF Hand, EntriesAt, EntriesOf, Free, Holds
<1>15. OneCopyOf(x)'
  BY <1>8, <1>9 DEF Hand, Turns, Free, Holds, OneCopyOf
<1>16. TallyOf(x)'
  BY <1>8, <1>9 DEF Hand, TallyAt, Free, Holds, OneCopyOf, TallyOf
<1>17. EntriesOf(x)'
  <2>1. stage'[x] # "out" \/ x \in Range(queue') => recorded[x] <= timeouts[x] + faults
    BY <1>8, <1>9 DEF Hand, EntriesAt, OneCopyOf, EntriesOf, Free, Holds
  <2>2. faults' >= faults /\ recorded'[x] = recorded[x] /\ timeouts'[x] = timeouts[x]
    OBVIOUS
  <2> QED
    BY <1>7, <1>8, <1>9, <2>1, <2>2, EntriesKept
<1> QED
  BY <1>7, <1>8, <1>9, <1>10, <1>11, <1>12, <1>13, <1>14, <1>15, <1>16, <1>17, Elsewhere

\* One more POST of the event in hand.
LEMMA PostKeeps ==
  ASSUME IInv, NEW g \in Gateways, NEW answer \in {"ok", "refused", "late"}, Post(g, answer)
  PROVE  IInv'
<1> USE QueueAssumption DEF IInv, Known, Outcomes
<1>1. pc[g] = "post" /\ item[g] \in Events
  BY DEF TypeOK, GatewaysSound, Hand, Post
<1>2. /\ recorded' \in [Events -> Nat] /\ timeouts' \in [Events -> Nat]
      /\ \A y \in Events \ {item[g]} : recorded'[y] = recorded[y] /\ timeouts'[y] = timeouts[y]
      /\ recorded'[item[g]] = recorded[item[g]] + IF answer = "refused" THEN 0 ELSE 1
      /\ timeouts'[item[g]] = timeouts[item[g]] + IF answer = "late" THEN 1 ELSE 0
  BY <1>1, Posting DEF Post
<1>3. /\ posts' \in [Events -> Nat] /\ posts'[item[g]] = posts[item[g]] + 1
      /\ \A y \in Events \ {item[g]} : posts'[y] = posts[y]
  BY <1>1 DEF TypeOK, Post
<1>4. /\ Turns({g}) /\ item' = item /\ pc'[g] = "remove"
      /\ plan'[g] = IF answer = "ok" THEN "done" ELSE "retry"
  BY DEF TypeOK, Turns, Post
<1>5. UNCHANGED <<stage, dropped, cut, queue, processing, dlq, attempts, due, faults>>
  BY DEF Post, handler, lists, stored, drain, service
<1>6. Hand(g) /\ TallyAt(g) /\ EntriesAt(g)
  BY DEF GatewaysSound
<1>a. TypeOK /\ OnceIn(queue)
  OBVIOUS
<1> USE <1>1, <1>2, <1>3, <1>4, <1>5, <1>6, <1>a
<1> HIDE DEF IInv, Known
<1>7. TypeOK'
  BY DEF TypeOK, Turns
<1>8. PICK x \in Events : x = item[g]
  BY DEF TypeOK
<1>9. /\ OneCopyOf(x) /\ TallyOf(x) /\ EntriesOf(x)
      /\ recorded[x] \in Nat /\ timeouts[x] \in Nat /\ posts[x] \in Nat
      /\ attempts[x] \in Nat /\ faults \in Nat
  BY <1>8 DEF TypeOK, EventsSound, IInv, Known
<1>10. Moves({g}, x)
  BY ZenonT(60), <1>8, <1>9 DEF Hand, Turns, Free, Holds, OneCopyOf, TypeOK, Moves, StageKept
<1>11. Costs(x)
  BY SMTT(40), <1>8, <1>9 DEF Hand, Turns, Free, Holds, EntriesAt, TypeOK, Costs, Missing, Held
<1>12. Hand(g)'
  BY <1>8, <1>9 DEF Hand, Free, Holds
<1>13. TallyAt(g)'
  BY <1>8, <1>9 DEF Hand, TallyAt, TallyOf, Free, Holds
<1>14. EntriesAt(g)'
  BY <1>8, <1>9 DEF Hand, EntriesAt, EntriesOf, Free, Holds
<1>15. OneCopyOf(x)'
  BY <1>8, <1>9 DEF Hand, Turns, Free, Holds, OneCopyOf
<1>16. TallyOf(x)'
  BY <1>8, <1>9 DEF Hand, TallyAt, Free, Holds, OneCopyOf, TallyOf
<1>17. EntriesOf(x)'
  BY <1>8, <1>9 DEF Hand, EntriesAt, Free, Holds, OneCopyOf, EntriesOf
<1> QED
  BY <1>7, <1>8, <1>9, <1>10, <1>11, <1>12, <1>13, <1>14, <1>15, <1>16, <1>17, Elsewhere

\* LREM; an event is put down here only when it was recorded, or by a fault.
LEMMA UnparkKeeps ==
  ASSUME IInv, NEW g \in Gateways, NEW out \in Outcomes, Unpark(g, out)
  PROVE  IInv'
<1> USE QueueAssumption DEF IInv, Known, Outcomes
<1>1. /\ faults \in Nat /\ faults' \in 0..MaxFaults
      /\ faults' = IF out = "ok" THEN faults ELSE faults + 1
  BY Charged DEF Unpark
<1>2. pc[g] = "remove" /\ item[g] \in Events
  BY DEF TypeOK, GatewaysSound, Hand, Unpark
<1>3. /\ Turns({g})
      /\ \/ Free(g) /\ (out # "ok" \/ plan[g] = "done")
         \/ /\ item'[g] = item[g] /\ out # "ok" /\ plan[g] = "done"
            /\ pc'[g] = "remove" /\ plan'[g] = "retry"
         \/ /\ item'[g] = item[g] /\ out = "ok" /\ plan[g] # "done"
            /\ pc'[g] = "push" /\ plan'[g] = plan[g]
  <2>1. CASE out = "ok" /\ plan[g] = "done"
    BY <2>1, Advancing DEF AfterUnpark, Unpark
  <2>2. CASE out = "ok" /\ plan[g] # "done"
    BY <1>2, <2>2 DEF TypeOK, Turns, AfterUnpark, Unpark
  <2>3. CASE out # "ok" /\ plan[g] = "done"
    BY <1>2, <2>3 DEF TypeOK, Turns, AfterFailedUnpark, Unpark
  <2>4. CASE out # "ok" /\ plan[g] # "done"
    BY <2>4, Advancing DEF AfterFailedUnpark, Unpark
  <2> QED
    BY <2>1, <2>2, <2>3, <2>4
<1>4. processing' = IF out = "void" THEN processing ELSE processing \ {item[g]}
  BY DEF Unpark
<1>5. UNCHANGED <<stage, dropped, cut, queue, dlq, attempts, due, recorded, posts, timeouts>>
  BY DEF Unpark, handler, lists, stored, drain, service
<1>6. Hand(g) /\ TallyAt(g) /\ EntriesAt(g)
  BY DEF GatewaysSound
<1>a. TypeOK /\ OnceIn(queue)
  OBVIOUS
<1> USE <1>1, <1>2, <1>3, <1>4, <1>5, <1>6, <1>a
<1> HIDE DEF IInv, Known
<1>7. TypeOK'
  BY DEF TypeOK, Turns
<1>8. PICK x \in Events : x = item[g]
  BY DEF TypeOK
<1>9. /\ OneCopyOf(x) /\ TallyOf(x) /\ EntriesOf(x)
      /\ recorded[x] \in Nat /\ timeouts[x] \in Nat /\ posts[x] \in Nat
      /\ attempts[x] \in Nat /\ faults \in Nat
  BY <1>8 DEF TypeOK, EventsSound, IInv, Known
<1>10. Moves({g}, x)
  BY <1>8, <1>9 DEF Hand, Turns, Free, Holds, OneCopyOf, TypeOK, Moves, StageKept
<1>11. Costs(x)
  BY <1>8, <1>9 DEF Hand, Turns, Free, Holds, EntriesAt, TypeOK, Costs, Missing, Held
<1>12. Hand(g)'
  BY <1>8, <1>9 DEF Hand, Free, Holds
<1>13. TallyAt(g)'
  BY <1>8, <1>9 DEF Hand, TallyAt, TallyOf, Free, Holds
<1>14. EntriesAt(g)'
  BY <1>8, <1>9 DEF Hand, EntriesAt, EntriesOf, Free, Holds
<1>15. OneCopyOf(x)'
  BY <1>8, <1>9 DEF Hand, Turns, Free, Holds, OneCopyOf
<1>16. TallyOf(x)'
  BY <1>8, <1>9 DEF Hand, TallyAt, Free, Holds, OneCopyOf, TallyOf
<1>17. EntriesOf(x)'
  <2>1. stage'[x] # "out" \/ x \in Range(queue') => recorded[x] <= timeouts[x] + faults
    BY <1>8, <1>9 DEF Hand, EntriesAt, OneCopyOf, EntriesOf, Free, Holds
  <2>2. faults' >= faults /\ recorded'[x] = recorded[x] /\ timeouts'[x] = timeouts[x]
    OBVIOUS
  <2> QED
    BY <1>7, <1>8, <1>9, <2>1, <2>2, EntriesKept
<1> QED
  BY <1>7, <1>8, <1>9, <1>10, <1>11, <1>12, <1>13, <1>14, <1>15, <1>16, <1>17, Elsewhere

\* RPUSH of the event in hand to the queue or the dead letters.
LEMMA PushKeeps ==
  ASSUME IInv, NEW g \in Gateways, NEW out \in Outcomes, Push(g, out)
  PROVE  IInv'
<1> USE QueueAssumption DEF IInv, Known, Outcomes
<1>1. /\ faults \in Nat /\ faults' \in 0..MaxFaults
      /\ faults' = IF out = "ok" THEN faults ELSE faults + 1
  BY Charged DEF Push
<1>2. pc[g] = "push" /\ item[g] \in Events
  BY DEF TypeOK, GatewaysSound, Hand, Push
<1>3. OneCopyOf(item[g]) /\ TallyOf(item[g]) /\ TallyAt(g) /\ Hand(g)
  BY <1>2 DEF EventsSound, GatewaysSound
<1>4. /\ queue' \in Seq(Events) /\ OnceIn(queue')
      /\ Range(queue') = IF plan[g] # "discard" /\ out # "void"
                         THEN Range(queue) \union {item[g]} ELSE Range(queue)
  BY <1>2, <1>3, Pushed DEF TypeOK, OneCopyOf, Stored, Push
<1>5. Turns({g}) /\ Free(g)
  BY Advancing DEF Push
<1>6. /\ attempts[item[g]] \in Nat /\ posts[item[g]] \in Nat
      /\ \A y \in Events \ {item[g]} : attempts'[y] = attempts[y]
      /\ attempts'[item[g]] = IF plan[g] = "retry" THEN attempts[item[g]] + 1 ELSE attempts[item[g]]
  BY <1>2 DEF TypeOK, Push
<1>7. attempts'[item[g]] \in 0..MaxAttempts
  BY <1>2, <1>3, <1>6 DEF TypeOK, Hand, TallyAt, TallyOf
<1>8. attempts' \in [Events -> 0..MaxAttempts] /\ due' \in [Events -> BOOLEAN]
  BY <1>2, <1>7 DEF TypeOK, Push
<1>9. dlq' = IF plan[g] = "discard" /\ out # "void" THEN dlq \union {item[g]} ELSE dlq
  BY DEF Stored, Push
<1>10. UNCHANGED <<stage, dropped, cut, processing, recorded, posts, timeouts>>
  BY DEF Push, handler, lists, stored, drain, service
<1>11. Hand(g) /\ TallyAt(g) /\ EntriesAt(g)
  BY DEF GatewaysSound
<1>a. TypeOK /\ OnceIn(queue)
  OBVIOUS
<1> USE <1>1, <1>2, <1>3, <1>4, <1>5, <1>6, <1>7, <1>8, <1>9, <1>10, <1>11, <1>a
<1> HIDE DEF IInv, Known
<1>12. TypeOK'
  BY DEF TypeOK, Turns
<1>13. PICK x \in Events : x = item[g]
  BY DEF TypeOK
<1>14. /\ OneCopyOf(x) /\ TallyOf(x) /\ EntriesOf(x)
      /\ recorded[x] \in Nat /\ timeouts[x] \in Nat /\ posts[x] \in Nat
      /\ attempts[x] \in Nat /\ faults \in Nat
  BY <1>13 DEF TypeOK, EventsSound, IInv, Known
<1>15. Moves({g}, x)
  BY SMTT(40), <1>13, <1>14 DEF Hand, Turns, Free, Holds, OneCopyOf, TypeOK, Moves, StageKept
<1>16. Costs(x)
  BY SMTT(40), <1>13, <1>14 DEF Hand, Turns, Free, Holds, EntriesAt, TypeOK, Costs, Missing, Held
<1>17. Hand(g)'
  BY <1>13, <1>14 DEF Hand, Free, Holds
<1>18. TallyAt(g)'
  BY <1>13, <1>14 DEF Hand, TallyAt, TallyOf, Free, Holds
<1>19. EntriesAt(g)'
  BY <1>13, <1>14 DEF Hand, EntriesAt, EntriesOf, Free, Holds
<1>20. \A h \in Gateways : item'[h] # x
  BY <1>13, <1>14 DEF OneCopyOf, Turns, Free
<1>21. OneCopyOf(x)'
  BY <1>13, <1>14, <1>20 DEF OneCopyOf, Hand
<1>22. TallyOf(x)'
  BY <1>13, <1>14 DEF Hand, TallyAt, Free, Holds, OneCopyOf, TallyOf
<1>23. EntriesOf(x)'
  <2>1. stage'[x] # "out" \/ x \in Range(queue') => recorded[x] <= timeouts[x] + faults
    BY <1>13, <1>14 DEF Hand, EntriesAt, OneCopyOf, EntriesOf, Free, Holds
  <2>2. faults' >= faults /\ recorded'[x] = recorded[x] /\ timeouts'[x] = timeouts[x]
    OBVIOUS
  <2> QED
    BY <1>12, <1>13, <1>14, <2>1, <2>2, EntriesKept
<1> QED
  BY <1>12, <1>13, <1>14, <1>15, <1>16, <1>17, <1>18, <1>19, <1>20, <1>21, <1>22, <1>23, Elsewhere

\* Only events whose handlers were at work are cut off.
LEMMA InFlightCut ==
  ASSUME TypeOK, NEW g \in Gateways, CutOff(InFlight(g))
  PROVE  /\ stage' \in [Events -> {"new", "failed", "measured", "out"}]
         /\ cut \subseteq cut' /\ cut' \subseteq Events
         /\ \A e \in Events : StageKept(e)
<1>1. /\ \A e \in Events : stage'[e] = IF e \in InFlight(g) THEN "out" ELSE stage[e]
      /\ cut' = cut \union InFlight(g) /\ cut \subseteq Events
  BY DEF CutOff, TypeOK
<1>2. \A e \in InFlight(g) : e \in Events /\ stage[e] # "out"
  BY DEF InFlight
<1>3. stage' \in [Events -> {"new", "failed", "measured", "out"}]
  BY DEF CutOff, TypeOK
<1> QED
  BY <1>1, <1>2, <1>3 DEF StageKept

\* A crash costs the event in hand.
LEMMA CrashKeeps ==
  ASSUME IInv, NEW g \in Gateways, Crash(g)
  PROVE  IInv'
<1> USE QueueAssumption DEF IInv, Known, Outcomes
<1>1. Turns({g}) /\ Free(g)
  BY Advancing DEF Crash
<1>2. faults \in Nat /\ faults' \in 0..MaxFaults /\ faults' = faults + 1
  BY DEF TypeOK, Crash
<1>3. UNCHANGED <<dropped, queue, processing, dlq, attempts, due, recorded, posts, timeouts>>
  BY DEF Crash, lists, stored, service
<1>b. /\ stage' \in [Events -> {"new", "failed", "measured", "out"}]
      /\ cut \subseteq cut' /\ cut' \subseteq Events
      /\ \A e \in Events : StageKept(e)
  BY InFlightCut DEF Crash
<1>4. Hand(g) /\ TallyAt(g) /\ EntriesAt(g)
  BY DEF GatewaysSound
<1>a. TypeOK /\ OnceIn(queue)
  OBVIOUS
<1> USE <1>1, <1>2, <1>3, <1>4, <1>a, <1>b
<1> HIDE DEF IInv, Known
<1>5. TypeOK'
  BY DEF TypeOK, Turns
<1>6. CASE item[g] = NoEvent
  <2>1. Moves({g}, NoEvent)
    BY <1>6 DEF Hand, Turns, Free, Holds, OneCopyOf, TypeOK, Moves
  <2>2. Costs(NoEvent)
    BY DEF Costs
  <2>3. Hand(g)'
    BY <1>6 DEF Hand, Free, Holds
  <2>4. TallyAt(g)'
    BY <1>6 DEF Hand, TallyAt, TallyOf, Free, Holds
  <2>5. EntriesAt(g)'
    BY <1>6 DEF Hand, EntriesAt, EntriesOf, Free, Holds
  <2> QED
    BY <1>5, <1>6, <2>1, <2>2, <2>3, <2>4, <2>5, Elsewhere
<1>7. CASE item[g] # NoEvent
  <2>1. PICK x \in Events : x = item[g]
    BY <1>7 DEF TypeOK
  <2>2. /\ OneCopyOf(x) /\ TallyOf(x) /\ EntriesOf(x)
        /\ recorded[x] \in Nat /\ timeouts[x] \in Nat /\ posts[x] \in Nat
        /\ attempts[x] \in Nat /\ faults \in Nat
    BY <1>7, <2>1 DEF TypeOK, EventsSound, IInv, Known
  <2>a. stage[x] = "out" /\ stage'[x] = "out"
    BY <2>1, <2>2 DEF OneCopyOf, StageKept
  <2>3. Moves({g}, x)
    BY <1>7, <2>1, <2>2 DEF Hand, Turns, Free, Holds, OneCopyOf, TypeOK, Moves
  <2>4. Costs(x)
    BY DEF Costs
  <2>5. Hand(g)'
    BY <1>7, <2>1, <2>2 DEF Hand, Free, Holds
  <2>6. TallyAt(g)'
    BY <1>7, <2>1, <2>2 DEF Hand, TallyAt, TallyOf, Free, Holds
  <2>7. EntriesAt(g)'
    BY <1>7, <2>1, <2>2 DEF Hand, EntriesAt, EntriesOf, Free, Holds
  <2>8. OneCopyOf(x)'
    BY <1>7, <2>1, <2>2, <2>a DEF Hand, Turns, Free, Holds, OneCopyOf
  <2>9. TallyOf(x)'
    BY <1>7, <2>1, <2>2, <2>a DEF Hand, TallyAt, Free, Holds, OneCopyOf, TallyOf
  <2>10. EntriesOf(x)'
    <3>1. stage'[x] # "out" \/ x \in Range(queue') => recorded[x] <= timeouts[x] + faults
      BY <1>7, <2>1, <2>2, <2>a DEF Hand, EntriesAt, OneCopyOf, EntriesOf, Free, Holds
    <3>2. faults' >= faults /\ recorded'[x] = recorded[x] /\ timeouts'[x] = timeouts[x]
      OBVIOUS
    <3> QED
      BY <1>5, <1>7, <2>1, <2>2, <3>1, <3>2, EntriesKept
  <2> QED
    BY <1>5, <1>7, <2>1, <2>2, <2>3, <2>4, <2>5, <2>6, <2>7, <2>8, <2>9, <2>10, Elsewhere
<1> QED
  BY <1>6, <1>7

\* An event that finds the client closed goes with its handler.
LEMMA FindClosedKeeps ==
  ASSUME IInv, NEW e \in Events, FindClosed(e)
  PROVE  IInv'
<1>1. UNCHANGED <<dropped, queue, processing, dlq, attempts, due, recorded, posts, timeouts>>
  BY DEF FindClosed, lists, stored, service
<1>2. UNCHANGED <<pc, item, plan, faults>>
  BY DEF FindClosed, drain
<1>3. TypeOK /\ OnceIn(queue) /\ faults \in Nat
  BY QueueAssumption DEF IInv, Known, TypeOK
<1>4. /\ stage' \in [Events -> {"new", "failed", "measured", "out"}]
      /\ cut \subseteq cut' /\ cut' \subseteq Events
      /\ \A d \in Events : StageKept(d)
  BY <1>3 DEF FindClosed, CutOff, TypeOK, StageKept
<1>5. TypeOK'
  BY <1>1, <1>2, <1>3, <1>4 DEF TypeOK
<1>6. Turns({})
  BY <1>2, <1>3 DEF TypeOK, Turns
<1>7. Moves({}, NoEvent)
  BY <1>1, <1>2, <1>3, <1>4, QueueAssumption DEF TypeOK, Moves
<1>8. Costs(NoEvent)
  BY <1>2, <1>3, <1>5, QueueAssumption DEF TypeOK, Costs, Missing
<1> QED
  BY <1>5, <1>6, <1>7, <1>8, QueueAssumption, Elsewhere

\* Empty lists owe nothing: what was in them has gone with Redis.
LEMMA RestartKeeps ==
  ASSUME IInv, Restart
  PROVE  IInv'
<1> USE DEF IInv, Known
<1>1. /\ UNCHANGED <<dropped, attempts, due, pc, item, plan, recorded, posts, timeouts>>
      /\ queue' = <<>> /\ processing' = {} /\ dlq' = {}
      /\ cut' = cut \union Range(queue) \union dlq
      /\ faults' \in 0..MaxFaults /\ faults' = faults + 1
  BY QueueAssumption DEF Restart, CutOff, drain, stored, service, TypeOK
<1>2. Range(queue') = {} /\ OnceIn(queue') /\ queue' \in Seq(Events)
  BY <1>1 DEF Range, OnceIn
<1>3. \A e \in Events : stage'[e] = stage[e]
  BY DEF Restart, CutOff, EventsSound, OneCopyOf, TypeOK
<1>4. stage' \in [Events -> {"new", "failed", "measured", "out"}]
  BY DEF Restart, CutOff, TypeOK
<1>5. Range(queue) \subseteq Events
  BY Listed DEF TypeOK
<1>6. TypeOK'
  BY <1>1, <1>2, <1>4, <1>5 DEF TypeOK
<1>7. \A g \in Gateways : (item[g] # NoEvent => item[g] \in Events) /\ faults \in Nat
  BY QueueAssumption DEF TypeOK
<1>8. GatewaysSound'
  <2> SUFFICES ASSUME NEW g \in Gateways PROVE Hand(g)' /\ TallyAt(g)' /\ EntriesAt(g)'
    BY DEF GatewaysSound
  <2>1. Hand(g) /\ TallyAt(g) /\ EntriesAt(g)
    BY DEF GatewaysSound
  <2>2. Hand(g)' /\ TallyAt(g)'
    BY <1>1, <2>1 DEF Hand, TallyAt
  <2>3. item[g] # NoEvent => recorded[item[g]] \in Nat /\ timeouts[item[g]] \in Nat
    BY <1>7 DEF TypeOK
  <2>4. EntriesAt(g)'
    BY <1>1, <1>7, <2>1, <2>3 DEF EntriesAt
  <2> QED
    BY <2>2, <2>4
<1>9. EventsSound'
  <2> SUFFICES ASSUME NEW e \in Events PROVE OneCopyOf(e)' /\ TallyOf(e)' /\ EntriesOf(e)'
    BY DEF EventsSound
  <2>1. OneCopyOf(e) /\ TallyOf(e) /\ EntriesOf(e)
    BY DEF EventsSound
  <2>2. OneCopyOf(e)' /\ TallyOf(e)'
    BY <1>1, <1>2, <1>3, <2>1 DEF OneCopyOf, TallyOf
  <2>3. recorded[e] \in Nat /\ timeouts[e] \in Nat /\ faults \in Nat
    BY QueueAssumption DEF TypeOK
  <2>4. EntriesOf(e)'
    BY <1>1, <1>2, <1>3, <2>1, <2>3 DEF EntriesOf
  <2> QED
    BY <2>2, <2>4
<1>10. Missing' \subseteq Missing
  BY <1>1, <1>3 DEF Missing, Held
<1>11. Missing \in SUBSET Events /\ Missing' \in SUBSET Events /\ faults \in Nat
  BY QueueAssumption DEF Missing, TypeOK
<1>12. OneFaultOneEvent'
  <2>1. Cardinality(Missing') <= Cardinality(Missing)
    BY <1>10, <1>11, OneMore
  <2>2. Cardinality(Missing) \in Nat /\ Cardinality(Missing') \in Nat
    BY <1>11, OneMore
  <2> QED
    BY <1>1, <1>11, <2>1, <2>2 DEF OneFaultOneEvent
<1>13. OneFaultOneLeftover'
  <2>1. processing' \ Held' = {}
    BY <1>1
  <2> QED
    BY <1>1, <1>11, <2>1, FS_EmptySet DEF OneFaultOneLeftover
<1> QED
  BY <1>2, <1>6, <1>8, <1>9, <1>12, <1>13

\* Backoffs that run out, and nothing at all.
LEMMA StutterKeeps ==
  ASSUME IInv, (\E e \in Events : ComesDue(e)) \/ UNCHANGED vars
  PROVE  IInv'
<1> USE DEF IInv, Known, vars, ComesDue, handler, lists, stored, drain, service
<1>1. UNCHANGED <<stage, dropped, cut, queue, processing, dlq, attempts, pc, item, plan, recorded, posts, timeouts, faults>>
  OBVIOUS
<1>2. due' \in [Events -> BOOLEAN]
  BY DEF TypeOK
<1>3. TypeOK'
  BY <1>1, <1>2 DEF TypeOK
<1>4. GatewaysSound'
  BY <1>1 DEF GatewaysSound, Hand, TallyAt, EntriesAt
<1>5. EventsSound'
  BY <1>1 DEF EventsSound, OneCopyOf, TallyOf, EntriesOf
<1>6. OneFaultOneEvent' /\ OneFaultOneLeftover'
  BY <1>1 DEF OneFaultOneEvent, OneFaultOneLeftover, Missing, Held
<1> QED
  BY <1>1, <1>3, <1>4, <1>5, <1>6

\* IInv is an invariant.
THEOREM Invariance == Spec => []IInv
<1>1. IInv /\ [Next]_vars => IInv'
  BY FinishKeeps, MeasureKeeps, StoreKeeps, StartKeeps, TakeKeeps, PopLeftKeeps,
     StowKeeps, PostKeeps, UnparkKeeps, PushKeeps, CrashKeeps, StutterKeeps, FindClosedKeeps, RestartKeeps
  DEF Next, Request, Call, Answers
<1> QED
  BY <1>1, Initially, PTL DEF Spec

-----------------------------------------------------------------------------
\* The lists and the drains stay well typed.
THEOREM TypeCorrect == Spec => []TypeOK
  BY Invariance, PTL DEF IInv, Known

\* A fault costs one event at most besides those whose request handlers a crash
\* cuts off, and without one none is lost but by a full queue or a closed client
\* (enqueueAuditRetry, drainAuditRetryQueue).
THEOREM LossesBounded == Spec => []OneFaultOneEvent
  BY Invariance, PTL DEF IInv

\* The processing list outgrows what is in hand by one entry per fault.
THEOREM LeftoversBounded == Spec => []OneFaultOneLeftover
  BY Invariance, PTL DEF IInv

\* However many instances drain the queue, a second entry of an event comes
\* from a late answer or a fault.
THEOREM SecondEntriesExplained == Spec => []DuplicatesExplained
<1>1. IInv => DuplicatesExplained
  BY DEF IInv, Known, EventsSound, EntriesOf, DuplicatesExplained
<1> QED
  BY <1>1, Invariance, PTL

\* An event is dead-lettered after exactly MaxAttempts POSTs by drains.
THEOREM DeadLettersAreExhausted == Spec => []RetryLimitExact
<1>1. IInv => RetryLimitExact
  BY DEF IInv, Known, TypeOK, EventsSound, TallyOf, RetryLimitExact
<1> QED
  BY <1>1, Invariance, PTL

-----------------------------------------------------------------------------
\* The events and tries of the contract, in the words of the queue.
Cared == {e \in Events : stage[e] # "out"} \union Range(queue) \union Held
Tried == [e \in Events |-> posts[e] + IF stage[e] = "new" THEN 0 ELSE 1]

\* What g puts down is in nobody's hands, as no two gateways hold one event.
LEMMA HandChanges ==
  ASSUME IInv, NEW g \in Gateways, Turns({g})
  PROVE  /\ Held' = (Held \ {item[g]}) \union ({item'[g]} \ {NoEvent})
         /\ Held \subseteq Events /\ (item[g] # NoEvent => item[g] \in Held)
<1>1. \A h \in Gateways \ {g} : item'[h] = item[h] /\ (item[h] = NoEvent \/ item[h] # item[g])
  BY DEF Turns, IInv, Known, TypeOK, EventsSound, OneCopyOf
<1>2. Held' = (Held \ {item[g]}) \union ({item'[g]} \ {NoEvent})
  <2>1. ASSUME NEW e \in Held' PROVE e \in (Held \ {item[g]}) \union ({item'[g]} \ {NoEvent})
    BY <1>1 DEF Held
  <2>2. ASSUME NEW e \in Held, e # item[g] PROVE e \in Held'
    BY <1>1, <2>2 DEF Held
  <2>3. item'[g] # NoEvent => item'[g] \in Held'
    BY DEF Held
  <2> QED
    BY <2>1, <2>2, <2>3
<1>3. \A h \in Gateways : item[h] = NoEvent \/ item[h] \in Events
  BY DEF IInv, Known, TypeOK
<1>4. Held \subseteq Events /\ (item[g] # NoEvent => item[g] \in Held)
  BY <1>3 DEF Held
<1> QED
  BY <1>2, <1>4

\* A POST is a try, after which the event may be settled.
LEMMA IsTry ==
  ASSUME NEW e \in Events, NEW n \in {0, 1}, e \in Cared, Tried[e] < MaxAttempts + 1,
         Tried' = [Tried EXCEPT ![e] = @ + 1], recorded' = [recorded EXCEPT ![e] = @ + n],
         Cared' = Cared \/ (n = 1 /\ Cared' = Cared \ {e}),
         UNCHANGED <<dlq, dropped, cut, faults>>
  PROVE  Contract!Next
<1>1. Contract!Try(e, n)
  BY DEF Contract!Try, Cared, Tried
<1> QED
  BY <1>1 DEF Contract!Next

\* A fault takes x, or nothing.
LEMMA IsFault ==
  ASSUME faults' = faults + 1, Tried' = Tried, UNCHANGED <<recorded, dropped, cut>>,
         \/ Cared' = Cared /\ dlq' = dlq
         \/ \E x \in Events :
               /\ Cared' = Cared \ {x}
               /\ dlq' = dlq \/ (x \in Cared /\ Tried[x] = MaxAttempts + 1 /\ dlq' = dlq \union {x})
  PROVE  Contract!Next
<1>1. ASSUME Cared' = Cared, dlq' = dlq PROVE Contract!Fault({})
  BY <1>1 DEF Contract!Fault, Cared, Tried
<1>2. ASSUME NEW x \in Events, Cared' = Cared \ {x},
             dlq' = dlq \/ (x \in Cared /\ Tried[x] = MaxAttempts + 1 /\ dlq' = dlq \union {x})
      PROVE  Contract!Fault({x})
  <2>1. dlq' = dlq \/ dlq' = dlq \union {d \in {x} \intersect Cared : Tried[d] = MaxAttempts + 1}
    BY <1>2
  <2> QED
    BY <1>2, <2>1 DEF Contract!Fault, Cared, Tried
<1> QED
  BY <1>1, <1>2 DEF Contract!Next

\* Events with nothing but their first try go with their handlers.
LEMMA IsSkip ==
  ASSUME NEW e \in Events, e \in Cared, Tried[e] = 1, Cared' = Cared \ {e}, Tried' = Tried,
         cut' = cut \union {e}, UNCHANGED <<recorded, dlq, dropped, faults>>
  PROVE  Contract!Next
<1>1. Contract!Skip(e)
  BY DEF Contract!Skip, Cared, Tried
<1> QED
  BY <1>1 DEF Contract!Next

LEMMA IsStop ==
  ASSUME NEW lost \in {{}} \union {{e} : e \in Events}, NEW gone \in SUBSET Events,
         \A e \in gone : e \in Cared /\ Tried[e] = 1,
         Cared' = Cared \ (lost \union gone), cut' = cut \union gone, faults' = faults + 1,
         Tried' = Tried, UNCHANGED <<recorded, dlq, dropped>>
  PROVE  Contract!Next
<1>1. Contract!Stop(lost, gone)
  BY DEF Contract!Stop, Cared, Tried
<1> QED
  BY <1>1 DEF Contract!Next

LEMMA IsForget ==
  ASSUME NEW gone \in SUBSET Events, gone \subseteq Cared, Cared' = Cared \ gone,
         cut' = cut \union gone \union dlq, dlq' = {}, faults' = faults + 1,
         Tried' = Tried, UNCHANGED <<recorded, dropped>>
  PROVE  Contract!Next
<1>1. Contract!Forget(gone)
  BY DEF Contract!Forget, Cared, Tried
<1> QED
  BY <1>1 DEF Contract!Next

\* A step that the contract does not see.
LEMMA IsQuiet ==
  ASSUME Cared' = Cared, Tried' = Tried, UNCHANGED <<recorded, dlq, dropped, cut, faults>>
  PROVE  UNCHANGED Contract!vars
  BY DEF Contract!vars, Cared, Tried

-----------------------------------------------------------------------------
\* The request handlers: the first try, and an event refused or lost.
LEMMA RequestMapped ==
  ASSUME IInv, NEW e \in Events, Request(e)
  PROVE  Contract!Next \/ UNCHANGED Contract!vars
<1> USE QueueAssumption DEF handler, lists, stored, drain, service
<1>1. /\ posts[e] \in Nat /\ recorded[e] \in Nat /\ recorded \in [Events -> Nat] /\ faults \in Nat
      /\ OneCopyOf(e) /\ TallyOf(e) /\ TypeOK
  BY DEF IInv, Known, TypeOK, EventsSound
<1>2. stage[e] # "out" => e \notin Range(queue) \union Held
  BY <1>1 DEF OneCopyOf, Held
<1>3. ASSUME NEW answer \in {"ok", "refused", "late"}, Finish(e, answer)
      PROVE  Contract!Next
  <2>1. /\ stage[e] = "new" /\ UNCHANGED <<queue, item, posts, dlq, dropped, cut, faults>>
        /\ stage' = [stage EXCEPT ![e] = IF answer = "ok" THEN "out" ELSE "failed"]
    BY <1>3 DEF Finish
  <2>2. PICK n \in {0, 1} : /\ recorded' = [recorded EXCEPT ![e] = @ + n]
                            /\ n = 0 => answer = "refused"
    <3>1. recorded' = IF answer = "refused" THEN recorded ELSE [recorded EXCEPT ![e] = @ + 1]
      BY <1>3 DEF Finish, Posted
    <3>2. recorded = [recorded EXCEPT ![e] = @ + 0]
      BY <1>1
    <3> QED
      BY <3>1, <3>2
  <2>3. e \in Cared /\ Tried[e] = 0
    BY <1>1, <2>1 DEF Cared, Tried, TallyOf
  <2>4. Tried' = [Tried EXCEPT ![e] = @ + 1]
    <3>1. stage'[e] # "new" /\ \A y \in Events \ {e} : stage'[y] = stage[y]
      BY <1>1, <2>1 DEF TypeOK
    <3>2. Tried'[e] = Tried[e] + 1
      BY <1>1, <2>1, <3>1 DEF Tried
    <3>3. \A y \in Events \ {e} : Tried'[y] = Tried[y]
      BY <2>1, <3>1 DEF Tried
    <3> QED
      BY <3>2, <3>3 DEF Tried
  <2>5. Cared' = IF answer = "ok" THEN Cared \ {e} ELSE Cared
    <3>1. Held' = Held
      BY <2>1 DEF Held
    <3> QED
      BY <1>1, <1>2, <2>1, <3>1 DEF Cared, TypeOK
  <2>6. Cared' = Cared \/ (n = 1 /\ Cared' = Cared \ {e})
    BY <2>2, <2>5
  <2>7. Tried[e] < MaxAttempts + 1
    BY <2>3
  <2> HIDE DEF handler, lists, stored, drain, service
  <2> QED
    BY <2>1, <2>2, <2>3, <2>4, <2>6, <2>7, IsTry
<1>4. ASSUME NEW out \in Outcomes, Measure(e, out) \/ Store(e, out)
      PROVE  Contract!Next \/ UNCHANGED Contract!vars
  <2>1. /\ stage[e] \in {"failed", "measured"} /\ UNCHANGED <<item, posts, recorded, dlq, cut>>
        /\ \A y \in Events \ {e} : stage'[y] = stage[y]
        /\ stage'[e] \in {"measured", "out"}
        /\ faults' = IF out = "ok" THEN faults ELSE faults + 1
    BY <1>1, <1>4, Charged DEF Measure, Store, TypeOK
  <2>2. Tried' = Tried
    BY <2>1 DEF Tried
  <2>3. Held' = Held
    BY <2>1 DEF Held
  <2>4. e \in Cared
    BY <2>1 DEF Cared
  <2>5. CASE stage'[e] # "out"
    <3>1. UNCHANGED <<queue, dropped, faults>>
      BY <1>1, <1>4, <2>1, <2>5 DEF Measure, Store, TypeOK
    <3>2. Cared' = Cared
      BY <2>1, <2>3, <2>5, <3>1 DEF Cared
    <3> QED
      BY <2>1, <2>2, <3>1, <3>2, IsQuiet
  <2>6. CASE stage'[e] = "out" /\ Measure(e, out)
    <3>1. queue' = queue
      BY <2>6 DEF Measure
    <3>2. Cared' = Cared \ {e}
      BY <1>2, <2>1, <2>3, <2>6, <3>1 DEF Cared
    <3>3. CASE out = "ok"
      <4>1. dropped' = dropped \union {e}
        BY <1>1, <2>6, <3>3 DEF Measure, TypeOK
      <4>2. Tried[e] = 1
        BY <1>1, <2>1 DEF Tried, TallyOf
      <4>3. Contract!Refuse(e)
        BY <2>1, <2>2, <2>4, <3>2, <3>3, <4>1, <4>2 DEF Contract!Refuse, Cared, Tried
      <4> QED
        BY <4>3 DEF Contract!Next
    <3>4. CASE out # "ok"
      <4>1. dropped' = dropped
        BY <2>6, <3>4 DEF Measure
      <4> QED
        BY <2>1, <2>2, <3>2, <3>4, <4>1, IsFault
    <3> QED
      BY <3>3, <3>4
  <2>7. CASE Store(e, out)
    <3>1. /\ dropped' = dropped /\ stage'[e] = "out"
          /\ queue' = IF out = "void" THEN queue ELSE Append(queue, e)
      BY <1>1, <2>7 DEF Store, TypeOK
    <3>2. CASE out = "void"
      <4>1. Cared' = Cared \ {e}
        BY <1>2, <2>1, <2>3, <3>1, <3>2 DEF Cared
      <4> QED
        BY <2>1, <2>2, <3>1, <3>2, <4>1, IsFault
    <3>3. CASE out # "void"
      <4>1. Range(queue') = Range(queue) \union {e}
        BY <1>1, <3>1, <3>3, Pushed DEF TypeOK
      <4>2. Cared' = Cared
        BY <2>1, <2>3, <3>1, <4>1 DEF Cared
      <4> QED
        BY <2>1, <2>2, <3>1, <4>2, IsFault, IsQuiet
    <3> QED
      BY <3>2, <3>3
  <2> QED
    BY <1>1, <1>4, <2>1, <2>5, <2>6, <2>7 DEF TypeOK
<1>5. ASSUME FindClosed(e)
      PROVE  Contract!Next
  <2>1. /\ stage[e] = "failed" /\ UNCHANGED <<queue, item, posts, recorded, dlq, dropped, faults>>
        /\ stage'[e] = "out" /\ \A y \in Events \ {e} : stage'[y] = stage[y]
        /\ cut' = cut \union {e}
    BY <1>5 DEF FindClosed, CutOff
  <2>2. Tried' = Tried
    BY <2>1 DEF Tried
  <2>3. Held' = Held
    BY <2>1 DEF Held
  <2>4. e \in Cared /\ Tried[e] = 1
    BY <1>1, <2>1 DEF Cared, Tried, TallyOf
  <2>5. Cared' = Cared \ {e}
    BY <1>2, <2>1, <2>3 DEF Cared
  <2> HIDE DEF handler, lists, stored, drain, service
  <2> QED
    BY <2>1, <2>2, <2>4, <2>5, IsSkip
<1> QED
  BY <1>3, <1>4, <1>5 DEF Request

\* A gateway that puts down an event loses it, unless the queue has it.
LEMMA PutDown ==
  ASSUME IInv, NEW g \in Gateways, Turns({g}), Free(g), stage' = stage,
         Range(queue) \subseteq Range(queue'), Range(queue') \subseteq Range(queue) \union {item[g]}
  PROVE  /\ item[g] \in Events => item[g] \in Cared
         /\ item[g] \notin Range(queue') => Cared' = Cared \ {item[g]}
         /\ item[g] \in Events \intersect Range(queue') => Cared' = Cared
<1>1. Held' = Held \ {item[g]} /\ (item[g] # NoEvent => item[g] \in Held)
  BY HandChanges DEF Free
<1>2. item[g] \in Events => stage[item[g]] = "out"
  BY DEF IInv, Known, EventsSound, OneCopyOf
<1>3. item[g] # NoEvent \/ item[g] \notin Cared
  BY Listed, QueueAssumption DEF Cared, Held, IInv, Known, TypeOK
<1>4. item[g] \in Events => item[g] \in Cared
  BY <1>1, QueueAssumption DEF Cared
<1>5. item[g] \notin Range(queue') => Cared' = Cared \ {item[g]}
  <2>1. CASE item[g] \in Events
    BY <1>1, <1>2, <2>1 DEF Cared
  <2>2. CASE item[g] \notin Events
    <3>1. item[g] \notin Cared /\ item[g] \notin Held
      BY <1>3, <1>1, <2>2, HandChanges
    <3> QED
      BY <1>1, <3>1 DEF Cared
  <2> QED
    BY <2>1, <2>2
<1>6. item[g] \in Events \intersect Range(queue') => Cared' = Cared
  BY <1>1, <1>4 DEF Cared
<1> QED
  BY <1>4, <1>5, <1>6

\* Starts are not seen.
LEMMA StartMapped ==
  ASSUME IInv, NEW g \in Gateways, Start(g)
  PROVE  UNCHANGED Contract!vars
<1>1. UNCHANGED <<stage, queue, item, posts, recorded, dlq, dropped, cut, faults>>
  BY DEF Start, handler, lists, stored, service
<1>2. Tried' = Tried /\ Cared' = Cared
  BY <1>1 DEF Cared, Held, Tried
<1> QED
  BY <1>1, <1>2, IsQuiet

\* A crash takes what the drain has in hand and the requests being served.
LEMMA CrashMapped ==
  ASSUME IInv, NEW g \in Gateways, Crash(g)
  PROVE  Contract!Next
<1> DEFINE lost == {item[g]} \intersect Events
           gone == InFlight(g)
<1>1. /\ UNCHANGED <<queue, posts, recorded, dlq, dropped>>
      /\ \A e \in Events : stage'[e] = IF e \in gone THEN "out" ELSE stage[e]
      /\ cut' = cut \union gone /\ faults' = faults + 1
  BY DEF Crash, CutOff, lists, service
<1>2. Turns({g}) /\ Free(g) /\ TypeOK
  BY Advancing DEF Crash, IInv, Known
<1>3. \A e \in gone : e \in Events /\ stage[e] \in {"failed", "measured"}
  BY DEF InFlight
<1>4. \A e \in gone : e \in Cared /\ Tried[e] = 1
  BY <1>3 DEF Cared, Tried, IInv, Known, EventsSound, TallyOf
<1>5. \A e \in gone : e \notin Range(queue) \union Held
  BY <1>3 DEF IInv, Known, EventsSound, OneCopyOf, Held
<1>6. Tried' = Tried
  <2>1. \A e \in Events : stage'[e] = "new" <=> stage[e] = "new"
    BY <1>1, <1>3
  <2> QED
    BY <1>1, <2>1 DEF Tried
<1>7. Held' = Held \ lost /\ Held \subseteq Events
  BY <1>2, HandChanges, QueueAssumption DEF Free
<1>8. \A e \in lost : stage[e] = "out"
  BY DEF IInv, Known, EventsSound, OneCopyOf
<1>9. Cared' = {e \in Events : stage[e] # "out" /\ e \notin gone} \union Range(queue) \union (Held \ lost)
  BY <1>1, <1>7 DEF Cared
<1>10. CASE lost \intersect Range(queue) = {}
  <2>1. Cared' = Cared \ (lost \union gone)
    BY <1>3, <1>5, <1>8, <1>9, <1>10 DEF Cared
  <2>2. lost \in {{}} \union {{e} : e \in Events}
    OBVIOUS
  <2>3. gone \in SUBSET Events
    BY <1>3
  <2> QED
    BY <1>1, <1>4, <1>6, <2>1, <2>2, <2>3, IsStop
<1>11. CASE lost \intersect Range(queue) # {}
  <2>1. FALSE
    BY <1>11 DEF IInv, Known, EventsSound, OneCopyOf
  <2> QED
    BY <2>1
<1> QED
  BY <1>10, <1>11

\* Redis forgets its lists.
LEMMA RestartMapped ==
  ASSUME IInv, Restart
  PROVE  Contract!Next
<1> DEFINE gone == Range(queue)
<1>1. /\ UNCHANGED <<item, posts, recorded, dropped>> /\ queue' = <<>> /\ dlq' = {}
      /\ cut' = cut \union gone \union dlq /\ faults' = faults + 1
  BY DEF Restart, CutOff, drain, service
<1>2. \A e \in Events : stage'[e] = stage[e]
  BY DEF Restart, CutOff, IInv, Known, EventsSound, OneCopyOf, TypeOK
<1>3. Tried' = Tried /\ Held' = Held
  BY <1>1, <1>2 DEF Tried, Held
<1>4. gone \in SUBSET Events /\ gone \subseteq Cared
  BY Listed DEF IInv, Known, TypeOK, Cared
<1>5. Range(queue') = {}
  BY <1>1 DEF Range
<1>6. Cared' = Cared \ gone
  <2>1. \A e \in gone : stage[e] = "out" /\ e \notin Held
    BY <1>4 DEF IInv, Known, EventsSound, OneCopyOf, Held
  <2> QED
    BY <1>2, <1>3, <1>5, <2>1 DEF Cared
<1> QED
  BY <1>1, <1>3, <1>4, <1>6, IsForget

\* LMOVE and LPOP: the event changes hands, or a fault takes it.
LEMMA TakeMapped ==
  ASSUME IInv, NEW g \in Gateways, NEW out \in Outcomes, Take(g, out) \/ PopLeft(g, out)
  PROVE  Contract!Next \/ UNCHANGED Contract!vars
<1> DEFINE moved == queue # <<>> /\ out # "void"
           x == IF Take(g, out) THEN Last(queue) ELSE Head(queue)
<1>1. /\ UNCHANGED <<stage, posts, recorded, dlq, dropped, cut>>
      /\ faults' = IF out = "ok" THEN faults ELSE faults + 1
      /\ Tried' = Tried
  BY Charged DEF Take, PopLeft, handler, stored, service, IInv, Known, Tried
<1>2. queue \in Seq(Events) /\ OnceIn(queue) /\ TypeOK /\ item[g] = NoEvent
  BY DEF IInv, Known, TypeOK, GatewaysSound, Hand, Take, PopLeft
<1>3. /\ ~moved => queue' = queue
      /\ moved => /\ x \in Events /\ x \in Range(queue) /\ x \notin Range(queue')
                  /\ Range(queue) = Range(queue') \union {x}
  <2>1. CASE Take(g, out)
    BY <1>2, <2>1, MovedRight, Listed DEF Take
  <2>2. CASE PopLeft(g, out) /\ ~Take(g, out)
    BY <1>2, <2>2, PoppedLeft, Listed DEF PopLeft
  <2> QED
    BY <2>1, <2>2
<1>4. /\ Turns({g})
      /\ item'[g] = IF out = "ok" /\ queue # <<>> THEN x ELSE NoEvent
  <2>1. CASE Take(g, out)
    <3>1. CASE out = "ok" /\ queue # <<>>
      BY <1>2, <1>3, <2>1, <3>1, Holding DEF Take, Holds
    <3>2. CASE ~(out = "ok" /\ queue # <<>>)
      BY <1>2, <2>1, <3>2, Advancing DEF Take, Free
    <3> QED
      BY <3>1, <3>2
  <2>2. CASE PopLeft(g, out) /\ ~Take(g, out)
    <3>1. CASE out = "ok" /\ queue # <<>>
      BY <1>2, <1>3, <2>2, <3>1 DEF TypeOK, Turns, PopLeft
    <3>2. CASE ~(out = "ok" /\ queue # <<>>)
      BY <1>2, <2>2, <3>2, Advancing DEF PopLeft, Free
    <3> QED
      BY <3>1, <3>2
  <2> QED
    BY <2>1, <2>2
<1>5. Held \subseteq Events /\ Held' = Held \union (IF out = "ok" /\ queue # <<>> THEN {x} \ {NoEvent} ELSE {})
  BY <1>2, <1>4, HandChanges, QueueAssumption
<1>6. moved => stage[x] = "out" /\ x \notin Held
  BY <1>3 DEF IInv, Known, EventsSound, OneCopyOf, Held
<1>7. Cared' = IF moved /\ out # "ok" THEN Cared \ {x} ELSE Cared
  <2>1. CASE ~moved
    BY <1>1, <1>3, <1>5, <2>1 DEF Cared
  <2>2. CASE moved /\ out = "ok"
    BY <1>1, <1>3, <1>5, <2>2, QueueAssumption DEF Cared
  <2>3. CASE moved /\ out # "ok"
    BY <1>1, <1>3, <1>5, <1>6, <2>3 DEF Cared
  <2> QED
    BY <2>1, <2>2, <2>3
<1> QED
  BY <1>1, <1>3, <1>7, IsFault, IsQuiet

\* The fallback's RPUSH: the event stays in hand, or a fault takes it.
LEMMA StowMapped ==
  ASSUME IInv, NEW g \in Gateways, NEW out \in Outcomes, Stow(g, out)
  PROVE  Contract!Next \/ UNCHANGED Contract!vars
<1>1. /\ UNCHANGED <<stage, queue, posts, recorded, dlq, dropped, cut>>
      /\ faults' = IF out = "ok" THEN faults ELSE faults + 1
      /\ Tried' = Tried
  BY Charged DEF Stow, handler, stored, service, IInv, Known, Tried
<1>2. TypeOK /\ item[g] \in Events
  BY DEF IInv, Known, TypeOK, GatewaysSound, Hand, Stow
<1>3. CASE out = "ok"
  <2>1. Turns({g}) /\ item'[g] = item[g]
    BY <1>2, <1>3, Holding DEF Stow, Holds
  <2>2. Held' = Held
    BY <1>2, <2>1, HandChanges, QueueAssumption
  <2>3. Cared' = Cared
    BY <1>1, <2>2 DEF Cared
  <2> QED
    BY <1>1, <1>3, <2>3, IsQuiet
<1>4. CASE out # "ok"
  <2>1. Turns({g}) /\ Free(g)
    BY <1>2, <1>4, Advancing DEF Stow
  <2>2. Cared' = Cared \/ Cared' = Cared \ {item[g]}
    BY <1>1, <1>2, <2>1, PutDown
  <2> QED
    BY <1>1, <1>2, <1>4, <2>2, IsFault
<1> QED
  BY <1>3, <1>4

\* A POST of a drain is one more try.
LEMMA PostMapped ==
  ASSUME IInv, NEW g \in Gateways, NEW answer \in {"ok", "refused", "late"}, Post(g, answer)
  PROVE  Contract!Next
<1>1. PICK e \in Events : e = item[g]
  BY DEF IInv, Known, TypeOK, GatewaysSound, Hand, Post
<1>2. /\ UNCHANGED <<stage, queue, item, dlq, dropped, cut, faults>>
      /\ posts' = [posts EXCEPT ![e] = @ + 1] /\ Posted(e, answer)
  BY <1>1 DEF Post, handler, lists
<1>3. /\ posts \in [Events -> Nat] /\ recorded \in [Events -> Nat] /\ posts[e] < MaxAttempts
      /\ stage[e] = "out"
  BY <1>1, QueueAssumption DEF IInv, Known, TypeOK, GatewaysSound, Hand, TallyAt, EventsSound,
                                OneCopyOf, Post
<1>4. PICK n \in {0, 1} : recorded' = [recorded EXCEPT ![e] = @ + n]
  <2>1. recorded = [recorded EXCEPT ![e] = @ + 0]
    BY <1>3
  <2> QED
    BY <1>2, <2>1 DEF Posted
<1>5. Tried[e] < MaxAttempts + 1 /\ Tried' = [Tried EXCEPT ![e] = @ + 1]
  <2>1. Tried'[e] = Tried[e] + 1 /\ Tried[e] < MaxAttempts + 1
    BY <1>2, <1>3, QueueAssumption DEF Tried
  <2>2. \A y \in Events \ {e} : Tried'[y] = Tried[y]
    BY <1>2, <1>3 DEF Tried
  <2> QED
    BY <2>1, <2>2 DEF Tried
<1>6. Cared' = Cared /\ e \in Cared
  BY <1>1, <1>2, QueueAssumption DEF Cared, Held
<1> QED
  BY <1>2, <1>4, <1>5, <1>6, IsTry

\* LREM: a recorded event is settled, or a fault takes it.
LEMMA UnparkMapped ==
  ASSUME IInv, NEW g \in Gateways, NEW out \in Outcomes, Unpark(g, out)
  PROVE  Contract!Next \/ UNCHANGED Contract!vars
<1>1. /\ UNCHANGED <<stage, queue, posts, recorded, dlq, dropped, cut>>
      /\ faults' = IF out = "ok" THEN faults ELSE faults + 1
      /\ Tried' = Tried
  BY Charged DEF Unpark, handler, stored, service, IInv, Known, Tried
<1>2. TypeOK /\ item[g] \in Events
  BY DEF IInv, Known, TypeOK, GatewaysSound, Hand, Unpark
<1>3. CASE (out = "ok") # (plan[g] = "done")
  <2>1. item' = item
    BY <1>3 DEF Unpark, AfterUnpark, AfterFailedUnpark
  <2>2. Cared' = Cared
    BY <1>1, <2>1 DEF Cared, Held
  <2> QED
    BY <1>1, <2>2, IsFault, IsQuiet
<1>4. CASE (out = "ok") = (plan[g] = "done")
  <2>1. Turns({g}) /\ Free(g)
    BY <1>2, <1>4, Advancing DEF Unpark, AfterUnpark, AfterFailedUnpark
  <2>2. item[g] \notin Range(queue') /\ item[g] \in Held
    BY <1>1, <1>2, QueueAssumption DEF Held, IInv, Known, EventsSound, OneCopyOf
  <2>3. Cared' = Cared \ {item[g]} /\ item[g] \in Cared
    BY <1>1, <2>1, <2>2, PutDown DEF Cared
  <2>4. CASE out # "ok"
    BY <1>1, <1>2, <2>3, <2>4, IsFault
  <2>5. CASE out = "ok"
    <3>1. recorded[item[g]] > 0
      BY <1>4, <2>5 DEF IInv, Known, GatewaysSound, EntriesAt
    <3>2. PICK e \in Events : e = item[g]
      BY <1>2
    <3>3. Contract!Settle(e)
      BY <1>1, <2>3, <2>5, <3>1, <3>2 DEF Contract!Settle, Cared, Tried
    <3> QED
      BY <3>3 DEF Contract!Next
  <2> QED
    BY <2>4, <2>5
<1> QED
  BY <1>3, <1>4

\* RPUSH: back to the queue or, after the last try, to the dead letters.
LEMMA PushMapped ==
  ASSUME IInv, NEW g \in Gateways, NEW out \in Outcomes, Push(g, out)
  PROVE  Contract!Next \/ UNCHANGED Contract!vars
<1>1. /\ UNCHANGED <<stage, posts, recorded, dropped, cut>>
      /\ faults' = IF out = "ok" THEN faults ELSE faults + 1
      /\ Tried' = Tried
  BY Charged DEF Push, handler, service, IInv, Known, Tried
<1>2. TypeOK /\ item[g] \in Events /\ queue \in Seq(Events)
  BY DEF IInv, Known, TypeOK, GatewaysSound, Hand, Push
<1>3. /\ Turns({g}) /\ Free(g)
  BY <1>2, Advancing DEF Push
<1>4. /\ dlq' = IF plan[g] = "discard" /\ out # "void" THEN dlq \union {item[g]} ELSE dlq
      /\ Range(queue') = IF plan[g] # "discard" /\ out # "void"
                         THEN Range(queue) \union {item[g]} ELSE Range(queue)
  BY <1>2, Pushed DEF Push, Stored
<1>5. item[g] \notin Range(queue) /\ item[g] \in Cared
  BY <1>2, QueueAssumption DEF Cared, Held, IInv, Known, EventsSound, OneCopyOf
<1>6. Cared' = IF plan[g] # "discard" /\ out # "void" THEN Cared ELSE Cared \ {item[g]}
  <2>1. /\ Range(queue) \subseteq Range(queue') /\ Range(queue') \subseteq Range(queue) \union {item[g]}
        /\ item[g] \in Range(queue') <=> plan[g] # "discard" /\ out # "void"
    BY <1>4, <1>5
  <2> QED
    BY <1>1, <1>2, <1>3, <2>1, PutDown
<1>7. plan[g] = "discard" => Tried[item[g]] = MaxAttempts + 1
  BY <1>2, QueueAssumption DEF Tried, IInv, Known, TypeOK, GatewaysSound, TallyAt, EventsSound,
                                OneCopyOf
<1>8. CASE out # "ok"
  BY <1>1, <1>2, <1>4, <1>5, <1>6, <1>7, <1>8, IsFault
<1>9. CASE out = "ok" /\ plan[g] # "discard"
  BY <1>1, <1>4, <1>6, <1>9, IsQuiet
<1>10. CASE out = "ok" /\ plan[g] = "discard"
  <2>1. PICK e \in Events : e = item[g]
    BY <1>2
  <2>2. Contract!Bury(e)
    BY <1>1, <1>4, <1>5, <1>6, <1>7, <1>10, <2>1 DEF Contract!Bury, Cared, Tried
  <2> QED
    BY <2>2 DEF Contract!Next
<1> QED
  BY <1>8, <1>9, <1>10

\* The queue keeps the gateway's promise: an event is cared for until it is
\* recorded, has had all its tries, met a full queue or a closed client, was
\* lost to a fault of its own or went with its request handler or with Redis,
\* and is not taken up again (enqueueAuditRetry, drainAuditRetryQueue).
THEOREM Implements == Spec => ImplementsContract
<1>1. Init => Contract!Init
  <2> SUFFICES ASSUME Init PROVE Contract!Init
    OBVIOUS
  <2>1. Cared = Events
    BY DEF Init, Cared, Held, Range
  <2>2. Tried = [e \in Events |-> 0]
    BY DEF Init, Tried
  <2> QED
    BY <2>1, <2>2 DEF Init, Contract!Init, Cared, Tried
<1>2. IInv /\ [Next]_vars => [Contract!Next]_(Contract!vars)
  <2> SUFFICES ASSUME IInv, [Next]_vars PROVE Contract!Next \/ UNCHANGED Contract!vars
    OBVIOUS
  <2>1. ASSUME (\E e \in Events : ComesDue(e)) \/ UNCHANGED vars PROVE UNCHANGED Contract!vars
    <3>1. UNCHANGED <<stage, dropped, cut, queue, dlq, item, recorded, posts, faults>>
      BY <2>1 DEF ComesDue, vars, handler, lists, stored, drain, service
    <3>2. Cared' = Cared /\ Tried' = Tried
      BY <3>1 DEF Cared, Held, Tried
    <3> QED
      BY <3>1, <3>2, IsQuiet
  <2> QED
    BY <2>1, RequestMapped, StartMapped, CrashMapped, RestartMapped, TakeMapped, StowMapped, PostMapped, UnparkMapped,
       PushMapped DEF Next, Call, Answers
<1> QED
  BY <1>1, <1>2, Invariance, PTL DEF Spec, ImplementsContract, Contract!Spec

=============================================================================
