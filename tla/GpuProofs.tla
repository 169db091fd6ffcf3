------------------------------ MODULE GpuProofs ------------------------------
(***************************************************************************)
(* Proofs about the two programs over the GPU: the streaming of weights    *)
(* (WeightStream) and the executor's layer loop (GpuLayers).               *)
(***************************************************************************)
EXTENDS WeightStream, GpuLayers, FiniteSetTheorems, SequenceTheorems,
        WellFoundedInduction, TLAPS

\* What is left of a sequence of which one place is taken out.
LEMMA RemoveAtIs ==
    ASSUME NEW S, NEW s \in Seq(S), NEW p \in 1..Len(s)
    PROVE  /\ RemoveAt(s, p) \in Seq(S)
           /\ Len(RemoveAt(s, p)) = Len(s) - 1
           /\ \A i \in 1..(Len(s) - 1) : RemoveAt(s, p)[i] = IF i < p THEN s[i] ELSE s[i + 1]
<1> DEFINE a == SubSeq(s, 1, p - 1)
           z == SubSeq(s, p + 1, Len(s))
           t == a \o z
<1>1. a \in Seq(S) /\ Len(a) = p - 1 /\ \A i \in 1..(p - 1) : a[i] = s[i] OBVIOUS
<1>2. z \in Seq(S) /\ Len(z) = Len(s) - p /\ \A i \in 1..(Len(s) - p) : z[i] = s[p + i]
  OBVIOUS
<1> HIDE DEF a, z
<1>3. /\ t \in Seq(S) /\ Len(t) = Len(a) + Len(z)
      /\ \A i \in 1..(Len(a) + Len(z)) : t[i] = IF i <= Len(a) THEN a[i] ELSE z[i - Len(a)]
  BY <1>1, <1>2, ConcatProperties, Zenon
<1>4. RemoveAt(s, p) = t BY DEF RemoveAt, a, z
<1> HIDE DEF t
<1>5. Len(t) = Len(s) - 1 BY <1>1, <1>2, <1>3
<1>6. ASSUME NEW i \in 1..(Len(s) - 1) PROVE t[i] = IF i < p THEN s[i] ELSE s[i + 1]
  <2>1. CASE i < p
    <3>1. i \in 1..(p - 1) /\ i \in 1..(Len(a) + Len(z)) /\ i <= Len(a) BY <1>1, <1>2, <2>1
    <3>2. t[i] = a[i] BY <1>3, <3>1, Zenon
    <3> QED BY <1>1, <2>1, <3>1, <3>2
  <2>2. CASE ~(i < p)
    <3>1. t[i] = z[i - (p - 1)] BY <1>1, <1>2, <1>3, <2>2, SMTT(40)
    <3>2. i - (p - 1) \in 1..(Len(s) - p) /\ p + (i - (p - 1)) = i + 1 BY <2>2
    <3> QED BY <1>2, <2>2, <3>1, <3>2
  <2> QED BY <2>1, <2>2
<1> QED BY <1>3, <1>4, <1>5, <1>6

\* The least of a set of naturals that is not empty belongs to it.
LEMMA MinIn ==
    ASSUME NEW S \in SUBSET Nat, S # {}
    PROVE  Min(S) \in S /\ \A y \in S : Min(S) <= y
<1>1. PICK x \in S : \A y \in S : <<y, x>> \notin OpToRel(<, Nat)
  BY NatLessThanWellFounded, WFMin, Zenon
<1>2. \A y \in S : x <= y
  <2> SUFFICES ASSUME NEW y \in S PROVE x <= y OBVIOUS
  <2>1. <<y, x>> \in Nat \X Nat OBVIOUS
  <2>2. ~(y < x) BY <1>1, <2>1 DEF OpToRel
  <2> QED BY <2>2
<1> QED BY <1>2, Zenon DEF Min

-----------------------------------------------------------------------------
(***************************************************************************)
(* Streaming of weights.  StreamInv is almost inductive: what it says of   *)
(* sets of slots is put record by record, with the types it leaves out.    *)
(***************************************************************************)

QueueRecords == [key : Keys, slot : Slots, tv : Nat]
Places == 1..Len(queue)
Staging == {i \in Slots : slotState[i] = "staging"}

StreamTypes ==
    /\ slotState \in [Slots -> {"free", "staging", "ready"}]
    /\ writeIndex \in Slots
    /\ timeline \in 0..MaxTimeline
    /\ queue \in Seq(QueueRecords)
    /\ failed \in Nat

SlotsInv ==
    /\ \A i \in Places : slotState[queue[i].slot] = "ready"
    /\ \A s \in Slots : slotState[s] = "ready" => \E i \in Places : queue[i].slot = s
    /\ \A i, j \in Places : queue[i].slot = queue[j].slot => i = j
    /\ Cardinality(Staging) = failed

OrderInv ==
    /\ \A i, j \in Places : i < j => queue[i].tv < queue[j].tv
    /\ \A i \in Places : queue[i].tv >= 1 /\ queue[i].tv <= timeline

StreamIInv == StreamTypes /\ SlotsInv /\ OrderInv /\ AnswerUsable

LEMMA StagingFinite == IsFiniteSet(Staging)
<1>1. IsFiniteSet(0..2)
  <2>1. 0 \in Int /\ 2 \in Int OBVIOUS
  <2> QED BY <2>1, FS_Interval, Zenon
<1>2. Staging \in SUBSET (0..2) BY DEF Staging, Slots
<1> QED BY <1>1, <1>2, FS_Subset, Zenon

\* A write slot is a free one.
LEMMA WriteSlotFree ==
    ASSUME StreamTypes, FreeFrom # {}
    PROVE  WriteSlot \in Slots /\ slotState[WriteSlot] = "free"
<1>1. FreeFrom \in SUBSET Nat BY DEF FreeFrom
<1>2. PICK d : d = Min(FreeFrom) OBVIOUS
<1>3. d \in FreeFrom BY <1>1, <1>2, MinIn
<1>4. d \in 0..2 /\ slotState[(writeIndex + d) % 3] = "free" BY <1>3 DEF FreeFrom
<1>5. (writeIndex + d) % 3 \in 0..2 BY <1>4 DEF StreamTypes, Slots
<1>6. WriteSlot = (writeIndex + d) % 3 BY <1>2 DEF WriteSlot
<1> QED BY <1>4, <1>5, <1>6 DEF Slots

\* A prefetch keeps slots and queue in agreement: an upload that fails leaves its slot
\* staging and counted, one that is submitted has its slot ready and its record last.
LEMMA PrefetchInv ==
    ASSUME NEW key, StreamTypes, SlotsInv, OrderInv, timeline < MaxTimeline,
           PrefetchLayer(key)
    PROVE  StreamTypes' /\ SlotsInv' /\ OrderInv'
<1>1. CASE ~(InShard(key) /\ key \notin TooBig /\ FreeFrom # {})
  <2>1. UNCHANGED <<slotState, writeIndex, timeline, queue, failed>> BY <1>1, Zenon DEF PrefetchLayer
  <2> QED BY <2>1 DEF StreamTypes, SlotsInv, OrderInv, Places, Staging
<1>2. CASE InShard(key) /\ key \notin TooBig /\ FreeFrom # {}
  <2>1. key \in Keys BY <1>2 DEF InShard
  <2>2. PICK w : w = WriteSlot OBVIOUS
  <2>3. w \in Slots /\ slotState[w] = "free" BY <1>2, <2>2, WriteSlotFree
  <2>4. writeIndex' = w /\ timeline' = timeline + 1
    BY <1>2, <2>2, Zenon DEF PrefetchLayer
  <2>5. timeline' \in 0..MaxTimeline BY <2>4, StreamAssumption DEF StreamTypes
  <2>6. \A i \in Places : queue[i] \in QueueRecords /\ queue[i].slot # w
    BY <2>3 DEF StreamTypes, SlotsInv, Places
  <2>7. CASE /\ slotState' = [slotState EXCEPT ![w] = "staging"]
             /\ failed' = failed + 1
             /\ UNCHANGED queue
    <3>1. Staging' = Staging \cup {w} BY <2>3, <2>7 DEF Staging, StreamTypes
    <3>2. w \notin Staging BY <2>3 DEF Staging
    <3>3. Cardinality(Staging') = failed'
      BY <2>7, <3>1, <3>2, StagingFinite, FS_AddElement DEF SlotsInv
    <3>4. StreamTypes' BY <2>3, <2>4, <2>5, <2>7 DEF StreamTypes
    <3>5. \A i \in Places : slotState'[queue[i].slot] = "ready"
      BY <2>6, <2>7 DEF StreamTypes, SlotsInv, QueueRecords
    <3>6. \A s \in Slots : slotState'[s] = "ready" => \E i \in Places : queue[i].slot = s
      BY <2>7 DEF StreamTypes, SlotsInv
    <3>7. SlotsInv' BY <2>7, <3>3, <3>5, <3>6 DEF SlotsInv, Places
    <3>8. \A i \in Places : queue[i].tv \in Nat BY <2>6 DEF QueueRecords
    <3>9. OrderInv' BY <2>4, <2>7, <3>8 DEF OrderInv, Places, StreamTypes
    <3> QED BY <3>4, <3>7, <3>9
  <2>8. CASE /\ slotState' = [slotState EXCEPT ![w] = "ready"]
             /\ queue' = Append(queue, [key |-> key, slot |-> w, tv |-> NextTimeline])
             /\ UNCHANGED failed
    <3>1. PICK r : r = [key |-> key, slot |-> w, tv |-> timeline + 1] OBVIOUS
    <3>2. /\ r \in QueueRecords /\ r.slot = w /\ r.tv = timeline + 1
      BY <2>1, <2>3, <3>1 DEF QueueRecords, StreamTypes
    <3>3. queue' = Append(queue, r) BY <2>8, <3>1 DEF NextTimeline
    <3> DEFINE n == Len(queue)
    <3>4. /\ queue' \in Seq(QueueRecords) /\ n \in Nat /\ Len(queue') = n + 1
          /\ \A i \in 1..n : queue'[i] = queue[i]
          /\ queue'[n + 1] = r
      BY <3>2, <3>3 DEF StreamTypes
    <3> HIDE DEF n
    <3>5. Places = 1..n /\ Places' = 1..(n + 1) BY <3>4 DEF Places, n
    <3>6. \A i \in Places' : \/ i \in Places /\ queue'[i] = queue[i]
                             \/ i = n + 1 /\ queue'[i] = r
      <4> SUFFICES ASSUME NEW i \in 1..(n + 1)
                   PROVE  \/ i \in 1..n /\ queue'[i] = queue[i]
                          \/ i = n + 1 /\ queue'[i] = r
        BY <3>5
      <4>1. i \in 1..n \/ i = n + 1 BY <3>4
      <4>2. CASE i \in 1..n BY <3>4, <4>2
      <4>3. CASE i = n + 1 BY <3>4, <4>3, Zenon
      <4> QED BY <4>1, <4>2, <4>3
    <3>7. StreamTypes' BY <2>3, <2>4, <2>5, <2>8, <3>4 DEF StreamTypes
    <3>8. \A i \in Places' : slotState'[queue'[i].slot] = "ready"
      BY <2>3, <2>6, <2>8, <3>2, <3>6 DEF StreamTypes, SlotsInv, QueueRecords
    <3>9. ASSUME NEW s \in Slots, slotState'[s] = "ready"
          PROVE  \E i \in Places' : queue'[i].slot = s
      <4>1. CASE s = w BY <3>2, <3>4, <3>5, <4>1
      <4>2. CASE s # w
        <5>1. slotState[s] = "ready" BY <2>8, <3>9, <4>2 DEF StreamTypes
        <5>2. PICK i \in Places : queue[i].slot = s BY <5>1 DEF SlotsInv
        <5> QED BY <3>4, <3>5, <5>2
      <4> QED BY <4>1, <4>2
    <3>10. \A i, j \in Places' : queue'[i].slot = queue'[j].slot => i = j
      BY <2>6, <3>2, <3>6 DEF SlotsInv
    <3>11. Staging' = Staging BY <2>3, <2>8 DEF Staging, StreamTypes
    <3>12. SlotsInv' BY <2>8, <3>8, <3>9, <3>10, <3>11 DEF SlotsInv
    <3>13. \A i \in Places : queue[i].tv \in Nat /\ queue[i].tv <= timeline
      BY <2>6 DEF QueueRecords, OrderInv
    <3>14. ASSUME NEW i \in Places', NEW j \in Places', i < j PROVE queue'[i].tv < queue'[j].tv
      <4>1. i \in Places /\ queue'[i] = queue[i] BY <3>5, <3>6, <3>14, <3>4
      <4>2. CASE j \in Places /\ queue'[j] = queue[j] BY <3>14, <4>1, <4>2 DEF OrderInv
      <4>3. CASE j = n + 1 /\ queue'[j] = r BY <3>2, <3>13, <4>1, <4>3 DEF StreamTypes
      <4> QED BY <3>6, <4>2, <4>3
    <3>15. \A i \in Places' : queue'[i].tv >= 1 /\ queue'[i].tv <= timeline'
      BY <2>4, <3>2, <3>6, <3>13 DEF OrderInv, StreamTypes
    <3> QED BY <3>7, <3>12, <3>14, <3>15 DEF OrderInv
  <2> QED BY <1>2, <2>2, <2>7, <2>8, Zenon DEF PrefetchLayer
<1> QED BY <1>1, <1>2

\* A record that a wait takes out of the queue takes its slot with it, and the answer
\* carries data whenever the shard has the tensor.
LEMMA WaitInv ==
    ASSUME NEW key, StreamIInv, WaitForLayer(key)
    PROVE  StreamIInv'
<1>1. \A i \in Places : queue[i] \in QueueRecords /\ queue[i].tv >= 1
  BY DEF StreamIInv, StreamTypes, OrderInv, Places
<1>2. Matching(key) \in SUBSET Places BY DEF Matching, Places, StreamIInv, StreamTypes
<1>3. Matching(key) # {} => Min(Matching(key)) \in Places
  <2>1. Matching(key) \in SUBSET Nat BY <1>2 DEF Places
  <2> QED BY <1>2, <2>1, MinIn
<1>4. Decision(key) = "cpu"
  <2>1. SUFFICES ASSUME Matching(key) # {}, Signalled(queue[Min(Matching(key))].tv) PROVE FALSE
    BY Zenon DEF Decision
  <2>2. PICK i \in Places : i = Min(Matching(key)) BY <1>3, <2>1
  <2>3. queue[i].tv <= 0 BY <2>1, <2>2 DEF Signalled
  <2> QED BY <1>1, <2>3 DEF QueueRecords
<1>5. AnswerUsable'
  <2>1. answer' = [key |-> key, decision |-> "cpu", data |-> InShard(key)]
    BY <1>4 DEF WaitForLayer, InShard
  <2>2. answer'.data = InShard(answer'.key) BY <2>1
  <2> QED BY <2>2 DEF AnswerUsable, InShard
<1>6. UNCHANGED <<writeIndex, timeline, failed>> BY DEF WaitForLayer
<1>7. CASE Matching(key) = {}
  <2>1. UNCHANGED <<queue, slotState>> BY <1>7, Zenon DEF WaitForLayer
  <2> QED BY <1>5, <1>6, <2>1 DEF StreamIInv, StreamTypes, SlotsInv, OrderInv, Places, Staging
<1>8. CASE Matching(key) # {}
  <2>1. PICK p \in Places : p = Min(Matching(key)) BY <1>3, <1>8
  <2>2. PICK w : w = queue[p].slot OBVIOUS
  <2>3. queue' = RemoveAt(queue, p) /\ slotState' = [slotState EXCEPT ![w] = "free"]
    BY <1>8, <2>1, <2>2, Zenon DEF WaitForLayer, Released
  <2>4. w \in Slots /\ slotState[w] = "ready"
    BY <1>1, <2>2 DEF QueueRecords, StreamIInv, SlotsInv
  <2> DEFINE n == Len(queue)
             m == n - 1
             Old(i) == IF i < p THEN i ELSE i + 1
  <2>5. p \in 1..Len(queue) /\ queue \in Seq(QueueRecords) /\ n \in Nat
    BY <2>1 DEF Places, StreamIInv, StreamTypes
  <2>6. /\ queue' \in Seq(QueueRecords) /\ Len(queue') = m
        /\ \A i \in 1..m : queue'[i] = IF i < p THEN queue[i] ELSE queue[i + 1]
    BY <2>3, <2>5, RemoveAtIs
  <2>7. Places = 1..n /\ Places' = 1..m BY <2>5, <2>6 DEF Places
  <2> HIDE DEF n
  <2>8. \A i \in Places' : Old(i) \in Places /\ Old(i) # p /\ queue'[i] = queue[Old(i)]
    BY <2>5, <2>6, <2>7
  <2>9. \A i, j \in Places' : (Old(i) = Old(j) => i = j) /\ (i < j => Old(i) < Old(j))
    BY <2>5, <2>7
  <2>10. \A k \in Places : k # p => \E i \in Places' : Old(i) = k
    <3> SUFFICES ASSUME NEW k \in Places, k # p PROVE \E i \in Places' : Old(i) = k OBVIOUS
    <3>1. CASE k < p BY <2>5, <2>7, <3>1
    <3>2. CASE k > p
      <4>1. k - 1 \in Places' /\ Old(k - 1) = k BY <2>5, <2>7, <3>2
      <4> QED BY <4>1
    <3> QED BY <2>5, <2>7, <3>1, <3>2
  <2> HIDE DEF Old, m
  <2>11. StreamTypes' BY <1>6, <2>3, <2>6 DEF StreamIInv, StreamTypes
  <2>12. \A i \in Places' : slotState'[queue'[i].slot] = "ready"
    <3> SUFFICES ASSUME NEW i \in Places' PROVE slotState'[queue'[i].slot] = "ready" OBVIOUS
    <3>1. PICK k \in Places : k # p /\ queue'[i] = queue[k] BY <2>8
    <3>2. queue[k].slot # w BY <2>1, <2>2, <3>1 DEF StreamIInv, SlotsInv
    <3>3. queue[k].slot \in Slots /\ slotState[queue[k].slot] = "ready"
      BY <1>1 DEF QueueRecords, StreamIInv, SlotsInv
    <3> QED BY <2>3, <3>1, <3>2, <3>3 DEF StreamIInv, StreamTypes
  <2>13. ASSUME NEW s \in Slots, slotState'[s] = "ready"
         PROVE  \E i \in Places' : queue'[i].slot = s
    <3>1. s # w /\ slotState[s] = "ready" BY <2>3, <2>4, <2>13 DEF StreamIInv, StreamTypes
    <3>2. PICK k \in Places : queue[k].slot = s BY <3>1 DEF StreamIInv, SlotsInv
    <3>3. k # p BY <2>2, <3>1, <3>2
    <3> QED BY <2>8, <2>10, <3>2, <3>3
  <2>14. \A i, j \in Places' : queue'[i].slot = queue'[j].slot => i = j
    <3> SUFFICES ASSUME NEW i \in Places', NEW j \in Places', queue'[i].slot = queue'[j].slot
                 PROVE  i = j
      OBVIOUS
    <3>1. /\ Old(i) \in Places /\ queue'[i] = queue[Old(i)]
          /\ Old(j) \in Places /\ queue'[j] = queue[Old(j)]
      BY <2>8, Zenon
    <3>2. Old(i) = Old(j) BY <3>1 DEF StreamIInv, SlotsInv
    <3> QED BY <2>9, <3>2, Zenon
  <2>15. Staging' = Staging BY <2>3, <2>4 DEF Staging, StreamIInv, StreamTypes
  <2>16. SlotsInv' BY <1>6, <2>12, <2>13, <2>14, <2>15 DEF StreamIInv, SlotsInv
  <2>17. \A i, j \in Places' : i < j => queue'[i].tv < queue'[j].tv
    BY <2>8, <2>9, Zenon DEF StreamIInv, OrderInv
  <2>18. \A i \in Places' : queue'[i].tv >= 1 /\ queue'[i].tv <= timeline'
    BY <1>6, <2>8 DEF StreamIInv, OrderInv
  <2> QED BY <1>5, <2>11, <2>16, <2>17, <2>18 DEF StreamIInv, OrderInv
<1> QED BY <1>7, <1>8

\* Releasing what is pending frees the slots of the queue and no other.
LEMMA ReleaseInv ==
    ASSUME StreamIInv, ReleasePending
    PROVE  StreamIInv'
<1>1. ToSet(queue) = {queue[i] : i \in Places}
  BY DEF ToSet, Places, StreamIInv, StreamTypes
<1>2. \A s \in Slots : (\E r \in ToSet(queue) : r.slot = s) <=> slotState[s] = "ready"
  <2> SUFFICES ASSUME NEW s \in Slots
               PROVE  (\E i \in Places : queue[i].slot = s) <=> slotState[s] = "ready"
    BY <1>1
  <2> QED BY DEF StreamIInv, SlotsInv
<1>3. /\ slotState' = [s \in Slots |-> IF slotState[s] = "ready" THEN "free" ELSE slotState[s]]
      /\ queue' = <<>>
      /\ UNCHANGED <<writeIndex, timeline, answer, failed>>
  BY <1>2 DEF ReleasePending
<1>4. Places' = {} /\ queue' \in Seq(QueueRecords) BY <1>3 DEF Places
<1>5. Staging' = Staging BY <1>3 DEF Staging
<1>6. StreamTypes' BY <1>3, <1>4 DEF StreamIInv, StreamTypes
<1>7. \A s \in Slots : slotState'[s] # "ready" BY <1>3
<1>8. SlotsInv' BY <1>3, <1>4, <1>5, <1>7 DEF StreamIInv, SlotsInv
<1>9. OrderInv' BY <1>4 DEF OrderInv
<1> QED BY <1>3, <1>6, <1>8, <1>9 DEF StreamIInv, AnswerUsable

LEMMA StreamInitInv == StreamInit => StreamIInv
<1> SUFFICES ASSUME StreamInit PROVE StreamIInv OBVIOUS
<1>1. Places = {} /\ queue \in Seq(QueueRecords) BY DEF StreamInit, Places
<1>2. Staging = {} BY DEF StreamInit, Staging
<1>3. Cardinality(Staging) = 0 BY <1>2, FS_EmptySet
<1>4. StreamTypes BY <1>1, StreamAssumption DEF StreamInit, StreamTypes, Slots
<1>5. SlotsInv BY <1>1, <1>3 DEF StreamInit, SlotsInv
<1> QED BY <1>1, <1>4, <1>5 DEF StreamInit, StreamIInv, OrderInv, AnswerUsable

LEMMA StreamStep == StreamIInv /\ [StreamNext]_streamVars => StreamIInv'
<1> SUFFICES ASSUME StreamIInv, [StreamNext]_streamVars PROVE StreamIInv' OBVIOUS
<1>1. ASSUME UNCHANGED <<slotState, writeIndex, timeline, queue, answer, failed>> PROVE StreamIInv'
  BY <1>1 DEF StreamIInv, StreamTypes, SlotsInv, OrderInv, AnswerUsable, Places, Staging
<1>2. ASSUME NEW key \in Keys, CallPrefetch(key) PROVE StreamIInv'
  <2>1. timeline < MaxTimeline /\ PrefetchLayer(key) /\ UNCHANGED answer BY <1>2 DEF CallPrefetch
  <2> QED BY <2>1, PrefetchInv, Zenon DEF StreamIInv, AnswerUsable
<1>3. CASE PrefetchStep
  <2>1. timeline < MaxTimeline /\ PrefetchLayer(Head(todo)) /\ UNCHANGED answer
    BY <1>3 DEF PrefetchStep
  <2> QED BY <2>1, PrefetchInv, Zenon DEF StreamIInv, AnswerUsable
<1>4. ASSUME NEW key \in Keys, WaitForLayer(key) PROVE StreamIInv' BY <1>4, WaitInv
<1>5. CASE ReleasePending BY <1>5, ReleaseInv
<1>6. ASSUME NEW l \in 0..(StreamLayers - 1), PrefetchKAhead(l) \/ PrefetchWithDspark(l)
      PROVE  StreamIInv'
  BY <1>1, <1>6, Zenon DEF PrefetchKAhead, PrefetchWithDspark
<1>7. ASSUME NEW k \in 0..MaxAhead, SetK(k) PROVE StreamIInv' BY <1>1, <1>7, Zenon DEF SetK
<1>8. CASE DropEngine BY <1>1, <1>8, Zenon DEF DropEngine
<1>9. CASE UNCHANGED streamVars BY <1>1, <1>9, Zenon DEF streamVars
<1> QED BY <1>2, <1>3, <1>4, <1>5, <1>6, <1>7, <1>8, <1>9, Zenon DEF StreamNext

LEMMA StreamIInvImplies == StreamIInv => StreamInv
<1> SUFFICES ASSUME StreamIInv PROVE StreamInv OBVIOUS
<1>1. DOMAIN queue = Places BY DEF Places, StreamIInv, StreamTypes
<1>2. \A i \in Places : queue[i] \in QueueRecords BY DEF Places, StreamIInv, StreamTypes
<1>3. StreamTypeOK BY <1>1, <1>2 DEF StreamTypeOK, StreamIInv, StreamTypes, QueueRecords
<1>4. {r.slot : r \in ToSet(queue)} = {queue[i].slot : i \in Places} BY <1>1 DEF ToSet
<1>5. \A i \in Places : queue[i].slot \in Slots BY <1>2 DEF QueueRecords
<1>6. {i \in Slots : slotState[i] = "ready"} = {queue[i].slot : i \in Places}
  BY <1>5 DEF StreamIInv, SlotsInv
<1>7. SlotsAccounted
  BY <1>1, <1>4, <1>6, Zenon DEF SlotsAccounted, StreamIInv, SlotsInv, Staging
<1>8. \A i \in Places : queue[i].tv \in 1..timeline
  BY <1>2 DEF StreamIInv, OrderInv, QueueRecords, StreamTypes
<1>9. QueueInTimelineOrder BY <1>1, <1>8, Zenon DEF QueueInTimelineOrder, StreamIInv, OrderInv
<1> QED BY <1>3, <1>7, <1>9 DEF StreamInv, StreamIInv

\* HyperStreamEngine with TripleBuffer: whatever uploads fail, waits time out and
\* releases come in between, no slot is lost or handed out twice, the queue keeps the
\* order of the timeline, and a wait answers with data whenever the shard has the
\* tensor, for every shard and every length of run.
THEOREM StreamAgrees == StreamSpec => []StreamInv
<1>1. StreamSpec => []StreamIInv BY StreamInitInv, StreamStep, PTL DEF StreamSpec
<1> QED BY <1>1, StreamIInvImplies, PTL

-----------------------------------------------------------------------------
(***************************************************************************)
(* The executor's layer loop.  GpuInv needs what each point of the loop    *)
(* has done so far: the nodes still in the graph, each with the dependency *)
(* its chain asks for, and the outputs computed in this layer.             *)
(***************************************************************************)

\* The barriers a node of a submitted command buffer must have
Wanted(u) ==
    IF u[3] \in DOMAIN Predecessor THEN {<<u[1], u[2], Predecessor[u[3]]>>} ELSE {}

OpNames == {"q", "k", "v", "o", "gate", "up", "down", "attn"}
GraphNodes == [uid : Nat \X Nat \X OpNames, op : HasOutput, deps : SUBSET Nat]

\* Every node depends on the one before it in its chain, by its index in the graph
Linked(ns, i) ==
    \/ ns[i].deps = {} /\ Wanted(ns[i].uid) = {}
    \/ i > 1 /\ ns[i].deps = {i - 1} /\ Wanted(ns[i].uid) = {ns[i - 1].uid}
Chained(ns) == \A i \in 1..Len(ns) : Linked(ns, i)

\* What a call adds: a chain from its first op on
IsChain(ops) ==
    /\ ops \in Seq(OpNames)
    /\ Len(ops) > 0 => ops[1] \notin DOMAIN Predecessor
    /\ \A j \in 2..Len(ops) : ops[j] \in DOMAIN Predecessor /\ Predecessor[ops[j]] = ops[j - 1]

LoopTypes ==
    /\ bufs \in 0..ContextBuffers
    /\ prefix \in [Layers -> 0..WeightBuffers]
    /\ loaded \in [Layers -> BOOLEAN]
    /\ ring \in [0..(Window - 1) -> (Layers \X (0..LastPos)) \cup {Junk}]
    /\ origin \in [Outputs -> {"none", "cpu", "device"}]
    /\ fence \in Fences
    /\ layer \in Layers /\ ahead \in Nat
    /\ pos \in 0..(LastPos + 1)
    /\ pc # "done" => pos <= LastPos
    /\ pc \in {"prefill", "prefilled"} => pos < PromptLen

NodesAt ==
    /\ Len(nodes) <= 7
    /\ pc # "attn" => Len(nodes) <= 4
    /\ pc \in {"prefill", "prefilled", "o"} => Len(nodes) = 0
    /\ pc = "gateup" => Len(nodes) <= 1
    /\ pc = "down" => Len(nodes) <= 3

GraphInv ==
    /\ nodes \in Seq(GraphNodes) /\ Chained(nodes)
    /\ nodeCount \in [Contexts -> Nat] /\ nodeCount[Ctx] = 0
    /\ ~HasCtx => nodes = <<>>
    /\ ChainsHaveBarriers

Computed(o) == origin[o] # "none" /\ (~HasCtx => origin[o] = "cpu")
OutputsAt ==
    /\ pc \in {"attn", "o", "gateup", "down", "prefetch"} => Computed("qkv")
    /\ pc \in {"o", "gateup", "down", "prefetch"} => Computed("attn")
    /\ pc \in {"gateup", "down", "prefetch"} => Computed("wo")
    /\ pc \in {"down", "prefetch"} => Computed("gateup")
    /\ pc \in {"prefetch"} => Computed("down")

GpuIInv == LoopTypes /\ NodesAt /\ GraphInv /\ OutputsAt /\ LoadedIsResident /\ LostFenceFallsBack

-----------------------------------------------------------------------------
(* The graph *)

LEMMA Predecessors ==
    /\ DOMAIN Predecessor = {"k", "v", "up"}
    /\ Predecessor["k"] = "q" /\ Predecessor["v"] = "k" /\ Predecessor["up"] = "gate"
BY DEF Predecessor

LEMMA Chains ==
    /\ IsChain(<<"q", "k", "v">>) /\ IsChain(<<"o">>)
    /\ IsChain(<<"gate", "up">>) /\ IsChain(<<"down">>)
<1>1. IsChain(<<"q", "k", "v">>)
  <2> DEFINE s == <<"q", "k", "v">>
  <2>1. s \in Seq(OpNames) /\ Len(s) = 3 /\ s[1] = "q" /\ s[2] = "k" /\ s[3] = "v" BY DEF OpNames
  <2> HIDE DEF s
  <2>2. \A j \in 2..Len(s) : (j = 2 /\ j - 1 = 1) \/ (j = 3 /\ j - 1 = 2) BY <2>1
  <2>3. s[1] \notin DOMAIN Predecessor BY <2>1, Predecessors
  <2>4. ASSUME NEW j \in 2..Len(s)
        PROVE  s[j] \in DOMAIN Predecessor /\ Predecessor[s[j]] = s[j - 1]
    <3>1. CASE j = 2 /\ j - 1 = 1 BY <2>1, <3>1, Predecessors
    <3>2. CASE j = 3 /\ j - 1 = 2 BY <2>1, <3>2, Predecessors
    <3> QED BY <2>2, <3>1, <3>2
  <2>5. IsChain(s) BY <2>1, <2>3, <2>4 DEF IsChain
  <2> QED BY <2>5 DEF s
<1>2. IsChain(<<"gate", "up">>)
  <2> DEFINE s == <<"gate", "up">>
  <2>1. s \in Seq(OpNames) /\ Len(s) = 2 /\ s[1] = "gate" /\ s[2] = "up" BY DEF OpNames
  <2> HIDE DEF s
  <2>2. \A j \in 2..Len(s) : j = 2 /\ j - 1 = 1 BY <2>1
  <2>3. s[1] \notin DOMAIN Predecessor BY <2>1, Predecessors
  <2>4. ASSUME NEW j \in 2..Len(s)
        PROVE  s[j] \in DOMAIN Predecessor /\ Predecessor[s[j]] = s[j - 1]
    BY <2>1, <2>2, Predecessors
  <2>5. IsChain(s) BY <2>1, <2>3, <2>4 DEF IsChain
  <2> QED BY <2>5 DEF s
<1>3. \A o \in {"o", "down"} : IsChain(<<o>>)
  <2> SUFFICES ASSUME NEW o \in {"o", "down"} PROVE IsChain(<<o>>) OBVIOUS
  <2>1. <<o>> \in Seq(OpNames) /\ Len(<<o>>) = 1 /\ <<o>>[1] = o BY DEF OpNames
  <2>2. o \notin DOMAIN Predecessor BY Predecessors
  <2> QED BY <2>1, <2>2 DEF IsChain
<1> QED BY <1>1, <1>2, <1>3

\* The nodes of a call are numbered from the end of the graph, so their dependencies
\* stay right whatever earlier calls left there.
LEMMA GemvChained ==
    ASSUME NEW ops, IsChain(ops), nodes \in Seq(GraphNodes), Chained(nodes),
           pos \in Nat, layer \in Nat
    PROVE  LET ns == nodes \o GemvNodes(ops)
           IN  ns \in Seq(GraphNodes) /\ Len(ns) = Len(nodes) + Len(ops) /\ Chained(ns)
<1> DEFINE n == Len(nodes)
           added == GemvNodes(ops)
           ns == nodes \o added
<1>1. ops \in Seq(OpNames) /\ DOMAIN ops = 1..Len(ops) /\ Len(ops) \in Nat /\ n \in Nat
  BY DEF IsChain
<1>2. \A j \in 1..Len(ops) :
        /\ added[j] \in GraphNodes
        /\ added[j].uid = <<pos, layer, ops[j]>>
        /\ added[j].deps = IF j = 1 THEN {} ELSE {n + j - 1}
  <2> SUFFICES ASSUME NEW j \in 1..Len(ops)
               PROVE  /\ added[j] \in GraphNodes
                      /\ added[j].uid = <<pos, layer, ops[j]>>
                      /\ added[j].deps = IF j = 1 THEN {} ELSE {n + j - 1}
    OBVIOUS
  <2>1. PICK d : d = IF j = 1 THEN {} ELSE {n + j - 1} OBVIOUS
  <2>2. d \in SUBSET Nat BY <1>1, <2>1
  <2>3. added[j] = [uid |-> <<pos, layer, ops[j]>>, op |-> "gemv", deps |-> d]
    BY <1>1, <2>1 DEF GemvNodes, Node, Uid
  <2>4. ops[j] \in OpNames BY <1>1
  <2> QED BY <2>1, <2>2, <2>3, <2>4 DEF GraphNodes, HasOutput
<1>3. added \in Seq(GraphNodes) /\ Len(added) = Len(ops)
  <2>1. DOMAIN added = 1..Len(ops) BY <1>1 DEF GemvNodes
  <2>2. added \in [1..Len(ops) -> GraphNodes] BY <1>1, <1>2, <2>1 DEF GemvNodes
  <2> HIDE DEF added
  <2> QED BY <1>1, <2>1, <2>2
<1> HIDE DEF added, n
<1>4. /\ ns \in Seq(GraphNodes) /\ Len(ns) = Len(nodes) + Len(added)
      /\ \A i \in 1..(Len(nodes) + Len(added)) :
            ns[i] = IF i <= Len(nodes) THEN nodes[i] ELSE added[i - Len(nodes)]
  BY <1>3, ConcatProperties, Zenon
<1> HIDE DEF ns
<1>5. Len(ns) = n + Len(ops) BY <1>3, <1>4 DEF n
<1>6. \A i \in 1..n : ns[i] = nodes[i] BY <1>1, <1>3, <1>4 DEF n
<1>7. \A j \in 1..Len(ops) : ns[n + j] = added[j]
  <2> SUFFICES ASSUME NEW j \in 1..Len(ops) PROVE ns[n + j] = added[j] OBVIOUS
  <2>1. n + j \in 1..(n + Len(ops)) /\ ~(n + j <= n) /\ n + j - n = j BY <1>1
  <2> QED BY <1>3, <1>4, <2>1 DEF n
<1>8. ASSUME NEW i \in 1..Len(ns) PROVE Linked(ns, i)
  <2>1. CASE i \in 1..n
    <3>1. Linked(nodes, i) BY <2>1 DEF Chained, n
    <3>2. i > 1 => i - 1 \in 1..n BY <1>1, <2>1
    <3> QED BY <1>6, <2>1, <3>1, <3>2 DEF Linked
  <2>2. CASE i \notin 1..n
    <3>1. PICK j \in 1..Len(ops) : i = n + j
      <4>1. i - n \in 1..Len(ops) /\ i = n + (i - n) BY <1>1, <1>5, <2>2
      <4> QED BY <4>1
    <3>2. /\ ns[i].uid = <<pos, layer, ops[j]>>
          /\ ns[i].deps = IF j = 1 THEN {} ELSE {n + j - 1}
      BY <1>2, <1>7, <3>1
    <3>3. CASE j = 1
      <4>1. Wanted(ns[i].uid) = {} BY <1>1, <3>2, <3>3 DEF Wanted, IsChain
      <4> QED BY <3>2, <3>3, <4>1 DEF Linked
    <3>4. CASE j # 1
      <4>1. j - 1 \in 1..Len(ops) /\ j \in 2..Len(ops) /\ i - 1 = n + (j - 1) /\ i > 1
        BY <1>1, <3>1, <3>4
      <4>2. ns[i - 1].uid = <<pos, layer, ops[j - 1]>> BY <1>2, <1>7, <4>1, ZenonT(40)
      <4>3. ops[j] \in DOMAIN Predecessor /\ Predecessor[ops[j]] = ops[j - 1]
        BY <4>1 DEF IsChain
      <4>4. Wanted(ns[i].uid) = {ns[i - 1].uid} BY <3>2, <4>2, <4>3, SMTT(40) DEF Wanted
      <4>5. ns[i].deps = {i - 1} BY <3>1, <3>2, <3>4, <4>1
      <4> QED BY <4>1, <4>4, <4>5 DEF Linked
    <3> QED BY <3>3, <3>4
  <2> QED BY <2>1, <2>2
<1> QED BY <1>1, <1>4, <1>5, <1>8 DEF Chained, n, ns, added

\* A command buffer recorded from a chained graph has exactly the wanted barriers.
LEMMA BuffersWanted ==
    ASSUME NEW ns \in Seq(GraphNodes), Chained(ns), NEW u \in DOMAIN CommandBuffer(ns)
    PROVE  CommandBuffer(ns)[u] = Wanted(u)
<1>1. PICK i \in 1..Len(ns) : i = CHOOSE k \in DOMAIN ns : ns[k].uid = u
  BY DEF CommandBuffer, UidsOf
<1>2. ns[i].uid = u BY <1>1 DEF CommandBuffer, UidsOf
<1>3. CommandBuffer(ns)[u] = Recorded(ns, i) BY <1>1 DEF CommandBuffer
<1>4. \A k \in 1..Len(ns) : ns[k] \in GraphNodes OBVIOUS
<1>5. ns[i].op # "barrier" BY <1>4 DEF GraphNodes, HasOutput
<1>6. Recorded(ns, i) = {ns[d].uid : d \in {d \in ns[i].deps \cap (1..Len(ns)) : ns[d].op \in HasOutput}}
  BY <1>5 DEF Recorded
<1>7. CASE ns[i].deps = {} /\ Wanted(u) = {} BY <1>3, <1>6, <1>7
<1>8. CASE i > 1 /\ ns[i].deps = {i - 1} /\ Wanted(u) = {ns[i - 1].uid}
  <2>1. i - 1 \in 1..Len(ns) BY <1>8
  <2>2. ns[i - 1].op \in HasOutput BY <1>4, <2>1 DEF GraphNodes
  <2>3. {d \in ns[i].deps \cap (1..Len(ns)) : ns[d].op \in HasOutput} = {i - 1}
    BY <1>8, <2>1, <2>2
  <2> QED BY <1>3, <1>6, <1>8, <2>3
<1> QED BY <1>2, <1>7, <1>8 DEF Chained, Linked

\* A projection leaves its nodes in the graph: node_count stays 0.
LEMMA GemvGraph ==
    ASSUME LoopTypes, GraphInv, HasCtx, UNCHANGED bufs, NEW ops, IsChain(ops), NEW f, Gemv(ops, f)
    PROVE  GraphInv' /\ Len(nodes') = Len(nodes) + Len(ops)
<1>1. nodeCount[Ctx] = 0 BY DEF GraphInv
<1>2. nodes' = nodes \o GemvNodes(ops) /\ UNCHANGED <<nodeCount, submitted>>
  BY <1>1 DEF Gemv, Submit, SubmitGraph
<1>3. pos \in Nat /\ layer \in Nat BY GpuAssumption DEF LoopTypes, Layers
<1>4. nodes' \in Seq(GraphNodes) /\ Len(nodes') = Len(nodes) + Len(ops) /\ Chained(nodes')
  BY <1>2, <1>3, GemvChained, Zenon DEF GraphInv
<1>5. HasCtx' BY DEF HasCtx
<1> QED BY <1>2, <1>4, <1>5 DEF GraphInv, ChainsHaveBarriers

\* The attention's node is counted, so its submission carries off the whole graph.
LEMMA AttentionGraph ==
    ASSUME LoopTypes, GraphInv, NEW f, Attention(f)
    PROVE  GraphInv' /\ nodes' = <<>>
<1> DEFINE new == Node(Uid("attn"), "attention", {})
           ns == Append(nodes, new)
<1>1. pos \in Nat /\ layer \in Nat BY GpuAssumption DEF LoopTypes, Layers
<1>2. new \in GraphNodes /\ new.deps = {} /\ new.uid = <<pos, layer, "attn">>
  BY <1>1 DEF Node, Uid, GraphNodes, HasOutput, OpNames
<1> HIDE DEF new
<1>3. nodes \in Seq(GraphNodes) /\ Chained(nodes) BY DEF GraphInv
<1>4. /\ ns \in Seq(GraphNodes) /\ Len(ns) = Len(nodes) + 1 /\ Len(nodes) \in Nat
      /\ \A i \in 1..Len(nodes) : ns[i] = nodes[i]
      /\ ns[Len(nodes) + 1] = new
  BY <1>2, <1>3
<1> HIDE DEF ns
<1>5. Wanted(new.uid) = {} BY <1>2, Predecessors DEF Wanted
<1>6. ASSUME NEW i \in 1..Len(ns) PROVE Linked(ns, i)
  <2>1. CASE i = Len(nodes) + 1 BY <1>2, <1>4, <1>5, <2>1 DEF Linked
  <2>2. CASE i \in 1..Len(nodes)
    <3>1. Linked(nodes, i) BY <1>3, <2>2 DEF Chained
    <3>2. i > 1 => i - 1 \in 1..Len(nodes) BY <1>4, <2>2
    <3> QED BY <1>4, <2>2, <3>1, <3>2 DEF Linked
  <2> QED BY <1>4, <2>1, <2>2
<1>7. Chained(ns) BY <1>6 DEF Chained
<1>8. AttentionCount = 1 BY DEF AttentionCount, GraphInv
<1>9. SubmitGraph(Ctx, ns, AttentionCount) BY DEF Attention, Submit, ns, new
<1>10. /\ nodes' = <<>>
       /\ nodeCount' = [nodeCount EXCEPT ![Ctx] = 0]
       /\ submitted' \in {CommandBuffer(ns), Empty}
  BY <1>8, <1>9 DEF SubmitGraph
<1>11. ASSUME NEW u \in DOMAIN submitted' PROVE submitted'[u] = Wanted(u)
  <2>1. submitted' # Empty BY <1>11 DEF Empty
  <2>2. submitted' = CommandBuffer(ns) BY <1>10, <2>1
  <2> QED BY <1>4, <1>7, <1>11, <2>2, BuffersWanted
<1>12. ChainsHaveBarriers' BY <1>11, Zenon DEF ChainsHaveBarriers, Wanted
<1>13. nodes' \in Seq(GraphNodes) /\ Chained(nodes') BY <1>10 DEF Chained
<1>14. nodeCount' \in [Contexts -> Nat] /\ nodeCount'[Ctx] = 0
  BY <1>10, GpuAssumption DEF GraphInv
<1> QED BY <1>10, <1>12, <1>13, <1>14 DEF GraphInv

-----------------------------------------------------------------------------
(* Weights and the KV ring *)

\* A layer counts as loaded only after an upload that went through, however many
\* stopped before.
LEMMA EnsureInv ==
    ASSUME LoopTypes, LoadedIsResident, NEW l \in Layers, EnsureLoaded(l)
    PROVE  /\ prefix' \in [Layers -> 0..WeightBuffers]
           /\ loaded' \in [Layers -> BOOLEAN]
           /\ LoadedIsResident'
<1>1. CASE UNCHANGED <<prefix, loaded>>
  BY <1>1, Zenon DEF LoopTypes, LoadedIsResident
<1>2. ASSUME NEW n \in UploadCounts,
             prefix' = [prefix EXCEPT ![l] = Max({@, n})],
             loaded' = [loaded EXCEPT ![l] = Resident(n)]
      PROVE  /\ prefix' \in [Layers -> 0..WeightBuffers]
             /\ loaded' \in [Layers -> BOOLEAN]
             /\ LoadedIsResident'
  <2>1. PICK p \in 0..9 : p = prefix[l] BY DEF LoopTypes, WeightBuffers
  <2>2. n \in 0..9 BY DEF UploadCounts, WeightBuffers
  <2>3. PICK m : m = Max({p, n}) OBVIOUS
  <2>4. m \in 0..9 /\ m >= n
    <3>1. \E x \in {p, n} : \A y \in {p, n} : x >= y BY <2>1, <2>2
    <3>2. m \in {p, n} /\ \A y \in {p, n} : m >= y BY <2>3, <3>1 DEF Max
    <3> QED BY <2>1, <2>2, <3>2
  <2>5. prefix' = [prefix EXCEPT ![l] = m] BY <1>2, <2>1, <2>3
  <2>6. prefix' \in [Layers -> 0..WeightBuffers] BY <2>4, <2>5 DEF LoopTypes, WeightBuffers
  <2>7. loaded' \in [Layers -> BOOLEAN]
    <3>1. Resident(n) \in BOOLEAN BY DEF Resident
    <3> QED BY <1>2, <3>1, Zenon DEF LoopTypes
  <2>8. ASSUME NEW k \in Layers, loaded'[k] PROVE prefix'[k] = WeightBuffers
    <3>1. CASE k = l
      <4>1. Resident(n) BY <1>2, <2>8, <3>1, Zenon DEF LoopTypes
      <4>2. m = 9 BY <2>2, <2>4, <4>1 DEF Resident, WeightBuffers
      <4> QED BY <2>5, <3>1, <4>2 DEF LoopTypes, WeightBuffers
    <3>2. CASE k # l
      <4>1. loaded[k] BY <1>2, <2>8, <3>2, Zenon DEF LoopTypes
      <4>2. prefix'[k] = prefix[k] BY <2>5, <3>2 DEF LoopTypes
      <4> QED BY <4>1, <4>2 DEF LoadedIsResident
    <3> QED BY <3>1, <3>2
  <2> QED BY <2>6, <2>7, <2>8 DEF LoadedIsResident
<1> QED BY <1>1, <1>2, Zenon DEF EnsureLoaded

LEMMA RingInv ==
    ASSUME LoopTypes, pos <= LastPos, UploadKV
    PROVE  ring' \in [0..(Window - 1) -> (Layers \X (0..LastPos)) \cup {Junk}]
<1>1. <<layer, pos>> \in Layers \X (0..LastPos) BY GpuAssumption DEF LoopTypes
<1> QED BY <1>1 DEF UploadKV, LoopTypes

LEMMA OriginIs ==
    ASSUME NEW launched \in BOOLEAN, NEW synced \in BOOLEAN
    PROVE  /\ Origin(launched, synced) \in {"cpu", "device"}
           /\ ~launched => Origin(launched, synced) = "cpu"
BY Zenon DEF Origin

\* What a projection does, whichever it is.
LEMMA ProjectInv ==
    ASSUME GpuIInv, NEW at, NEW output \in Outputs, NEW ops, IsChain(ops), NEW needed, NEW next,
           Project(at, output, ops, needed, next)
    PROVE  /\ pc = at /\ pc' = next
           /\ UNCHANGED <<layer, pos, ahead, bufs, prefix, loaded, ring>>
           /\ GraphInv'
           /\ Len(nodes') <= Len(nodes) + Len(ops)
           /\ origin' \in [Outputs -> {"none", "cpu", "device"}]
           /\ \A o \in Outputs \ {output} : origin'[o] = origin[o]
           /\ Computed(output)'
           /\ fence' \in Fences
           /\ fence' = "lost" => fence = "lost" /\ origin'[output] = "cpu"
<1>1. /\ pc = at /\ pc' = next
      /\ UNCHANGED <<layer, pos, ahead, bufs, prefix, loaded, ring>>
  BY Zenon DEF Project, Goto, KeepWeights
<1>2. HasCtx' = HasCtx BY <1>1 DEF HasCtx
<1>3. PICK launched \in BOOLEAN, synced \in BOOLEAN :
        /\ launched => HasCtx
        /\ IF launched THEN \E f \in Fences : Gemv(ops, f) /\ Sync(f, synced)
           ELSE UNCHANGED <<fence, graphVars>>
        /\ origin' = [origin EXCEPT ![output] = Origin(launched, synced)]
  BY Zenon DEF Project
<1>4. Len(ops) \in Nat /\ Len(nodes) \in Nat BY DEF IsChain, GpuIInv, GraphInv
<1>5. GraphInv' /\ Len(nodes') <= Len(nodes) + Len(ops)
  <2>1. CASE launched
    <3>1. PICK f \in Fences : Gemv(ops, f) BY <1>3, <2>1, Zenon
    <3>2. GraphInv' /\ Len(nodes') = Len(nodes) + Len(ops)
      BY <1>1, <1>3, <2>1, <3>1, GemvGraph, Zenon DEF GpuIInv
    <3> QED BY <1>4, <3>2
  <2>2. CASE ~launched
    <3>1. UNCHANGED graphVars BY <1>3, <2>2, Zenon
    <3>2. Len(nodes') <= Len(nodes) + Len(ops) BY <1>4, <3>1 DEF graphVars
    <3> QED BY <1>2, <3>1, <3>2 DEF graphVars, GpuIInv, GraphInv, ChainsHaveBarriers
  <2> QED BY <2>1, <2>2
<1>6. PICK v : v = Origin(launched, synced) OBVIOUS
<1>7. v \in {"cpu", "device"} /\ (~HasCtx => v = "cpu") BY <1>3, <1>6, OriginIs, Zenon
<1>8. origin' = [origin EXCEPT ![output] = v] BY <1>3, <1>6
<1>9. origin \in [Outputs -> {"none", "cpu", "device"}] BY DEF GpuIInv, LoopTypes
<1>10. /\ origin' \in [Outputs -> {"none", "cpu", "device"}]
       /\ \A o \in Outputs \ {output} : origin'[o] = origin[o]
       /\ origin'[output] = v
  BY <1>7, <1>8, <1>9
<1>11. Computed(output)' BY <1>2, <1>7, <1>10, Zenon DEF Computed
<1>12. /\ fence' \in Fences
       /\ fence' = "lost" => fence = "lost" /\ v = "cpu"
  <2>1. CASE launched
    <3>1. PICK f \in Fences : Gemv(ops, f) /\ Sync(f, synced) BY <1>3, <2>1, Zenon
    <3>2. f = fence
      <4>1. nodeCount[Ctx] = 0 BY DEF GpuIInv, GraphInv
      <4> QED BY <3>1, <4>1 DEF Gemv, Submit
    <3>3. fence' = (IF synced THEN "signalled" ELSE fence) BY <3>1, <3>2, Zenon DEF Sync
    <3>4. CASE synced BY <3>3, <3>4 DEF Fences
    <3>5. CASE ~synced
      <4>1. v = "cpu" BY <1>6, <3>5, Zenon DEF Origin
      <4> QED BY <3>3, <3>5, <4>1 DEF GpuIInv, LoopTypes
    <3> QED BY <3>4, <3>5
  <2>2. CASE ~launched
    <3>1. fence' = fence BY <1>3, <2>2, Zenon
    <3>2. v = "cpu" BY <1>6, <2>2, OriginIs, Zenon
    <3> QED BY <3>1, <3>2 DEF GpuIInv, LoopTypes
  <2> QED BY <2>1, <2>2
<1> QED BY <1>1, <1>5, <1>10, <1>11, <1>12

-----------------------------------------------------------------------------
(* The loop *)

LEMMA GpuInitInv == GpuInit => GpuIInv
<1> SUFFICES ASSUME GpuInit PROVE GpuIInv OBVIOUS
<1>1. LoopTypes
  <2>1. bufs \in 0..ContextBuffers BY DEF GpuInit, ContextBuffers
  <2>2. 0 \in Layers BY GpuAssumption DEF Layers
  <2> QED BY <2>1, <2>2, GpuAssumption DEF GpuInit, LoopTypes, WeightBuffers, Fresh, Fences
<1>2. nodes = <<>> /\ nodes \in Seq(GraphNodes) /\ Len(nodes) = 0
  BY DEF GpuInit, GraphInit
<1>3. GraphInv
  <2>1. Chained(nodes) BY <1>2 DEF Chained
  <2>2. nodeCount \in [Contexts -> Nat] /\ nodeCount[Ctx] = 0
    BY GpuAssumption DEF GpuInit, GraphInit
  <2>3. ChainsHaveBarriers BY DEF GpuInit, GraphInit, Empty, ChainsHaveBarriers
  <2> QED BY <1>2, <2>1, <2>2, <2>3 DEF GraphInv
<1>4. NodesAt BY <1>2 DEF NodesAt
<1>5. OutputsAt BY DEF GpuInit, OutputsAt
<1>6. LoadedIsResident BY DEF GpuInit, LoadedIsResident
<1>7. LostFenceFallsBack BY DEF GpuInit, LostFenceFallsBack
<1> QED BY <1>1, <1>3, <1>4, <1>5, <1>6, <1>7 DEF GpuIInv

\* What stays when an operation leaves the graph or the weights alone.
LEMMA GraphStays ==
    ASSUME GraphInv, UNCHANGED <<bufs, graphVars>>
    PROVE  GraphInv'
BY DEF GraphInv, graphVars, HasCtx, ChainsHaveBarriers

LEMMA WeightsStay ==
    ASSUME LoadedIsResident, UNCHANGED <<prefix, loaded>>
    PROVE  LoadedIsResident'
BY DEF LoadedIsResident

LEMMA ComputedStays ==
    ASSUME NEW o, Computed(o), UNCHANGED bufs, origin'[o] = origin[o]
    PROVE  Computed(o)'
BY DEF Computed, HasCtx

\* Between the layers nothing is said of a lost fence.
LEMMA NoneAfterLoss ==
    ASSUME pc' \notin {"attn", "o", "gateup", "down", "prefetch"}
    PROVE  LostFenceFallsBack'
BY DEF LostFenceFallsBack, AfterLoss, Outputs

\* The first and the last position of a chunk lie in the prompt.
LEMMA ChunkIs ==
    ASSUME pos \in Nat, pos < PromptLen
    PROVE  /\ ChunkStart \in 0..pos
           /\ ChunkEnd <= PromptLen
<1>1. PICK n \in Nat : n = ChunkSize BY GpuAssumption
<1>2. n > 0 BY <1>1, GpuAssumption
<1>3. pos % n \in 0..(n - 1) /\ pos % n <= pos
  BY <1>2, SMTT(30)
<1>4. ChunkStart \in 0..pos BY <1>1, <1>3 DEF ChunkStart
<1>5. ChunkStart + n \in Nat BY <1>4
<1>6. {ChunkStart + n, PromptLen} \in SUBSET Nat BY <1>5, GpuAssumption
<1>7. ChunkEnd <= PromptLen BY <1>1, <1>6, MinIn DEF ChunkEnd
<1> QED BY <1>4, <1>7

LEMMA PrefillAttentionInv ==
    ASSUME GpuIInv, PrefillAttention
    PROVE  GpuIInv'
<1>1. /\ pc = "prefill" /\ pc' = "prefilled"
      /\ UNCHANGED <<layer, pos, ahead, bufs, prefix, loaded>>
  BY Zenon DEF PrefillAttention, Goto, KeepWeights
<1>2. LoopTypes /\ GraphInv BY DEF GpuIInv
<1>3. pos <= LastPos BY <1>1, <1>2, GpuAssumption DEF LoopTypes
<1>4. GraphInv' /\ Len(nodes') = 0
  <2>1. CASE HasCtx
    <3>1. \E f \in Fences : Attention(f) BY <2>1, Zenon DEF PrefillAttention
    <3> QED BY <1>2, <3>1, AttentionGraph
  <2>2. CASE ~HasCtx
    <3>1. UNCHANGED graphVars BY <2>2, Zenon DEF PrefillAttention
    <3>2. GraphInv' BY <1>1, <1>2, <3>1, GraphStays, Zenon
    <3>3. nodes' = <<>> BY <1>2, <2>2, <3>1 DEF GraphInv, graphVars
    <3> QED BY <3>2, <3>3
  <2> QED BY <2>1, <2>2
<1>5. ring' \in [0..(Window - 1) -> (Layers \X (0..LastPos)) \cup {Junk}]
  <2>1. CASE HasCtx
    <3>1. UploadKV BY <2>1, Zenon DEF PrefillAttention
    <3> QED BY <1>2, <1>3, <3>1, RingInv
  <2>2. CASE ~HasCtx
    <3>1. ring' = ring BY <2>2, Zenon DEF PrefillAttention
    <3> QED BY <1>2, <3>1 DEF LoopTypes
  <2> QED BY <2>1, <2>2
<1>6. origin' \in [Outputs -> {"none", "cpu", "device"}]
  BY DEF PrefillAttention, Fresh
<1>7. fence' \in Fences
  BY <1>2 DEF PrefillAttention, Sync, LoopTypes, Fences
<1>8. LoopTypes' BY <1>1, <1>2, <1>5, <1>6, <1>7 DEF LoopTypes
<1>9. NodesAt' BY <1>1, <1>4 DEF NodesAt
<1>10. OutputsAt' BY <1>1 DEF OutputsAt
<1>11. LostFenceFallsBack' BY <1>1, NoneAfterLoss, Zenon
<1> QED BY <1>1, <1>4, <1>8, <1>9, <1>10, <1>11, WeightsStay DEF GpuIInv

\* The operations that only move the loop on.
LEMMA MoveInv ==
    ASSUME GpuIInv, PrefillNext \/ SkipLayer \/ PrefetchDone \/ NextLayer \/ NextToken
    PROVE  GpuIInv'
<1>1. UNCHANGED <<bufs, prefix, loaded, ring, fence, graphVars>>
  BY Zenon DEF PrefillNext, SkipLayer, PrefetchDone, NextLayer, NextToken, Goto, KeepWeights
<1>2. GraphInv' /\ LoadedIsResident' BY <1>1, GraphStays, WeightsStay, Zenon DEF GpuIInv
<1>3. LoopTypes BY DEF GpuIInv
<1>4. layer \in Nat /\ pos \in Nat /\ ahead \in Nat BY <1>3, GpuAssumption DEF LoopTypes, Layers
<1>5. origin' \in [Outputs -> {"none", "cpu", "device"}]
  BY <1>3 DEF LoopTypes, PrefillNext, SkipLayer, PrefetchDone, NextLayer, NextToken, Fresh
<1>6. /\ pc \in {"prefilled", "ensure", "prefetch", "next", "token"}
      /\ pc' \in {"prefill", "ensure", "next", "token", "done"}
      /\ pc' = "prefill" => pc = "prefilled"
  BY DEF PrefillNext, SkipLayer, PrefetchDone, NextLayer, NextToken, Goto
<1>7. /\ layer' \in Layers /\ ahead' \in Nat
      /\ pos' \in 0..(LastPos + 1)
      /\ pc' # "done" => pos' <= LastPos
      /\ pc' \in {"prefill", "prefilled"} => pos' < PromptLen
  <2>1. CASE PrefillNext
    <3>1. pos < PromptLen /\ pos < LastPos BY <1>3, <2>1, GpuAssumption DEF PrefillNext, LoopTypes
    <3>2. ChunkStart \in 0..pos /\ ChunkEnd <= PromptLen BY <1>4, <3>1, ChunkIs
    <3>3. /\ ahead' = ahead /\ pc' \in {"prefill", "ensure"}
          /\ layer' = layer \/ (layer + 1 < NumLayers /\ layer' = layer + 1) \/ layer' = 0
      BY <2>1 DEF PrefillNext
    <3>4. layer' \in Layers BY <1>3, <3>3, GpuAssumption DEF LoopTypes, Layers
    <3>5. \/ pos + 1 < ChunkEnd /\ pos' = pos + 1
          \/ pos' = ChunkStart
          \/ pos' = pos + 1 /\ (pc' = "prefill" => pos + 1 < PromptLen)
      BY <2>1 DEF PrefillNext
    <3>6. ChunkEnd \in Int
      <4>1. ChunkSize \in Nat /\ PromptLen \in Nat BY GpuAssumption
      <4>2. {ChunkStart + ChunkSize, PromptLen} \in SUBSET Nat BY <3>2, <4>1
      <4> QED BY <4>2, MinIn DEF ChunkEnd
    <3>7. pos' \in 0..LastPos /\ (pc' = "prefill" => pos' < PromptLen)
      BY <1>4, <3>1, <3>2, <3>5, <3>6, GpuAssumption
    <3> QED BY <1>3, <3>3, <3>4, <3>7, GpuAssumption DEF LoopTypes
  <2>2. CASE SkipLayer BY <1>3, <2>2 DEF SkipLayer, Goto, LoopTypes
  <2>3. CASE PrefetchDone BY <1>3, <2>3 DEF PrefetchDone, Goto, LoopTypes
  <2>4. CASE NextLayer
    BY <1>3, <1>4, <2>4, GpuAssumption, SMTT(40) DEF NextLayer, LoopTypes, Layers
  <2>5. CASE NextToken BY <1>3, <2>5 DEF NextToken, LoopTypes
  <2> QED BY <2>1, <2>2, <2>3, <2>4, <2>5
<1>8. LoopTypes' BY <1>1, <1>3, <1>5, <1>7 DEF LoopTypes
<1>9. nodes' = nodes BY <1>1 DEF graphVars
<1>10. NodesAt' BY <1>6, <1>9 DEF NodesAt, GpuIInv
<1>11. OutputsAt' BY <1>6 DEF OutputsAt
<1>12. LostFenceFallsBack' BY <1>6, NoneAfterLoss
<1> QED BY <1>2, <1>8, <1>10, <1>11, <1>12 DEF GpuIInv

LEMMA EnsureStepInv ==
    ASSUME GpuIInv, Ensure \/ Prefetch
    PROVE  GpuIInv'
<1>1. /\ \/ pc = "ensure" /\ pc' = "qkv" /\ ahead' = ahead
         \/ pc = "prefetch" /\ pc' = "prefetch" /\ ahead' = ahead + 1
      /\ UNCHANGED <<layer, pos, bufs, ring, origin, graphVars>>
      /\ fence' \in Fences /\ (pc = "prefetch" => fence' = fence)
  BY DEF Ensure, Prefetch, Goto, Sync, Fences, GpuIInv, LoopTypes
<1>2. LoopTypes /\ LoadedIsResident BY DEF GpuIInv
<1>3. /\ prefix' \in [Layers -> 0..WeightBuffers]
      /\ loaded' \in [Layers -> BOOLEAN]
      /\ LoadedIsResident'
  <2>1. CASE \E l \in Layers : EnsureLoaded(l) BY <1>2, <2>1, EnsureInv
  <2>2. CASE UNCHANGED <<prefix, loaded>>
    BY <1>2, <2>2, WeightsStay, Zenon DEF LoopTypes
  <2>3. CASE Ensure
    <3>1. EnsureLoaded(layer) /\ layer \in Layers BY <1>2, <2>3, Zenon DEF Ensure, LoopTypes
    <3> QED BY <2>1, <3>1
  <2>4. CASE Prefetch
    <3>1. CASE layer + ahead + 1 < NumLayers
      <4>1. EnsureLoaded(layer + ahead + 1) BY <2>4, <3>1, Zenon DEF Prefetch
      <4>2. layer + ahead + 1 \in Layers BY <1>2, <3>1, GpuAssumption DEF LoopTypes, Layers
      <4> QED BY <2>1, <4>1, <4>2, Zenon
    <3>2. CASE ~(layer + ahead + 1 < NumLayers)
      BY <2>2, <2>4, <3>2, Zenon DEF Prefetch, KeepWeights
    <3> QED BY <3>1, <3>2
  <2> QED BY <2>3, <2>4
<1>4. LoopTypes' BY <1>1, <1>2, <1>3 DEF LoopTypes
<1>5. GraphInv' BY <1>1, GraphStays, Zenon DEF GpuIInv
<1>6. NodesAt' BY <1>1 DEF NodesAt, GpuIInv, graphVars
<1>7. OutputsAt' BY <1>1 DEF OutputsAt, GpuIInv, Computed, HasCtx
<1>8. LostFenceFallsBack'
  <2>1. CASE pc' = "qkv" BY <2>1, NoneAfterLoss
  <2>2. CASE pc = "prefetch" /\ pc' = "prefetch"
    BY <1>1, <2>2 DEF GpuIInv, LostFenceFallsBack
  <2> QED BY <1>1, <2>1, <2>2
<1> QED BY <1>3, <1>4, <1>5, <1>6, <1>7, <1>8 DEF GpuIInv

LEMMA DecodeAttentionInv ==
    ASSUME GpuIInv, DecodeAttention
    PROVE  GpuIInv'
<1>1. /\ pc = "attn" /\ pc' = "o" /\ ahead' = 0
      /\ UNCHANGED <<layer, pos, bufs, prefix, loaded>>
  BY Zenon DEF DecodeAttention, KeepWeights
<1>2. LoopTypes /\ GraphInv BY DEF GpuIInv
<1>3. pos <= LastPos BY <1>1, <1>2 DEF LoopTypes
<1>4. GraphInv' /\ Len(nodes') = 0
  <2>1. CASE HasCtx
    <3>1. \E f \in Fences : Attention(f) BY <2>1, Zenon DEF DecodeAttention
    <3> QED BY <1>2, <3>1, AttentionGraph
  <2>2. CASE ~HasCtx
    <3>1. UNCHANGED graphVars BY <2>2, Zenon DEF DecodeAttention
    <3>2. GraphInv' BY <1>1, <1>2, <3>1, GraphStays, Zenon
    <3>3. nodes' = <<>> BY <1>2, <2>2, <3>1 DEF GraphInv, graphVars
    <3> QED BY <3>2, <3>3
  <2> QED BY <2>1, <2>2
<1>5. ring' \in [0..(Window - 1) -> (Layers \X (0..LastPos)) \cup {Junk}]
  <2>1. CASE HasCtx
    <3>1. UploadKV BY <2>1, Zenon DEF DecodeAttention
    <3> QED BY <1>2, <1>3, <3>1, RingInv
  <2>2. CASE ~HasCtx
    <3>1. ring' = ring BY <2>2, Zenon DEF DecodeAttention
    <3> QED BY <1>2, <3>1 DEF LoopTypes
  <2> QED BY <2>1, <2>2
<1>6. PICK synced \in BOOLEAN :
        /\ IF HasCtx THEN \E f \in Fences : Sync(f, synced) ELSE UNCHANGED fence
        /\ origin' = [origin EXCEPT !["attn"] = Origin(HasCtx, synced)]
  BY Zenon DEF DecodeAttention
<1>7. PICK v : v = Origin(HasCtx, synced) OBVIOUS
<1>8. v \in {"cpu", "device"} /\ (~HasCtx => v = "cpu") BY <1>7, Zenon DEF Origin
<1>9. origin' = [origin EXCEPT !["attn"] = v] BY <1>6, <1>7
<1>10. origin \in [Outputs -> {"none", "cpu", "device"}] BY <1>2 DEF LoopTypes
<1>11. /\ origin' \in [Outputs -> {"none", "cpu", "device"}]
       /\ origin'["attn"] = v /\ origin'["qkv"] = origin["qkv"]
  BY <1>8, <1>9, <1>10 DEF Outputs
<1>12. /\ fence' \in Fences
       /\ fence' = "lost" => origin'["attn"] = "cpu"
  BY <1>2, <1>6, <1>7, <1>11 DEF Sync, Fences, Origin, LoopTypes
<1>13. LoopTypes' /\ NodesAt'
  <2>1. LoopTypes' BY <1>1, <1>2, <1>5, <1>11, <1>12 DEF LoopTypes
  <2> QED BY <1>1, <1>4, <2>1 DEF NodesAt
<1>14. Computed("attn")' BY <1>1, <1>8, <1>11, Zenon DEF Computed, HasCtx
<1>15. Computed("qkv")' BY <1>1, <1>11, ComputedStays, Zenon DEF GpuIInv, OutputsAt
<1>16. OutputsAt' BY <1>1, <1>14, <1>15 DEF OutputsAt
<1>17. LostFenceFallsBack' BY <1>1, <1>12 DEF LostFenceFallsBack, AfterLoss, Outputs
<1> QED BY <1>1, <1>4, <1>13, <1>16, <1>17, WeightsStay DEF GpuIInv

\* Each of the four projections adds its nodes and computes its output.
LEMMA ProjectStepInv ==
    ASSUME GpuIInv, ProjectQKV \/ ProjectO \/ ProjectGateUp \/ ProjectDown
    PROVE  GpuIInv'
<1>1. /\ UNCHANGED <<layer, pos, ahead, bufs, prefix, loaded, ring>>
      /\ GraphInv'
      /\ origin' \in [Outputs -> {"none", "cpu", "device"}]
      /\ fence' \in Fences /\ (fence' = "lost" => fence = "lost")
      /\ \/ /\ pc = "qkv" /\ pc' = "attn" /\ Len(nodes') <= Len(nodes) + 3
            /\ Computed("qkv")' /\ (fence' = "lost" => origin'["qkv"] = "cpu")
         \/ /\ pc = "o" /\ pc' = "gateup" /\ Len(nodes') <= Len(nodes) + 1
            /\ \A o \in {"qkv", "attn"} : origin'[o] = origin[o]
            /\ Computed("wo")' /\ (fence' = "lost" => origin'["wo"] = "cpu")
         \/ /\ pc = "gateup" /\ pc' = "down" /\ Len(nodes') <= Len(nodes) + 2
            /\ \A o \in {"qkv", "attn", "wo"} : origin'[o] = origin[o]
            /\ Computed("gateup")' /\ (fence' = "lost" => origin'["gateup"] = "cpu")
         \/ /\ pc = "down" /\ pc' = "prefetch" /\ Len(nodes') <= Len(nodes) + 1
            /\ \A o \in {"qkv", "attn", "wo", "gateup"} : origin'[o] = origin[o]
            /\ Computed("down")' /\ (fence' = "lost" => origin'["down"] = "cpu")
  <2>1. CASE ProjectQKV
    <3>1. Project("qkv", "qkv", <<"q", "k", "v">>, 3, "attn") BY <2>1 DEF ProjectQKV
    <3>2. "qkv" \in Outputs BY DEF Outputs
    <3>3. Len(<<"q", "k", "v">>) = 3 OBVIOUS
    <3>4. /\ pc = "qkv" /\ pc' = "attn"
          /\ UNCHANGED <<layer, pos, ahead, bufs, prefix, loaded, ring>>
          /\ GraphInv'
          /\ Len(nodes') <= Len(nodes) + Len(<<"q", "k", "v">>)
          /\ origin' \in [Outputs -> {"none", "cpu", "device"}]
          /\ \A o \in Outputs \ {"qkv"} : origin'[o] = origin[o]
          /\ Computed("qkv")'
          /\ fence' \in Fences
          /\ fence' = "lost" => fence = "lost" /\ origin'["qkv"] = "cpu"
      BY <3>1, <3>2, Chains, ProjectInv, Zenon
    <3> QED BY <3>3, <3>4, Zenon
  <2>2. CASE ProjectO
    <3>1. Project("o", "wo", <<"o">>, 4, "gateup") BY <2>2 DEF ProjectO
    <3>2. "wo" \in Outputs /\ {"qkv", "attn"} \subseteq Outputs \ {"wo"} BY DEF Outputs
    <3>3. Len(<<"o">>) = 1 OBVIOUS
    <3>4. /\ pc = "o" /\ pc' = "gateup"
          /\ UNCHANGED <<layer, pos, ahead, bufs, prefix, loaded, ring>>
          /\ GraphInv'
          /\ Len(nodes') <= Len(nodes) + Len(<<"o">>)
          /\ origin' \in [Outputs -> {"none", "cpu", "device"}]
          /\ \A o \in Outputs \ {"wo"} : origin'[o] = origin[o]
          /\ Computed("wo")'
          /\ fence' \in Fences
          /\ fence' = "lost" => fence = "lost" /\ origin'["wo"] = "cpu"
      BY <3>1, <3>2, Chains, ProjectInv, Zenon
    <3>5. \A o \in {"qkv", "attn"} : origin'[o] = origin[o] BY <3>2, <3>4, Zenon
    <3> QED BY <3>3, <3>4, <3>5, Zenon
  <2>3. CASE ProjectGateUp
    <3>1. Project("gateup", "gateup", <<"gate", "up">>, 6, "down") BY <2>3 DEF ProjectGateUp
    <3>2. "gateup" \in Outputs /\ {"qkv", "attn", "wo"} \subseteq Outputs \ {"gateup"}
      BY DEF Outputs
    <3>3. Len(<<"gate", "up">>) = 2 OBVIOUS
    <3>4. /\ pc = "gateup" /\ pc' = "down"
          /\ UNCHANGED <<layer, pos, ahead, bufs, prefix, loaded, ring>>
          /\ GraphInv'
          /\ Len(nodes') <= Len(nodes) + Len(<<"gate", "up">>)
          /\ origin' \in [Outputs -> {"none", "cpu", "device"}]
          /\ \A o \in Outputs \ {"gateup"} : origin'[o] = origin[o]
          /\ Computed("gateup")'
          /\ fence' \in Fences
          /\ fence' = "lost" => fence = "lost" /\ origin'["gateup"] = "cpu"
      BY <3>1, <3>2, Chains, ProjectInv, Zenon
    <3>5. \A o \in {"qkv", "attn", "wo"} : origin'[o] = origin[o] BY <3>2, <3>4, Zenon
    <3> QED BY <3>3, <3>4, <3>5, Zenon
  <2>4. CASE ProjectDown
    <3>1. Project("down", "down", <<"down">>, 4, "prefetch") BY <2>4 DEF ProjectDown
    <3>2. "down" \in Outputs /\ {"qkv", "attn", "wo", "gateup"} \subseteq Outputs \ {"down"}
      BY DEF Outputs
    <3>3. Len(<<"down">>) = 1 OBVIOUS
    <3>4. /\ pc = "down" /\ pc' = "prefetch"
          /\ UNCHANGED <<layer, pos, ahead, bufs, prefix, loaded, ring>>
          /\ GraphInv'
          /\ Len(nodes') <= Len(nodes) + Len(<<"down">>)
          /\ origin' \in [Outputs -> {"none", "cpu", "device"}]
          /\ \A o \in Outputs \ {"down"} : origin'[o] = origin[o]
          /\ Computed("down")'
          /\ fence' \in Fences
          /\ fence' = "lost" => fence = "lost" /\ origin'["down"] = "cpu"
      BY <3>1, <3>2, Chains, ProjectInv, Zenon
    <3>5. \A o \in {"qkv", "attn", "wo", "gateup"} : origin'[o] = origin[o] BY <3>2, <3>4, Zenon
    <3> QED BY <3>3, <3>4, <3>5, Zenon
  <2> QED BY <2>1, <2>2, <2>3, <2>4, Zenon
<1>2. LoopTypes' BY <1>1 DEF GpuIInv, LoopTypes
<1>3. Len(nodes) \in Nat BY DEF GpuIInv, GraphInv
<1>4. Len(nodes') \in Nat BY <1>1 DEF GraphInv
<1>5. NodesAt' BY <1>1, <1>3, <1>4 DEF GpuIInv, NodesAt
<1>6. \A o : Computed(o) /\ origin'[o] = origin[o] => Computed(o)'
  BY <1>1, ComputedStays, Zenon
<1>7. OutputsAt' BY <1>1, <1>6 DEF GpuIInv, OutputsAt
<1>8. LostFenceFallsBack' BY <1>1 DEF GpuIInv, LostFenceFallsBack, AfterLoss, Outputs
<1> QED BY <1>1, <1>2, <1>5, <1>7, <1>8, WeightsStay DEF GpuIInv

LEMMA GpuStep == GpuIInv /\ [GpuNext]_gpuVars => GpuIInv'
<1> SUFFICES ASSUME GpuIInv, [GpuNext]_gpuVars PROVE GpuIInv' OBVIOUS
<1>1. CASE UNCHANGED gpuVars
  <2>1. UNCHANGED <<bufs, prefix, loaded, ring, fence, origin, layer, ahead, pos, pc, graphVars>>
    BY <1>1 DEF gpuVars, layerVars
  <2>2. GraphInv' /\ LoadedIsResident' BY <2>1, GraphStays, WeightsStay, Zenon DEF GpuIInv
  <2>3. LoopTypes' /\ LostFenceFallsBack' BY <2>1 DEF GpuIInv, LoopTypes, LostFenceFallsBack
  <2>4. NodesAt' /\ OutputsAt'
    BY <2>1 DEF GpuIInv, NodesAt, OutputsAt, Computed, HasCtx, graphVars
  <2> QED BY <2>2, <2>3, <2>4 DEF GpuIInv
<1> QED BY <1>1, PrefillAttentionInv, MoveInv, EnsureStepInv, DecodeAttentionInv,
           ProjectStepInv, Zenon DEF GpuNext

LEMMA GpuIInvImplies == GpuIInv => GpuInv
<1> SUFFICES ASSUME GpuIInv PROVE GpuInv OBVIOUS
<1>1. GpuTypeOK BY DEF GpuIInv, LoopTypes, GpuTypeOK
<1>2. OutputsWritten BY DEF GpuIInv, OutputsAt, Computed, OutputsWritten, Outputs
<1>3. GraphBounded BY DEF GpuIInv, NodesAt, GraphBounded
<1> QED BY <1>1, <1>2, <1>3 DEF GpuIInv, GraphInv, GpuInv

\* The layer loop over PerLayerGpuState, through any failures of uploads, submissions
\* and waits: a layer counted as loaded has all its buffers, the compute graph stays
\* bounded with every submitted chain's barriers on its own predecessors, no output of
\* a decoded layer is left unwritten, and none is taken from the device between a
\* submission that was refused and the next one, for every model, prompt and chunk.
THEOREM LayersFallBack == GpuSpec => []GpuInv
<1>1. GpuSpec => []GpuIInv BY GpuInitInv, GpuStep, PTL DEF GpuSpec
<1> QED BY <1>1, GpuIInvImplies, PTL
=============================================================================
