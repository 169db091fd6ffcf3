--------------------------- MODULE KVPagesProofs ---------------------------
(***************************************************************************)
(* Proofs about the page management of the KV cache, for every layout of    *)
(* the zones, every RAM limit, cold capacity and scan depth.                *)
(***************************************************************************)
EXTENDS KVPagesLru, FiniteSetTheorems, SequenceTheorems, WellFoundedInduction, TLAPS

\* A flat page id lies in the range of ids of the zone it resolves to.
LEMMA PageInZone ==
  ASSUME NEW p \in Pages
  PROVE  /\ resolve_flat(p) \in Zones
         /\ zone_page_offsets(resolve_flat(p)) \in Nat
         /\ zone_page_offsets(resolve_flat(p)) <= p
         /\ p < zone_page_offsets(resolve_flat(p)) + NumPages[resolve_flat(p)]
BY KVPagesAssumption
   DEF KVPagesAssumption, Pages, total_pages, resolve_flat, zone_page_offsets, Zones

\* Conversely the ids of that range are pages of the zone: resolve_flat
\* inverts the flat numbering.
LEMMA ZoneOfId ==
  ASSUME NEW z \in Zones, NEW i \in Nat, i < NumPages[z]
  PROVE  /\ zone_page_offsets(z) + i \in Pages
         /\ resolve_flat(zone_page_offsets(z) + i) = z
BY KVPagesAssumption
   DEF KVPagesAssumption, Pages, total_pages, resolve_flat, zone_page_offsets, Zones

\* The sentinels are neither pages nor slots.
LEMMA Sentinels ==
  /\ None \notin Pages
  /\ Hot \notin Slots /\ Absent \notin Slots /\ Hot # Absent
BY KVPagesAssumption DEF KVPagesAssumption, Pages, Slots, total_pages, Zones

\* A set of naturals that is not empty has a least element: the form in which
\* induction over data is used here.
LEMMA Least ==
  ASSUME NEW T, T \subseteq Nat, T # {}
  PROVE  \E m \in T : \A k \in T : m <= k
<1> DEFINE R == OpToRel(<, Nat)
<1>1. IsWellFoundedOn(R, Nat) BY NatLessThanWellFounded, Zenon
<1>2. \A a, b \in Nat : a < b => <<a, b>> \in R BY Zenon DEF OpToRel
<1> HIDE DEF R
<1>3. PICK x \in T : \A y \in T : ~ (<<y, x>> \in R) BY <1>1, WFMin, Zenon
<1>4. ASSUME NEW y \in T PROVE x <= y
  <2>1. x \in Nat /\ y \in Nat OBVIOUS
  <2>2. ~ (y < x) BY <1>2, <1>3, <2>1, Zenon
  <2> QED BY <2>1, <2>2
<1> QED BY <1>4

----------------------------------------------------------------------------
(* Lists as sequences *)

\* Following the links of a list from its head spells the sequence s of its n
\* pages, all of H and each once; following them from its tail spells it
\* backwards.
Chain(s, n, H, head, tail, prev, next) ==
  /\ n \in Nat
  /\ s \in [1..n -> H]
  /\ \A p \in H : \E i \in 1..n : s[i] = p
  /\ \A i, j \in 1..n : s[i] = s[j] => i = j
  /\ head = IF n = 0 THEN None ELSE s[1]
  /\ tail = IF n = 0 THEN None ELSE s[n]
  /\ \A i \in 1..n : /\ prev[s[i]] = IF i = 1 THEN None ELSE s[i - 1]
                     /\ next[s[i]] = IF i = n THEN None ELSE s[i + 1]

\* A sequence with a page put before it, and with its k-th page taken out.
Fronted(s, n, p) == [i \in 1..(n + 1) |-> IF i = 1 THEN p ELSE s[i - 1]]
Dropped(s, n, k) == [i \in 1..(n - 1) |-> IF i < k THEN s[i] ELSE s[i + 1]]

\* How the ends and the links change when p is put at the front of a list, and
\* when p is taken out of it.
LinkedFirst(p, H, head, tail, prev, next, tail2, prev2, next2) ==
  /\ tail2 = IF tail = None THEN p ELSE tail
  /\ prev2[p] = None /\ next2[p] = head
  /\ \A q \in H : /\ next2[q] = next[q]
                  /\ prev2[q] = IF q = head THEN p ELSE prev[q]

LinkedOut(p, H, head, tail, prev, next, head2, tail2, prev2, next2) ==
  /\ head2 = IF head = p THEN next[p] ELSE head
  /\ tail2 = IF tail = p THEN prev[p] ELSE tail
  /\ \A q \in H : q # p =>
        /\ next2[q] = IF q = prev[p] THEN next[p] ELSE next[q]
        /\ prev2[q] = IF q = next[p] THEN prev[p] ELSE prev[q]

\* A page outside the list becomes its head.
LEMMA ChainFronted ==
  ASSUME NEW H, H \subseteq Pages, NEW n, NEW s,
         NEW head, NEW tail, NEW prev, NEW next, Chain(s, n, H, head, tail, prev, next),
         NEW p \in Pages, p \notin H, NEW tail2, NEW prev2, NEW next2,
         LinkedFirst(p, H, head, tail, prev, next, tail2, prev2, next2)
  PROVE  Chain(Fronted(s, n, p), n + 1, H \cup {p}, p, tail2, prev2, next2)
<1> USE DEF LinkedFirst
<1> DEFINE t == Fronted(s, n, p)
<1>1. n \in Nat /\ n + 1 \in Nat /\ n + 1 # 0 BY DEF Chain
<1>2. t[1] = p /\ \A i \in 1..n : i + 1 \in 1..(n + 1) /\ t[i + 1] = s[i]
  BY <1>1 DEF Fronted
<1>3. \A j \in 1..(n + 1) : j = 1 \/ (j - 1 \in 1..n /\ t[j] = s[j - 1])
  BY <1>1 DEF Fronted
<1>4. \A i \in 1..n : s[i] \in H /\ s[i] # p /\ s[i] # None BY Sentinels DEF Chain
<1>5. t \in [1..(n + 1) -> H \cup {p}] BY <1>1, <1>3, <1>4 DEF Fronted
<1>6. \A q \in H \cup {p} : \E i \in 1..(n + 1) : t[i] = q
  <2>1. \A q \in H : \E i \in 1..n : s[i] = q BY DEF Chain
  <2>2. 1 \in 1..(n + 1) BY <1>1
  <2> QED BY <1>2, <2>1, <2>2
<1>7. \A i, j \in 1..(n + 1) : t[i] = t[j] => i = j
  <2>1. \A i, j \in 1..n : s[i] = s[j] => i = j BY DEF Chain
  <2> HIDE DEF t
  <2>2. ASSUME NEW i \in 1..(n + 1), NEW j \in 1..(n + 1), t[i] = t[j] PROVE i = j
    <3>1. CASE i = 1 \/ j = 1 BY <1>2, <1>3, <1>4, <2>2, <3>1
    <3>2. CASE i # 1 /\ j # 1 BY <1>1, <1>3, <2>1, <2>2, <3>2
    <3> QED BY <3>1, <3>2
  <2> QED BY <2>2
<1>8. tail2 = t[n + 1]
  <2>1. CASE n = 0 BY <1>2, <2>1 DEF Chain
  <2>2. CASE n # 0 BY <1>1, <1>2, <1>4, <2>2 DEF Chain
  <2> QED BY <2>1, <2>2
<1>9. ASSUME NEW j \in 1..(n + 1)
      PROVE  /\ prev2[t[j]] = IF j = 1 THEN None ELSE t[j - 1]
             /\ next2[t[j]] = IF j = n + 1 THEN None ELSE t[j + 1]
  <2>1. CASE j = 1
    <3>1. head = IF n = 0 THEN None ELSE s[1] BY DEF Chain
    <3>2. n # 0 => 1 \in 1..n /\ t[2] = s[1] BY <1>1, <1>2
    <3> QED BY <1>1, <1>2, <2>1, <3>1, <3>2
  <2>2. CASE j # 1
    <3> DEFINE i == j - 1
    <3>1. i \in 1..n /\ t[j] = s[i] /\ j = i + 1 BY <1>1, <1>3, <2>2
    <3>2. /\ prev[s[i]] = IF i = 1 THEN None ELSE s[i - 1]
          /\ next[s[i]] = IF i = n THEN None ELSE s[i + 1]
          /\ (s[i] = head <=> i = 1)
      <4>1. n # 0 /\ 1 \in 1..n BY <1>1, <3>1
      <4>2. head = s[1] BY <4>1 DEF Chain
      <4> QED BY <3>1, <4>1, <4>2 DEF Chain
    <3>3. prev2[t[j]] = IF i = 1 THEN p ELSE s[i - 1] BY <1>4, <3>1, <3>2
    <3>4. next2[t[j]] = IF i = n THEN None ELSE s[i + 1] BY <1>4, <3>1, <3>2
    <3>5. i # 1 => i - 1 \in 1..n /\ t[i] = s[i - 1] BY <1>1, <1>3, <3>1
    <3>6. i # n => i + 1 \in 1..n /\ t[j + 1] = s[i + 1] BY <1>1, <1>2, <3>1
    <3> HIDE DEF i, t
    <3>7. prev2[t[j]] = t[j - 1]
      <4>1. j - 1 = i BY <1>1, <3>1
      <4> QED BY <1>2, <3>3, <3>5, <4>1
    <3>8. j = n + 1 <=> i = n BY <1>1, <3>1
    <3> QED BY <2>2, <3>4, <3>6, <3>7, <3>8
  <2> QED BY <2>1, <2>2
<1> HIDE DEF t
<1>10. Chain(t, n + 1, H \cup {p}, p, tail2, prev2, next2)
  BY <1>1, <1>2, <1>5, <1>6, <1>7, <1>8, <1>9 DEF Chain
<1> QED BY <1>10 DEF t

\* The k-th page leaves the list and its neighbours are joined.
LEMMA ChainDropped ==
  ASSUME NEW H, H \subseteq Pages, NEW n, NEW s,
         NEW head, NEW tail, NEW prev, NEW next, Chain(s, n, H, head, tail, prev, next),
         NEW k \in 1..n, NEW p, p = s[k], NEW head2, NEW tail2, NEW prev2, NEW next2,
         LinkedOut(p, H, head, tail, prev, next, head2, tail2, prev2, next2)
  PROVE  Chain(Dropped(s, n, k), n - 1, H \ {p}, head2, tail2, prev2, next2)
<1> USE DEF LinkedOut
<1> DEFINE t == Dropped(s, n, k)
           m == n - 1
<1>1. n \in Nat /\ n # 0 /\ m \in Nat /\ n = m + 1 /\ k \in 1..(m + 1) BY DEF Chain
<1>2. \A i \in 1..m : t[i] = IF i < k THEN s[i] ELSE s[i + 1] BY DEF Dropped
<1>3. /\ s \in [1..n -> H]
      /\ \A i, j \in 1..n : s[i] = s[j] => i = j
      /\ \A q \in H : \E i \in 1..n : s[i] = q
      /\ head = s[1] /\ tail = s[n]
      /\ \A i \in 1..n : /\ prev[s[i]] = IF i = 1 THEN None ELSE s[i - 1]
                         /\ next[s[i]] = IF i = n THEN None ELSE s[i + 1]
  BY <1>1 DEF Chain
<1>4. \A i \in 1..n : s[i] \in H /\ s[i] # None BY <1>3, Sentinels
<1>5. t \in [1..m -> H \ {s[k]}]
  <2>1. ASSUME NEW i \in 1..m PROVE t[i] \in H \ {s[k]}
    <3>1. i \in 1..n /\ i + 1 \in 1..n BY <1>1
    <3> HIDE DEF t
    <3>2. CASE i < k BY <1>1, <1>2, <1>3, <1>4, <3>1, <3>2
    <3>3. CASE ~(i < k) BY <1>1, <1>2, <1>3, <1>4, <3>1, <3>3
    <3> QED BY <3>2, <3>3
  <2> QED BY <2>1 DEF Dropped
<1> HIDE DEF t
<1>6. \A q \in H \ {s[k]} : \E i \in 1..m : t[i] = q
  <2> TAKE q \in H \ {s[k]}
  <2>1. PICK i \in 1..n : s[i] = q BY <1>3
  <2>2. CASE i < k
    <3>1. i \in 1..m BY <1>1, <2>2
    <3> QED BY <1>2, <2>1, <2>2, <3>1
  <2>3. CASE ~(i < k)
    <3>1. i # k BY <2>1
    <3>2. i - 1 \in 1..m /\ ~(i - 1 < k) /\ (i - 1) + 1 = i BY <1>1, <2>3, <3>1
    <3>3. t[i - 1] = s[i] BY <1>2, <3>2
    <3> QED BY <2>1, <3>2, <3>3
  <2> QED BY <2>2, <2>3
<1>7. \A i, j \in 1..m : t[i] = t[j] => i = j
  <2>1. \A i, j \in 1..n : s[i] = s[j] => i = j BY <1>3
  <2>2. ASSUME NEW i \in 1..m, NEW j \in 1..m, t[i] = t[j] PROVE i = j
    <3> DEFINE x == IF i < k THEN i ELSE i + 1
               y == IF j < k THEN j ELSE j + 1
    <3>1. x \in 1..n /\ y \in 1..n BY <1>1
    <3>2. t[i] = s[x] /\ t[j] = s[y] BY <1>2
    <3>3. x = y
      <4>1. s[x] = s[y] BY <2>2, <3>2, Zenon
      <4> HIDE DEF x, y
      <4> QED BY <2>1, <3>1, <4>1, Zenon
    <3> QED BY <1>1, <3>3
  <2> QED BY <2>2
<1>8. head2 = IF m = 0 THEN None ELSE t[1]
  <2>1. head = s[k] <=> k = 1 BY <1>1, <1>3
  <2>2. k = 1 => head2 = IF n = 1 THEN None ELSE s[2] BY <1>1, <1>3, <2>1
  <2>3. m # 0 => t[1] = IF 1 < k THEN s[1] ELSE s[2] BY <1>1, <1>2
  <2>4. k # 1 => 1 < k /\ m # 0 BY <1>1
  <2> QED BY <1>1, <1>3, <2>1, <2>2, <2>3, <2>4
<1>9. tail2 = IF m = 0 THEN None ELSE t[m]
  <2>1. tail = s[k] <=> k = n BY <1>1, <1>3
  <2>2. k = n => tail2 = IF n = 1 THEN None ELSE s[n - 1] BY <1>1, <1>3, <2>1
  <2>3. m # 0 => t[m] = IF m < k THEN s[m] ELSE s[m + 1] BY <1>1, <1>2
  <2>4. k # n => ~(m < k) /\ m # 0 BY <1>1
  <2>5. k = n => m < k /\ m = n - 1 BY <1>1
  <2> QED BY <1>1, <1>3, <2>1, <2>2, <2>3, <2>4, <2>5
<1>10. ASSUME NEW i \in 1..m
       PROVE  /\ prev2[t[i]] = IF i = 1 THEN None ELSE t[i - 1]
              /\ next2[t[i]] = IF i = m THEN None ELSE t[i + 1]
  <2> DEFINE j == IF i < k THEN i ELSE i + 1
  <2>1. j \in 1..n /\ j # k /\ t[i] = s[j] BY <1>1, <1>2
  <2>2. s[j] \in H /\ s[j] # s[k] BY <1>3, <1>4, <2>1
  <2>3. /\ next2[s[j]] = IF s[j] = prev[s[k]] THEN next[s[k]] ELSE next[s[j]]
        /\ prev2[s[j]] = IF s[j] = next[s[k]] THEN prev[s[k]] ELSE prev[s[j]]
    BY <2>2
  <2>4. /\ prev[s[j]] = IF j = 1 THEN None ELSE s[j - 1]
        /\ next[s[j]] = IF j = n THEN None ELSE s[j + 1]
        /\ prev[s[k]] = IF k = 1 THEN None ELSE s[k - 1]
        /\ next[s[k]] = IF k = n THEN None ELSE s[k + 1]
    BY <1>3, <2>1
  <2>5. s[j] = prev[s[k]] <=> j = k - 1
    <3>1. k # 1 => k - 1 \in 1..n BY <1>1
    <3> QED BY <1>1, <1>3, <1>4, <2>1, <2>4, <3>1, SMTT(40)
  <2>6. s[j] = next[s[k]] <=> j = k + 1
    <3>1. k # n => k + 1 \in 1..n BY <1>1
    <3> QED BY <1>1, <1>3, <1>4, <2>1, <2>4, <3>1, SMTT(40)
  <2>7. i # 1 => t[i - 1] = IF i - 1 < k THEN s[i - 1] ELSE s[i] BY <1>1, <1>2
  <2>8. i # m => t[i + 1] = IF i + 1 < k THEN s[i + 1] ELSE s[i + 2]
    <3>1. i # m => i + 1 \in 1..m /\ (i + 1) + 1 = i + 2 BY <1>1
    <3> QED BY <1>2, <3>1
  <2>9. prev2[t[i]] = IF i = 1 THEN None ELSE t[i - 1]
    <3>1. CASE i < k
      <4>1. j = i /\ j # k + 1 /\ i - 1 < k BY <1>1, <3>1
      <4> QED BY <2>1, <2>3, <2>4, <2>6, <2>7, <4>1
    <3>2. CASE i = k
      <4>1. j = k + 1 /\ i - 1 < k BY <1>1, <3>2
      <4> QED BY <2>1, <2>3, <2>4, <2>6, <2>7, <3>2, <4>1
    <3>3. CASE i > k
      <4>1. j = i + 1 /\ j # k + 1 /\ ~(i - 1 < k) /\ i # 1 /\ j # 1 /\ j - 1 = i BY <1>1, <3>3
      <4> QED BY <2>1, <2>3, <2>4, <2>6, <2>7, <4>1
    <3> QED BY <1>1, <3>1, <3>2, <3>3
  <2>10. next2[t[i]] = IF i = m THEN None ELSE t[i + 1]
    <3>1. CASE i + 1 < k
      <4>1. j = i /\ j # k - 1 /\ i # m /\ j # n BY <1>1, <3>1
      <4> QED BY <2>1, <2>3, <2>4, <2>5, <2>8, <3>1, <4>1
    <3>2. CASE i + 1 = k
      <4>1. j = i /\ j = k - 1 /\ ~(i + 1 < k) /\ k + 1 = i + 2 /\ (k = n <=> i = m) BY <1>1, <3>2
      <4> QED BY <2>1, <2>3, <2>4, <2>5, <2>8, <4>1
    <3>3. CASE i + 1 > k
      <4>1. j = i + 1 /\ j # k - 1 /\ ~(i + 1 < k) /\ j + 1 = i + 2 /\ (j = n <=> i = m)
        BY <1>1, <3>3
      <4> QED BY <2>1, <2>3, <2>4, <2>5, <2>8, <4>1
    <3> QED BY <1>1, <3>1, <3>2, <3>3
  <2> QED BY <2>9, <2>10
<1>11. Chain(t, m, H \ {p}, head2, tail2, prev2, next2)
  BY <1>1, <1>5, <1>6, <1>7, <1>8, <1>9, <1>10 DEF Chain
<1> QED BY <1>11 DEF t

\* Walking the links of a list from its head gives the sequence they spell, so
\* that a list spells only one.
LEMMA FollowingChain ==
  ASSUME NEW s, NEW n, NEW H, NEW head, NEW tail, NEW prev, NEW next,
         Chain(s, n, H, head, tail, prev, next)
  PROVE  Following(head, n, next) = s
<1> DEFINE F(t) == [i \in 1..n |-> IF i = 1 THEN head ELSE next[t[i - 1]]]
           t == CHOOSE x : x = F(x)
<1>1. n \in Nat /\ s = [i \in 1..n |-> s[i]] BY DEF Chain
<1>2. ASSUME NEW i \in 1..n PROVE s[i] = IF i = 1 THEN head ELSE next[s[i - 1]]
  <2>1. CASE i = 1 BY <1>1, <2>1 DEF Chain
  <2>2. CASE i # 1
    <3>1. i - 1 \in 1..n /\ i - 1 # n /\ (i - 1) + 1 = i BY <1>1, <2>2
    <3>2. next[s[i - 1]] = s[i] BY <3>1 DEF Chain
    <3> QED BY <2>2, <3>2
  <2> QED BY <2>1, <2>2
<1>3. s = F(s) BY <1>1, <1>2
<1>4. t = F(t)
  <2> HIDE DEF F
  <2>1. \E x : x = F(x) BY <1>3, Zenon
  <2> QED BY <2>1, Zenon
<1>5. Following(head, n, next) = t BY Zenon DEF Following
<1> HIDE DEF t
<1>6. t = [i \in 1..n |-> t[i]] /\ \A i \in 1..n : t[i] = IF i = 1 THEN head ELSE next[t[i - 1]]
  <2>1. \A i \in 1..n : F(t)[i] = IF i = 1 THEN head ELSE next[t[i - 1]] OBVIOUS
  <2>2. F(t) = [i \in 1..n |-> F(t)[i]] OBVIOUS
  <2> HIDE DEF F
  <2> QED BY <1>4, <2>1, <2>2
<1> DEFINE D == {i \in 1..n : t[i] # s[i]}
<1>7. D = {}
  <2> SUFFICES ASSUME D # {} PROVE FALSE OBVIOUS
  <2>1. D \subseteq Nat BY <1>1
  <2>2. PICK m \in D : \A k \in D : m <= k BY <2>1, Least
  <2>3. m \in 1..n /\ t[m] # s[m] OBVIOUS
  <2>4. m # 1 BY <1>2, <1>6, <2>3
  <2>5. m - 1 \in 1..n /\ m - 1 \notin D BY <1>1, <2>2, <2>3, <2>4
  <2>6. t[m - 1] = s[m - 1] BY <2>5
  <2>7. t[m] = next[t[m - 1]] BY <1>6, <2>3, <2>4
  <2>8. s[m] = next[s[m - 1]] BY <1>2, <2>3, <2>4
  <2> QED BY <2>3, <2>6, <2>7, <2>8
<1>8. t = s BY <1>1, <1>6, <1>7, ZenonT(40)
<1> QED BY <1>5, <1>8

----------------------------------------------------------------------------
(* The inductive invariant *)

\* A zone's pages are pushed in order, so that the absent ones are those from
\* npages on.
PushedInOrder ==
  \A p \in Pages :
     page_state[p] = Absent <=>
       p >= zone_page_offsets(resolve_flat(p)) + npages[resolve_flat(p)]

\* The page that is inserted is not hot; the scan stays inside the list of
\* the zone that needs room.
CallInv ==
  /\ stage \in {"scan", "insert"} => page_state[pid] # Hot
  /\ stage = "scan" => /\ best \in HotPages(resolve_flat(pid))
                       /\ cursor = None \/ cursor \in HotPages(resolve_flat(pid))

\* Local agreement of the links allows a stray cycle beside the list.  It is
\* excluded by the sequence that the links of a zone spell: it holds all of
\* the zone's hot pages, as many as the zone counts.
Spelt(z, s) ==
  Chain(s, hot_count[z], HotPages(z), lru_head[z], lru_tail[z], lru_prev, lru_next)

Chained == \A z \in Zones : \E s \in [1..hot_count[z] -> HotPages(z)] : Spelt(z, s)

Lists == LruWellFormed /\ Chained

IInv == TypeOK /\ PushedInOrder /\ Lists /\ CallInv

LEMMA InitInv == Init => IInv
<1> SUFFICES ASSUME Init PROVE IInv
  OBVIOUS
<1> USE KVPagesAssumption, Sentinels
<1>1. TypeOK
  <2>1. 0 \in 0..MaxImportance /\ 0 \in 0..ScanDepth
    BY DEF KVPagesAssumption
  <2>2. ColdCapacity > 0 => 0 \in Slots
    BY DEF KVPagesAssumption, Slots
  <2>3. QED
    BY <2>1, <2>2 DEF Init, TypeOK, PageOrNone
<1>2. PushedInOrder
  BY PageInZone DEF Init, PushedInOrder
<1>3. Lists
  <2>1. LruWellFormed
    BY DEF Init, LruWellFormed, ZoneListOK, HotPages
  <2>2. ASSUME NEW z \in Zones
        PROVE  \E s \in [1..hot_count[z] -> HotPages(z)] : Spelt(z, s)
    <3>1. HotPages(z) = {} /\ hot_count[z] = 0 /\ lru_head[z] = None /\ lru_tail[z] = None
      BY DEF Init, HotPages
    <3>2. <<>> \in [1..0 -> {}] OBVIOUS
    <3>3. Chain(<<>>, 0, {}, None, None, lru_prev, lru_next) BY <3>2 DEF Chain
    <3> QED BY <3>1, <3>2, <3>3 DEF Spelt
  <2>3. QED
    BY <2>1, <2>2 DEF Lists, Chained
<1>4. CallInv
  BY DEF Init, CallInv
<1>5. QED
  BY <1>1, <1>2, <1>3, <1>4 DEF IInv

\* The page alloc_hot_page_in_zone pushes is the first absent page of the zone.
LEMMA NextPage ==
  ASSUME TypeOK, PushedInOrder, stage = "insert", page_state[pid] = Absent
  PROVE  LET z == resolve_flat(pid)
             p == zone_page_offsets(z) + npages[z]
         IN  /\ z \in Zones
             /\ p \in Pages
             /\ resolve_flat(p) = z
             /\ page_state[p] = Absent
<1> DEFINE z == resolve_flat(pid)
           p == zone_page_offsets(z) + npages[z]
<1>1. pid \in Pages /\ z \in Zones /\ npages[z] \in Nat
  BY PageInZone DEF TypeOK
<1>2. pid >= p /\ zone_page_offsets(z) \in Nat /\ pid < zone_page_offsets(z) + NumPages[z]
  BY <1>1, PageInZone DEF PushedInOrder
<1>3. NumPages[z] \in Nat /\ pid \in Int
  BY <1>1, KVPagesAssumption DEF KVPagesAssumption, Pages
<1>4. npages[z] < NumPages[z]
  BY <1>1, <1>2, <1>3
<1>5. p \in Pages /\ resolve_flat(p) = z
  BY <1>1, <1>4, ZoneOfId
<1>6. p \in Int
  BY <1>5 DEF Pages
<1>7. page_state[p] = Absent
  BY <1>5, <1>6 DEF PushedInOrder
<1>8. QED
  BY <1>1, <1>5, <1>7

\* Type correctness is preserved by every step.
LEMMA TypeStep == IInv /\ [Next]_vars => TypeOK'
<1> SUFFICES ASSUME IInv, [Next]_vars PROVE TypeOK'
  OBVIOUS
<1> USE Sentinels
<1>0. TypeOK /\ PushedInOrder /\ CallInv
  BY DEF IInv
<1>1. ASSUME NEW start \in Pages, NEW end \in Pages, ensure_pages_hot(start, end)
      PROVE  TypeOK'
  BY <1>0, <1>1 DEF TypeOK, ensure_pages_hot, pageVars, lruVars, coldVars, scanVars, Pages, PageOrNone
<1>2. ASSUME NEW p \in Pages, NEW w \in 1..MaxImportance, record_importance(p, w)
      PROVE  TypeOK'
  <2>1. entropy_importance' \in [Pages -> 0..MaxImportance]
    BY <1>0, <1>2, KVPagesAssumption DEF TypeOK, record_importance, KVPagesAssumption
  <2>2. QED
    BY <1>0, <1>2, <2>1 DEF TypeOK, record_importance, pageVars, lruVars, coldVars, scanVars, callVars
<1>3. CASE reset_entropy
  <2>1. entropy_importance' \in [Pages -> 0..MaxImportance]
    BY <1>3, KVPagesAssumption DEF reset_entropy, KVPagesAssumption
  <2>2. QED
    BY <1>0, <1>3, <2>1 DEF TypeOK, reset_entropy, pageVars, lruVars, coldVars, scanVars, callVars
<1>4. CASE EnsureTouch
  <2>1. pid \in Pages /\ last \in Pages /\ pid <= last /\ resolve_flat(pid) \in Zones
    BY <1>0, <1>4, PageInZone DEF TypeOK, EnsureTouch
  <2>2. /\ lru_prev' \in [Pages -> PageOrNone]
        /\ lru_next' \in [Pages -> PageOrNone]
        /\ lru_head' \in [Zones -> PageOrNone]
        /\ lru_tail' \in [Zones -> PageOrNone]
    BY <1>0, <1>4, <2>1 DEF TypeOK, EnsureTouch, touch_lru_in_zone, lruVars, PageOrNone
  <2>3. /\ pid' \in Nat /\ first' \in Nat /\ last' \in Nat
        /\ stage' \in {"idle", "page"}
        /\ stage' # "idle" => pid' \in Pages /\ last' \in Pages /\ pid' <= last'
    <3>1. total_pages \in Nat
      BY KVPagesAssumption DEF KVPagesAssumption, total_pages, Zones
    <3>2. CASE pid = last
      BY <1>0, <1>4, <3>2 DEF TypeOK, EnsureTouch
    <3>3. CASE pid # last
      <4>1. pid + 1 \in Pages /\ pid + 1 <= last /\ pid + 1 \in Nat
        BY <2>1, <3>1, <3>3 DEF Pages
      <4>2. QED
        BY <1>0, <1>4, <2>1, <3>3, <4>1 DEF TypeOK, EnsureTouch
    <3>4. QED
      BY <3>2, <3>3
  <2>4. QED
    BY <1>0, <1>4, <2>2, <2>3 DEF TypeOK, EnsureTouch, pageVars, coldVars, scanVars
<1>5. CASE EnsureRoom
  <2>1. pid \in Pages /\ resolve_flat(pid) \in Zones
    BY <1>0, <1>5, PageInZone DEF TypeOK, EnsureRoom, RoomFor
  <2>2. ScanDepth - 1 \in 0..ScanDepth
    BY KVPagesAssumption DEF KVPagesAssumption
  <2>3. QED
    BY <1>0, <1>5, <2>1, <2>2, ZenonT(40)
       DEF TypeOK, EnsureRoom, RoomFor, pageVars, lruVars, coldVars, scanVars, PageOrNone
<1>6. CASE EvictScan
  <2>1. left' \in 0..ScanDepth
    BY <1>0, <1>6, KVPagesAssumption DEF TypeOK, EvictScan, KVPagesAssumption
  <2>2. cursor \in Pages /\ cursor' \in PageOrNone /\ best' \in Pages
    BY <1>0, <1>6 DEF TypeOK, EvictScan, PageOrNone
  <2>3. QED
    BY <1>0, <1>6, <2>1, <2>2
       DEF TypeOK, EvictScan, pageVars, lruVars, coldVars, callVars, PageOrNone
<1>7. CASE EvictWrite
  <2>1. pid \in Pages /\ resolve_flat(pid) \in Zones /\ best \in Pages
    BY <1>0, <1>7, PageInZone DEF TypeOK, EvictWrite
  <2>2. /\ stage' = "insert" /\ pid' \in Nat /\ first' \in Nat /\ last' \in Nat
        /\ pid' \in Pages /\ last' \in Pages /\ pid' <= last'
        /\ best' \in PageOrNone /\ cursor' \in PageOrNone /\ left' \in 0..ScanDepth
        /\ entropy_importance' \in [Pages -> 0..MaxImportance]
    BY <1>0, <1>7, <2>1, KVPagesAssumption DEF TypeOK, EvictWrite, PageOrNone, KVPagesAssumption
  <2>3. CASE ColdCapacity = 0
    BY <1>0, <1>7, <2>2, <2>3 DEF TypeOK, EvictWrite, pageVars, lruVars, coldVars
  <2>4. CASE ColdCapacity # 0
    <3>1. PICK s \in Slots : EvictTo(resolve_flat(pid), s)
      BY <1>7, <2>4 DEF EvictWrite
    <3>2. /\ lru_prev' \in [Pages -> PageOrNone]
          /\ lru_next' \in [Pages -> PageOrNone]
          /\ lru_head' \in [Zones -> PageOrNone]
          /\ lru_tail' \in [Zones -> PageOrNone]
      BY <1>0, <2>1, <3>1 DEF TypeOK, EvictTo, remove_from_lru_in_zone, PageOrNone
    <3>3. cold_write_cursor' \in Nat /\ cold_write_cursor' \in Slots
      BY <3>1, <2>4, KVPagesAssumption DEF EvictTo, Slots, KVPagesAssumption
    <3>4. /\ page_state' \in [Pages -> {Absent, Hot} \cup Slots]
          /\ npages' \in [Zones -> Nat]
          /\ cold_slot_used' \in [Slots -> BOOLEAN]
          /\ cold_file' \in [FileUnits -> PageOrNone]
      BY <1>0, <2>1, <3>1 DEF TypeOK, EvictTo, PageOrNone
    <3>5. hot_count' \in [Zones -> Int]
      BY <1>0, <2>1, <3>1 DEF TypeOK, EvictTo
    <3>6. QED
      BY <2>2, <3>2, <3>3, <3>4, <3>5 DEF TypeOK
  <2>5. QED
    BY <2>3, <2>4
<1>8. CASE EnsureAlloc
  <2> DEFINE z == resolve_flat(pid)
             p == zone_page_offsets(z) + npages[z]
  <2>1. z \in Zones /\ p \in Pages
    BY <1>0, <1>8, NextPage DEF EnsureAlloc
  <2>2. /\ lru_prev' \in [Pages -> PageOrNone]
        /\ lru_next' \in [Pages -> PageOrNone]
        /\ lru_head' \in [Zones -> PageOrNone]
        /\ lru_tail' \in [Zones -> PageOrNone]
    BY <1>0, <1>8, <2>1 DEF TypeOK, EnsureAlloc, PushFront, PageOrNone
  <2>3. /\ page_state' \in [Pages -> {Absent, Hot} \cup Slots]
        /\ npages' \in [Zones -> Nat]
        /\ hot_count' \in [Zones -> Int]
    BY <1>0, <1>8, <2>1 DEF TypeOK, EnsureAlloc
  <2>4. entropy_importance' \in [Pages -> 0..MaxImportance]
    BY <1>0, <1>8, <2>1, KVPagesAssumption DEF TypeOK, EnsureAlloc, KVPagesAssumption
  <2>5. QED
    BY <1>0, <1>8, <2>2, <2>3, <2>4 DEF TypeOK, EnsureAlloc, coldVars, scanVars
<1>9. CASE EnsureReload
  <2>1. pid \in Pages /\ resolve_flat(pid) \in Zones
    BY <1>0, <1>9, PageInZone DEF TypeOK, EnsureReload
  <2>2. /\ lru_prev' \in [Pages -> PageOrNone]
        /\ lru_next' \in [Pages -> PageOrNone]
        /\ lru_head' \in [Zones -> PageOrNone]
        /\ lru_tail' \in [Zones -> PageOrNone]
    BY <1>0, <1>9, <2>1 DEF TypeOK, EnsureReload, PushFront, PageOrNone
  <2>3. /\ page_state' \in [Pages -> {Absent, Hot} \cup Slots]
        /\ hot_count' \in [Zones -> Int]
        /\ cold_slot_used' \in [Slots -> BOOLEAN]
    BY <1>0, <1>9, <2>1 DEF TypeOK, EnsureReload
  <2>4. QED
    BY <1>0, <1>9, <2>2, <2>3 DEF TypeOK, EnsureReload, scanVars
<1>10. CASE UNCHANGED vars
  BY <1>0, <1>10 DEF TypeOK, vars, pageVars, lruVars, coldVars, callVars, scanVars
<1>11. QED
  BY <1>1, <1>2, <1>3, <1>4, <1>5, <1>6, <1>7, <1>8, <1>9, <1>10 DEF Next, EnsureStep

----------------------------------------------------------------------------
(* The operations on the LRU list *)

\* The local conditions of a well-formed list of the pages in H, as ZoneListOK
\* puts them, follow from the sequence that its links spell.
LinksAgree(H, head, tail, prev, next) ==
  /\ head = None <=> H = {}
  /\ tail = None <=> H = {}
  /\ head # None => head \in H
  /\ tail # None => tail \in H
  /\ \A p \in H :
       /\ prev[p] = None <=> head = p
       /\ next[p] = None <=> tail = p
       /\ prev[p] # None => prev[p] \in H /\ next[prev[p]] = p
       /\ next[p] # None => next[p] \in H /\ prev[next[p]] = p

LEMMA ChainWellFormed ==
  ASSUME NEW H, H \subseteq Pages, NEW n, NEW s,
         NEW head, NEW tail, NEW prev, NEW next, Chain(s, n, H, head, tail, prev, next)
  PROVE  LinksAgree(H, head, tail, prev, next)
<1>1. n \in Nat /\ \A i \in 1..n : s[i] \in H /\ s[i] # None BY Sentinels DEF Chain
<1>2. n = 0 <=> H = {}
  <2>1. n = 0 => H = {} BY <1>1 DEF Chain
  <2>2. n # 0 => 1 \in 1..n BY <1>1
  <2> QED BY <1>1, <2>1, <2>2
<1>3. n # 0 => 1 \in 1..n /\ n \in 1..n BY <1>1
<1>4. ASSUME NEW p \in H
      PROVE  /\ prev[p] = None <=> head = p
             /\ next[p] = None <=> tail = p
             /\ prev[p] # None => prev[p] \in H /\ next[prev[p]] = p
             /\ next[p] # None => next[p] \in H /\ prev[next[p]] = p
  <2>1. PICK i \in 1..n : s[i] = p BY DEF Chain
  <2>2. n # 0 /\ head = s[1] /\ tail = s[n] BY <1>1, <2>1 DEF Chain
  <2>3. (head = p <=> i = 1) /\ (tail = p <=> i = n) BY <1>3, <2>1, <2>2 DEF Chain
  <2>4. /\ prev[p] = IF i = 1 THEN None ELSE s[i - 1]
        /\ next[p] = IF i = n THEN None ELSE s[i + 1]
    BY <2>1 DEF Chain
  <2>7. i # 1 => prev[p] # None /\ prev[p] \in H /\ next[prev[p]] = p
    <3>1. i # 1 => /\ i - 1 \in 1..n /\ i - 1 # n /\ (i - 1) + 1 = i BY <1>1
    <3>2. i # 1 => next[s[i - 1]] = s[i] BY <3>1 DEF Chain
    <3> QED BY <1>1, <2>1, <2>4, <3>1, <3>2
  <2>8. i # n => next[p] # None /\ next[p] \in H /\ prev[next[p]] = p
    <3>1. i # n => /\ i + 1 \in 1..n /\ i + 1 # 1 /\ (i + 1) - 1 = i BY <1>1
    <3>2. i # n => prev[s[i + 1]] = s[i] BY <3>1 DEF Chain
    <3> QED BY <1>1, <2>1, <2>4, <3>1, <3>2
  <2> QED BY <2>3, <2>4, <2>7, <2>8
<1>5. head = (IF n = 0 THEN None ELSE s[1]) /\ tail = (IF n = 0 THEN None ELSE s[n]) BY DEF Chain
<1> QED BY <1>1, <1>2, <1>3, <1>4, <1>5 DEF LinksAgree

\* A step turned the order of zone z into t and left the other zones' alone.
Reordered(z, t) ==
  /\ Spelt(z, t)'
  /\ \A y \in Zones \ {z} : \A s : Spelt(y, s) => Spelt(y, s)'

\* A zone whose pages, ends and links stay keeps its order.
LEMMA SpeltKept ==
  ASSUME NEW y, NEW s, Spelt(y, s), HotPages(y)' = HotPages(y),
         hot_count'[y] = hot_count[y], lru_head'[y] = lru_head[y], lru_tail'[y] = lru_tail[y],
         \A q \in HotPages(y) : lru_prev'[q] = lru_prev[q] /\ lru_next'[q] = lru_next[q]
  PROVE  Spelt(y, s)'
<1> DEFINE n == hot_count[y]
<1>1. Chain(s, n, HotPages(y), lru_head[y], lru_tail[y], lru_prev, lru_next) BY DEF Spelt
<1>2. \A i \in 1..n : s[i] \in HotPages(y) BY <1>1 DEF Chain
<1> HIDE DEF n
<1>3. Chain(s, n, HotPages(y), lru_head[y], lru_tail[y], lru_prev', lru_next')
  BY <1>1, <1>2 DEF Chain
<1> QED BY <1>3 DEF Spelt, n

\* Lists that were in order are in order after such a step.
LEMMA ListsAfter ==
  ASSUME Chained, NEW z \in Zones, NEW t, Reordered(z, t),
         \A q \in Pages : page_state'[q] # Hot => lru_prev'[q] = None /\ lru_next'[q] = None
  PROVE  Lists'
<1>1. ASSUME NEW y \in Zones PROVE \E s : Spelt(y, s)'
  <2>1. CASE y = z BY <2>1 DEF Reordered
  <2>2. CASE y # z
    <3>1. PICK s : Spelt(y, s) BY DEF Chained
    <3> QED BY <2>2, <3>1 DEF Reordered
  <2> QED BY <2>1, <2>2
<1>2. ASSUME NEW y \in Zones
      PROVE  ZoneListOK(y)' /\ (\E s \in [1..hot_count[y] -> HotPages(y)] : Spelt(y, s))'
  <2>1. PICK s : Spelt(y, s)' BY <1>1
  <2> DEFINE H == HotPages(y)'
  <2>2. H \subseteq Pages BY DEF HotPages
  <2>3. Chain(s, hot_count'[y], H, lru_head'[y], lru_tail'[y], lru_prev', lru_next')
    BY <2>1 DEF Spelt
  <2> HIDE DEF H
  <2>4. LinksAgree(H, lru_head'[y], lru_tail'[y], lru_prev', lru_next')
    BY <2>2, <2>3, ChainWellFormed
  <2>5. s \in [1..hot_count'[y] -> H] BY <2>3 DEF Chain
  <2>6. ZoneListOK(y)' BY <2>4, Zenon DEF ZoneListOK, LinksAgree, H
  <2> QED BY <2>1, <2>5, <2>6 DEF H
<1> QED BY <1>2 DEF Lists, LruWellFormed, Chained

\* push: a page that was not hot becomes the head of its zone's list.
LEMMA PushKeepsLists ==
  ASSUME TypeOK, LruWellFormed,
         NEW z \in Zones, NEW p \in Pages, resolve_flat(p) = z, page_state[p] # Hot,
         PushFront(z, p), page_state' = [page_state EXCEPT ![p] = Hot],
         hot_count' = [hot_count EXCEPT ![z] = @ + 1],
         NEW s, NEW n, n = hot_count[z], Spelt(z, s)
  PROVE  /\ Reordered(z, Fronted(s, n, p))
         /\ \A q \in Pages : page_state'[q] # Hot => lru_prev'[q] = None /\ lru_next'[q] = None
<1> USE Sentinels
<1>1. HotPages(z)' = HotPages(z) \cup {p} /\ p \notin HotPages(z) /\ HotPages(z) \subseteq Pages
  BY DEF HotPages, TypeOK
<1>2. \A y \in Zones \ {z} : HotPages(y)' = HotPages(y)
  BY DEF HotPages, TypeOK
<1>3. lru_next[p] = None /\ lru_head[z] # p
  BY <1>1 DEF LruWellFormed, ZoneListOK
<1>4. /\ lru_next' = [lru_next EXCEPT ![p] = lru_head[z]]
      /\ lru_prev' = [q \in Pages |-> IF q = lru_head[z] THEN p
                                      ELSE IF q = p THEN None ELSE lru_prev[q]]
      /\ lru_head' = [lru_head EXCEPT ![z] = p]
      /\ lru_tail' = IF lru_tail[z] = None THEN [lru_tail EXCEPT ![z] = p] ELSE lru_tail
  BY DEF PushFront
<1>5. Spelt(z, Fronted(s, n, p))'
  <2>1. Chain(s, n, HotPages(z), lru_head[z], lru_tail[z], lru_prev, lru_next) BY DEF Spelt
  <2>2. lru_head'[z] = p /\ lru_tail'[z] = (IF lru_tail[z] = None THEN p ELSE lru_tail[z])
    BY <1>4 DEF TypeOK
  <2>3. lru_prev'[p] = None /\ lru_next'[p] = lru_head[z]
    BY <1>3, <1>4 DEF TypeOK
  <2>4. \A q \in HotPages(z) : /\ lru_next'[q] = lru_next[q]
                               /\ lru_prev'[q] = IF q = lru_head[z] THEN p ELSE lru_prev[q]
    BY <1>1, <1>4 DEF TypeOK
  <2>5. hot_count'[z] = n + 1 BY DEF TypeOK
  <2>6. LinkedFirst(p, HotPages(z), lru_head[z], lru_tail[z], lru_prev, lru_next,
                    lru_tail'[z], lru_prev', lru_next')
    BY <2>2, <2>3, <2>4, Zenon DEF LinkedFirst
  <2>7. Chain(Fronted(s, n, p), n + 1, HotPages(z) \cup {p}, p, lru_tail'[z], lru_prev', lru_next')
    BY <1>1, <2>1, <2>6, ChainFronted
  <2> QED BY <1>1, <2>2, <2>5, <2>7 DEF Spelt
<1>6. ASSUME NEW y \in Zones \ {z}, NEW r, Spelt(y, r) PROVE Spelt(y, r)'
  <2>1. HotPages(y)' = HotPages(y) BY <1>2
  <2>2. /\ hot_count'[y] = hot_count[y]
        /\ lru_head'[y] = lru_head[y] /\ lru_tail'[y] = lru_tail[y]
    BY <1>4 DEF TypeOK
  <2>3. \A q \in HotPages(y) : q \in Pages /\ q # p /\ q # lru_head[z]
    BY DEF HotPages, LruWellFormed, ZoneListOK
  <2>4. \A q \in HotPages(y) : lru_prev'[q] = lru_prev[q] /\ lru_next'[q] = lru_next[q]
    BY <1>4, <2>3 DEF TypeOK
  <2> QED BY <1>6, <2>1, <2>2, <2>4, SpeltKept
<1>7. ASSUME NEW q \in Pages, page_state'[q] # Hot
      PROVE  lru_prev'[q] = None /\ lru_next'[q] = None
  <2>1. q # p /\ page_state[q] # Hot
    BY <1>7 DEF TypeOK
  <2>2. q # lru_head[z]
    BY <2>1 DEF LruWellFormed, ZoneListOK, HotPages
  <2> QED BY <1>4, <2>1, <2>2 DEF TypeOK, LruWellFormed
<1> QED BY <1>5, <1>6, <1>7 DEF Reordered

\* remove: a hot page leaves RAM, and the list of its zone.
LEMMA RemoveKeepsLists ==
  ASSUME TypeOK, LruWellFormed,
         NEW z \in Zones, NEW p \in HotPages(z), NEW x, x # Hot,
         remove_from_lru_in_zone(z, p), page_state' = [page_state EXCEPT ![p] = x],
         hot_count' = [hot_count EXCEPT ![z] = @ - 1],
         NEW s, NEW n, n = hot_count[z], Spelt(z, s), NEW k \in 1..n, s[k] = p
  PROVE  /\ Reordered(z, Dropped(s, n, k))
         /\ \A q \in Pages : page_state'[q] # Hot => lru_prev'[q] = None /\ lru_next'[q] = None
<1> USE Sentinels
<1>1. HotPages(z)' = HotPages(z) \ {p} /\ HotPages(z) \subseteq Pages
  BY DEF HotPages, TypeOK
<1>2. \A y \in Zones \ {z} : HotPages(y)' = HotPages(y) /\ \A q \in HotPages(y) : q \notin HotPages(z)
  BY DEF HotPages, TypeOK
<1>3. ZoneListOK(z) BY DEF LruWellFormed
<1>4. p \in Pages BY DEF HotPages
<1>5. /\ lru_next' = [q \in Pages |-> IF q = p THEN None
                                      ELSE IF q = lru_prev[p] THEN lru_next[p] ELSE lru_next[q]]
      /\ lru_prev' = [q \in Pages |-> IF q = p THEN None
                                      ELSE IF q = lru_next[p] THEN lru_prev[p] ELSE lru_prev[q]]
      /\ lru_head' = IF lru_head[z] = p THEN [lru_head EXCEPT ![z] = lru_next[p]] ELSE lru_head
      /\ lru_tail' = IF lru_tail[z] = p THEN [lru_tail EXCEPT ![z] = lru_prev[p]] ELSE lru_tail
  BY DEF remove_from_lru_in_zone
<1>6. Spelt(z, Dropped(s, n, k))'
  <2>1. Chain(s, n, HotPages(z), lru_head[z], lru_tail[z], lru_prev, lru_next) BY DEF Spelt
  <2>2. /\ lru_head'[z] = IF lru_head[z] = p THEN lru_next[p] ELSE lru_head[z]
        /\ lru_tail'[z] = IF lru_tail[z] = p THEN lru_prev[p] ELSE lru_tail[z]
    BY <1>5 DEF TypeOK
  <2>3. \A q \in HotPages(z) : q # p =>
           /\ lru_next'[q] = IF q = lru_prev[p] THEN lru_next[p] ELSE lru_next[q]
           /\ lru_prev'[q] = IF q = lru_next[p] THEN lru_prev[p] ELSE lru_prev[q]
    BY <1>1, <1>5
  <2>4. hot_count'[z] = n - 1 BY DEF TypeOK
  <2>5. Chain(Dropped(s, n, k), n - 1, HotPages(z) \ {p}, lru_head'[z], lru_tail'[z],
              lru_prev', lru_next')
    <3>1. LinkedOut(p, HotPages(z), lru_head[z], lru_tail[z], lru_prev, lru_next,
                    lru_head'[z], lru_tail'[z], lru_prev', lru_next')
      BY <2>2, <2>3, Zenon DEF LinkedOut
    <3> QED BY <1>1, <2>1, <3>1, ChainDropped
  <2> QED BY <1>1, <2>4, <2>5 DEF Spelt
<1>7. ASSUME NEW y \in Zones \ {z}, NEW r, Spelt(y, r) PROVE Spelt(y, r)'
  <2>1. HotPages(y)' = HotPages(y) BY <1>2
  <2>2. /\ hot_count'[y] = hot_count[y]
        /\ lru_head'[y] = lru_head[y] /\ lru_tail'[y] = lru_tail[y]
    BY <1>5 DEF TypeOK
  <2>3. \A q \in HotPages(y) : q \in Pages /\ q # p /\ q # lru_prev[p] /\ q # lru_next[p]
    BY <1>2, <1>3 DEF HotPages, ZoneListOK
  <2>4. \A q \in HotPages(y) : lru_prev'[q] = lru_prev[q] /\ lru_next'[q] = lru_next[q]
    BY <1>5, <2>3
  <2> QED BY <1>7, <2>1, <2>2, <2>4, SpeltKept
<1>8. ASSUME NEW q \in Pages, page_state'[q] # Hot
      PROVE  lru_prev'[q] = None /\ lru_next'[q] = None
  <2>1. CASE q = p BY <1>5, <2>1
  <2>2. CASE q # p
    <3>1. page_state[q] # Hot BY <1>8, <2>2 DEF TypeOK
    <3>2. q # lru_prev[p] /\ q # lru_next[p] BY <1>3, <3>1 DEF ZoneListOK, HotPages
    <3> QED BY <1>5, <2>2, <3>1, <3>2 DEF LruWellFormed
  <2> QED BY <2>1, <2>2
<1> QED BY <1>6, <1>7, <1>8 DEF Reordered

\* touch: a page of the list is taken out of it and put at its front.
LEMMA TouchKeepsLists ==
  ASSUME TypeOK, LruWellFormed,
         NEW z \in Zones, NEW p \in HotPages(z),
         touch_lru_in_zone(z, p), UNCHANGED <<page_state, hot_count>>,
         NEW s, NEW n, n = hot_count[z], Spelt(z, s), NEW k \in 1..n, s[k] = p
  PROVE  /\ Reordered(z, Fronted(Dropped(s, n, k), n - 1, p))
         /\ \A q \in Pages : page_state'[q] # Hot => lru_prev'[q] = None /\ lru_next'[q] = None
<1> USE Sentinels
<1>1. HotPages(z) \subseteq Pages /\ p \in Pages BY DEF HotPages
<1>2. \A y \in Zones : HotPages(y)' = HotPages(y) BY DEF HotPages
<1>3. ZoneListOK(z) BY DEF LruWellFormed
<1>4. Chain(s, n, HotPages(z), lru_head[z], lru_tail[z], lru_prev, lru_next) BY DEF Spelt
<1>5. n \in Nat /\ n # 0 /\ s \in [1..n -> HotPages(z)] BY <1>4 DEF Chain
<1>6. lru_head[z] = p <=> k = 1
  <2>1. 1 \in 1..n BY <1>5
  <2> QED BY <1>4, <1>5, <2>1 DEF Chain
<1>7. CASE lru_head[z] = p
  <2>1. UNCHANGED lruVars BY <1>7 DEF touch_lru_in_zone
  <2>2. Fronted(Dropped(s, n, k), n - 1, p) = s
    <3> DEFINE t == Fronted(Dropped(s, n, k), n - 1, p)
    <3>1. (n - 1) + 1 = n /\ k = 1 BY <1>5, <1>6, <1>7
    <3>2. t = [i \in 1..n |-> IF i = 1 THEN p ELSE Dropped(s, n, k)[i - 1]]
      BY <3>1, Zenon DEF Fronted
    <3>3. ASSUME NEW i \in 1..n PROVE (IF i = 1 THEN p ELSE Dropped(s, n, k)[i - 1]) = s[i]
      BY <1>5, <3>1 DEF Dropped
    <3>4. s = [i \in 1..n |-> s[i]] BY <1>5
    <3> HIDE DEF t
    <3> QED BY <3>2, <3>3, <3>4, ZenonT(40) DEF t
  <2>3. \A y \in Zones : \A r : Spelt(y, r) => Spelt(y, r)'
    BY <1>2, <2>1 DEF Spelt, lruVars
  <2> QED BY <2>1, <2>2, <2>3 DEF Reordered, lruVars, LruWellFormed
<1>8. CASE lru_head[z] # p
  <2> DEFINE pr == lru_prev[p]
             nx == lru_next[p]
             hd == lru_head[z]
             tl == IF lru_tail[z] = p THEN pr ELSE lru_tail[z]
             t == Dropped(s, n, k)
             H == HotPages(z) \ {p}
             next1 == [q \in Pages |-> IF q = pr THEN nx ELSE lru_next[q]]
             prev1 == [q \in Pages |-> IF q = nx THEN pr ELSE lru_prev[q]]
  <2>1. /\ lru_next' = [q \in Pages |-> IF q = p THEN hd
                                        ELSE IF q = pr THEN nx ELSE lru_next[q]]
        /\ lru_prev' = [q \in Pages |-> IF q = hd THEN p
                                        ELSE IF q = p THEN None
                                        ELSE IF q = nx THEN pr ELSE lru_prev[q]]
        /\ lru_head' = [lru_head EXCEPT ![z] = p]
        /\ lru_tail' = [lru_tail EXCEPT ![z] = IF tl = None THEN p ELSE tl]
    BY <1>8 DEF touch_lru_in_zone
  <2>2. /\ lru_head'[z] = p /\ lru_tail'[z] = (IF tl = None THEN p ELSE tl)
        /\ \A y \in Zones \ {z} : lru_head'[y] = lru_head[y] /\ lru_tail'[y] = lru_tail[y]
    BY <2>1 DEF TypeOK
  <2>3. Chain(t, n - 1, H, hd, tl, prev1, next1)
    <3>1. \A q \in HotPages(z) : q # p =>
             /\ next1[q] = IF q = pr THEN nx ELSE lru_next[q]
             /\ prev1[q] = IF q = nx THEN pr ELSE lru_prev[q]
      BY <1>1
    <3>2. hd = IF hd = p THEN nx ELSE hd BY <1>8
    <3> HIDE DEF next1, prev1
    <3>3. LinkedOut(p, HotPages(z), lru_head[z], lru_tail[z], lru_prev, lru_next,
                    hd, tl, prev1, next1)
      BY <3>1, <3>2, Zenon DEF LinkedOut
    <3> QED BY <1>1, <1>4, <3>3, ChainDropped
  <2>4. H \subseteq Pages /\ p \notin H /\ hd # p /\ H \cup {p} = HotPages(z) BY <1>1, <1>8
  <2>5. \A q \in H : /\ lru_next'[q] = next1[q]
                     /\ lru_prev'[q] = IF q = hd THEN p ELSE prev1[q]
    BY <1>1, <2>1
  <2>6. lru_prev'[p] = None /\ lru_next'[p] = hd BY <1>1, <1>8, <2>1
  <2>7. Spelt(z, Fronted(t, n - 1, p))'
    <3> HIDE DEF H, hd, tl, t, next1, prev1
    <3>0. LinkedFirst(p, H, hd, tl, prev1, next1, lru_tail'[z], lru_prev', lru_next')
      BY <2>2, <2>5, <2>6, Zenon DEF LinkedFirst
    <3>1. Chain(Fronted(t, n - 1, p), (n - 1) + 1, H \cup {p}, p, lru_tail'[z], lru_prev', lru_next')
      BY <1>1, <2>3, <2>4, <3>0, ChainFronted
    <3>2. (n - 1) + 1 = n BY <1>5
    <3>3. hot_count'[z] = n OBVIOUS
    <3> QED BY <1>2, <2>2, <2>4, <3>1, <3>2, <3>3 DEF Spelt, t
  <2>8. ASSUME NEW y \in Zones \ {z}, NEW r, Spelt(y, r) PROVE Spelt(y, r)'
    <3>1. \A q \in HotPages(y) : q \in Pages /\ q # p /\ q # pr /\ q # nx /\ q # hd
      BY <1>3 DEF HotPages, ZoneListOK
    <3>2. \A q \in HotPages(y) : lru_prev'[q] = lru_prev[q] /\ lru_next'[q] = lru_next[q]
      BY <2>1, <3>1
    <3> QED BY <1>2, <2>2, <2>8, <3>2, SpeltKept
  <2>9. ASSUME NEW q \in Pages, page_state'[q] # Hot
        PROVE  lru_prev'[q] = None /\ lru_next'[q] = None
    <3>1. page_state[q] # Hot /\ q # p /\ q # pr /\ q # nx /\ q # hd
      BY <1>3, <2>9 DEF HotPages, ZoneListOK
    <3> QED BY <2>1, <3>1 DEF LruWellFormed
  <2> QED BY <2>7, <2>8, <2>9 DEF Reordered
<1> QED BY <1>7, <1>8

----------------------------------------------------------------------------
(* The invariant is inductive *)

\* The facts that do not change when neither pages nor links do.
LEMMA ListsUnchanged ==
  ASSUME Lists, UNCHANGED <<page_state, hot_count, lru_prev, lru_next, lru_head, lru_tail>>
  PROVE  Lists' /\ \A y \in Zones : \A s : Spelt(y, s) => Spelt(y, s)'
<1>1. \A y : HotPages(y)' = HotPages(y) BY DEF HotPages
<1>2. LruWellFormed' BY <1>1 DEF Lists, LruWellFormed, ZoneListOK
<1>3. \A y \in Zones : \A s : Spelt(y, s) => Spelt(y, s)' BY <1>1 DEF Spelt
<1>4. Chained' BY <1>1, <1>3 DEF Lists, Chained
<1> QED BY <1>2, <1>3, <1>4 DEF Lists

\* What the steps do to the order of zone z: page p enters at its front, moves
\* there, or leaves.
Pushed(z, p) ==
  \E s, n : /\ n = hot_count[z] /\ Spelt(z, s)
            /\ Reordered(z, Fronted(s, n, p))

Touched(z, p) ==
  \E s, n, k : /\ n = hot_count[z] /\ Spelt(z, s)
               /\ k \in 1..n /\ s[k] = p
               /\ Reordered(z, Fronted(Dropped(s, n, k), n - 1, p))

Evicted(z, p) ==
  \E s, n, k : /\ n = hot_count[z] /\ Spelt(z, s)
               /\ k \in 1..n /\ s[k] = p
               /\ Reordered(z, Dropped(s, n, k))

UnlinkedAfter ==
  \A q \in Pages : page_state'[q] # Hot => lru_prev'[q] = None /\ lru_next'[q] = None

\* A hot page has a place in the order of its zone.
LEMMA PlaceOf ==
  ASSUME Chained, NEW z \in Zones, NEW p \in HotPages(z)
  PROVE  \E s, n, k : n = hot_count[z] /\ Spelt(z, s) /\ k \in 1..n /\ s[k] = p
<1>1. PICK s : Spelt(z, s) BY DEF Chained
<1>2. \E k \in 1..hot_count[z] : s[k] = p BY <1>1 DEF Spelt, Chain
<1> QED BY <1>1, <1>2

LEMMA EnsureTouchReorders ==
  ASSUME TypeOK, Lists, EnsureTouch, NEW z, NEW p, z = resolve_flat(pid), p = pid
  PROVE  z \in Zones /\ p \in HotPages(z) /\ Touched(z, p) /\ UnlinkedAfter
<1>1. z \in Zones /\ p \in HotPages(z)
  BY PageInZone DEF EnsureTouch, TypeOK, HotPages
<1>2. touch_lru_in_zone(z, p) /\ UNCHANGED <<page_state, hot_count>>
  BY DEF EnsureTouch, pageVars
<1>3. PICK s, n, k : n = hot_count[z] /\ Spelt(z, s) /\ k \in 1..n /\ s[k] = p
  BY <1>1, PlaceOf DEF Lists
<1>4. Reordered(z, Fronted(Dropped(s, n, k), n - 1, p)) /\ UnlinkedAfter
  BY <1>1, <1>2, <1>3, TouchKeepsLists DEF Lists, UnlinkedAfter
<1> QED BY <1>1, <1>3, <1>4 DEF Touched

LEMMA EvictWriteReorders ==
  ASSUME TypeOK, Lists, CallInv, EvictWrite, ColdCapacity # 0,
         NEW z, NEW p, z = resolve_flat(pid), p = best
  PROVE  /\ z \in Zones /\ p \in HotPages(z) /\ Evicted(z, p) /\ UnlinkedAfter
         /\ \E x \in Slots : page_state' = [page_state EXCEPT ![p] = x]
         /\ hot_count' = [hot_count EXCEPT ![z] = @ - 1]
<1>1. PICK x \in Slots : EvictTo(z, x)
  BY DEF EvictWrite
<1>2. z \in Zones /\ p \in HotPages(z)
  BY PageInZone DEF EvictWrite, CallInv, TypeOK
<1>3. /\ remove_from_lru_in_zone(z, p)
      /\ page_state' = [page_state EXCEPT ![p] = x]
      /\ hot_count' = [hot_count EXCEPT ![z] = @ - 1]
  BY <1>1 DEF EvictTo
<1>4. PICK s, n, k : n = hot_count[z] /\ Spelt(z, s) /\ k \in 1..n /\ s[k] = p
  BY <1>2, PlaceOf DEF Lists
<1>5. x # Hot BY Sentinels
<1>6. Reordered(z, Dropped(s, n, k)) /\ UnlinkedAfter
  BY <1>2, <1>3, <1>4, <1>5, RemoveKeepsLists DEF Lists, UnlinkedAfter
<1> QED BY <1>2, <1>3, <1>4, <1>6 DEF Evicted

\* Both ways of bringing a page in.
LEMMA InsertReorders ==
  ASSUME TypeOK, Lists, NEW z \in Zones, NEW p \in Pages, resolve_flat(p) = z,
         page_state[p] # Hot, PushFront(z, p),
         page_state' = [page_state EXCEPT ![p] = Hot],
         hot_count' = [hot_count EXCEPT ![z] = @ + 1]
  PROVE  Pushed(z, p) /\ UnlinkedAfter
<1>1. PICK s : Spelt(z, s) BY DEF Lists, Chained
<1>2. PICK n : n = hot_count[z] OBVIOUS
<1>3. Reordered(z, Fronted(s, n, p)) /\ UnlinkedAfter
  BY <1>1, <1>2, PushKeepsLists DEF Lists, UnlinkedAfter
<1> QED BY <1>1, <1>2, <1>3 DEF Pushed

LEMMA EnsureAllocReorders ==
  ASSUME TypeOK, PushedInOrder, Lists, EnsureAlloc,
         NEW z, NEW p, z = resolve_flat(pid), p = zone_page_offsets(z) + npages[z]
  PROVE  /\ z \in Zones /\ p \in Pages /\ resolve_flat(p) = z /\ page_state[p] = Absent
         /\ Pushed(z, p) /\ UnlinkedAfter
<1>1. z \in Zones /\ p \in Pages /\ resolve_flat(p) = z /\ page_state[p] = Absent
  BY NextPage DEF EnsureAlloc
<1>2. /\ PushFront(z, p) /\ page_state' = [page_state EXCEPT ![p] = Hot]
      /\ hot_count' = [hot_count EXCEPT ![z] = @ + 1]
  BY DEF EnsureAlloc
<1> QED BY <1>1, <1>2, InsertReorders, Sentinels

LEMMA EnsureReloadReorders ==
  ASSUME TypeOK, Lists, EnsureReload, NEW z, NEW p, z = resolve_flat(pid), p = pid
  PROVE  /\ z \in Zones /\ p \in Pages /\ resolve_flat(p) = z /\ page_state[p] \in Slots
         /\ Pushed(z, p) /\ UnlinkedAfter
<1>1. z \in Zones /\ p \in Pages /\ resolve_flat(p) = z /\ page_state[p] \in Slots
  BY PageInZone DEF EnsureReload, TypeOK
<1>2. /\ PushFront(z, p) /\ page_state' = [page_state EXCEPT ![p] = Hot]
      /\ hot_count' = [hot_count EXCEPT ![z] = @ + 1]
  BY DEF EnsureReload
<1> QED BY <1>1, <1>2, InsertReorders, Sentinels

LEMMA ListsStep == IInv /\ [Next]_vars => Lists'
<1> SUFFICES ASSUME IInv, [Next]_vars PROVE Lists'
  OBVIOUS
<1>0. TypeOK /\ PushedInOrder /\ Lists /\ CallInv /\ Chained
  BY DEF IInv, Lists
<1>1. ASSUME UNCHANGED <<page_state, hot_count, lru_prev, lru_next, lru_head, lru_tail>>
      PROVE  Lists'
  BY <1>0, <1>1, ListsUnchanged
<1>2. ASSUME NEW z \in Zones, NEW p, Pushed(z, p) \/ Touched(z, p) \/ Evicted(z, p), UnlinkedAfter
      PROVE  Lists'
  <2>1. PICK t : Reordered(z, t) BY <1>2 DEF Pushed, Touched, Evicted
  <2> QED BY <1>0, <1>2, <2>1, ListsAfter DEF UnlinkedAfter
<1> PICK z : z = resolve_flat(pid)
  OBVIOUS
<1>3. ASSUME NEW start \in Pages, NEW end \in Pages, ensure_pages_hot(start, end)
      PROVE  Lists'
  BY <1>1, <1>3 DEF ensure_pages_hot, pageVars, lruVars
<1>4. ASSUME NEW p \in Pages, NEW w \in 1..MaxImportance, record_importance(p, w)
      PROVE  Lists'
  BY <1>1, <1>4 DEF record_importance, pageVars, lruVars
<1>5. CASE reset_entropy \/ EnsureRoom \/ EvictScan
  BY <1>1, <1>5 DEF reset_entropy, EnsureRoom, RoomFor, EvictScan, pageVars, lruVars
<1>6. CASE EnsureTouch
  BY <1>0, <1>2, <1>6, EnsureTouchReorders
<1>7. CASE EvictWrite
  <2>1. CASE ColdCapacity = 0
    BY <1>1, <1>7, <2>1 DEF EvictWrite, pageVars, lruVars
  <2>2. CASE ColdCapacity # 0
    BY <1>0, <1>2, <1>7, <2>2, EvictWriteReorders
  <2> QED BY <2>1, <2>2
<1>8. CASE EnsureAlloc
  BY <1>0, <1>2, <1>8, EnsureAllocReorders
<1>9. CASE EnsureReload
  BY <1>0, <1>2, <1>9, EnsureReloadReorders
<1>10. CASE UNCHANGED vars
  BY <1>1, <1>10 DEF vars, pageVars, lruVars
<1>11. QED
  BY <1>3, <1>4, <1>5, <1>6, <1>7, <1>8, <1>9, <1>10 DEF Next, EnsureStep

LEMMA PushedStep == IInv /\ [Next]_vars => PushedInOrder'
<1> SUFFICES ASSUME IInv, [Next]_vars PROVE PushedInOrder'
  OBVIOUS
<1>0. TypeOK /\ PushedInOrder /\ CallInv
  BY DEF IInv
<1>1. ASSUME UNCHANGED <<page_state, npages>>
      PROVE  PushedInOrder'
  BY <1>0, <1>1 DEF PushedInOrder
\* A page that was there stays there: eviction and reload only change its tier.
<1>2. ASSUME NEW p \in Pages, NEW x, page_state[p] # Absent, x # Absent,
             page_state' = [page_state EXCEPT ![p] = x], UNCHANGED npages
      PROVE  PushedInOrder'
  BY <1>0, <1>2 DEF PushedInOrder, TypeOK
<1>3. ASSUME NEW start \in Pages, NEW end \in Pages, ensure_pages_hot(start, end)
      PROVE  PushedInOrder'
  BY <1>1, <1>3 DEF ensure_pages_hot, pageVars
<1>4. ASSUME NEW p \in Pages, NEW w \in 1..MaxImportance, record_importance(p, w)
      PROVE  PushedInOrder'
  BY <1>1, <1>4 DEF record_importance, pageVars
<1>5. CASE reset_entropy \/ EnsureTouch \/ EnsureRoom \/ EvictScan
  BY <1>1, <1>5 DEF reset_entropy, EnsureTouch, EnsureRoom, RoomFor, EvictScan, pageVars
<1>6. CASE EvictWrite
  <2>1. CASE ColdCapacity = 0
    BY <1>1, <1>6, <2>1 DEF EvictWrite, pageVars
  <2>2. CASE ColdCapacity # 0
    <3>1. PICK s \in Slots : EvictTo(resolve_flat(pid), s)
      BY <1>6, <2>2 DEF EvictWrite
    <3>2. best \in Pages /\ page_state[best] # Absent
      BY <1>0, <1>6, Sentinels DEF EvictWrite, CallInv, HotPages
    <3>3. page_state' = [page_state EXCEPT ![best] = s] /\ UNCHANGED npages
      BY <3>1 DEF EvictTo
    <3>4. QED
      BY <1>2, <3>2, <3>3, Sentinels
  <2>3. QED
    BY <2>1, <2>2
<1>7. CASE EnsureAlloc
  <2> DEFINE z == resolve_flat(pid)
             p == zone_page_offsets(z) + npages[z]
  <2>1. z \in Zones /\ p \in Pages /\ resolve_flat(p) = z
    BY <1>0, <1>7, NextPage DEF EnsureAlloc
  <2>2. /\ page_state' = [page_state EXCEPT ![p] = Hot]
        /\ npages' = [npages EXCEPT ![z] = @ + 1]
    BY <1>7 DEF EnsureAlloc
  <2>3. ASSUME NEW q \in Pages
        PROVE  page_state'[q] = Absent <=>
                 q >= zone_page_offsets(resolve_flat(q)) + npages'[resolve_flat(q)]
    <3>1. page_state[q] = Absent <=>
            q >= zone_page_offsets(resolve_flat(q)) + npages[resolve_flat(q)]
      BY <1>0 DEF PushedInOrder
    <3>2. resolve_flat(q) \in Zones /\ zone_page_offsets(resolve_flat(q)) \in Nat /\ q \in Int
      BY PageInZone DEF Pages
    <3>3. CASE resolve_flat(q) # z
      <4>1. q # p /\ npages'[resolve_flat(q)] = npages[resolve_flat(q)]
        BY <1>0, <2>1, <2>2, <3>2, <3>3 DEF TypeOK
      <4>2. QED
        BY <1>0, <2>1, <2>2, <3>1, <4>1 DEF TypeOK
    <3>4. CASE resolve_flat(q) = z
      <4>1. npages'[z] = npages[z] + 1 /\ npages[z] \in Nat
        BY <1>0, <2>1, <2>2 DEF TypeOK
      <4>2. page_state'[q] = IF q = p THEN Hot ELSE page_state[q]
        BY <1>0, <2>1, <2>2 DEF TypeOK
      <4>3. q >= zone_page_offsets(z) + (npages[z] + 1) <=> q >= p /\ q # p
        BY <3>2, <3>4, <4>1
      <4>4. QED
        BY <3>1, <3>4, <4>1, <4>2, <4>3, Sentinels
    <3>5. QED
      BY <3>3, <3>4
  <2>4. QED
    BY <2>3 DEF PushedInOrder
<1>8. CASE EnsureReload
  <2>1. pid \in Pages /\ page_state[pid] # Absent
    BY <1>0, <1>8, Sentinels DEF EnsureReload, TypeOK
  <2>2. page_state' = [page_state EXCEPT ![pid] = Hot] /\ UNCHANGED npages
    BY <1>8 DEF EnsureReload
  <2>3. QED
    BY <1>2, <2>1, <2>2, Sentinels
<1>9. CASE UNCHANGED vars
  BY <1>1, <1>9 DEF vars, pageVars
<1>10. QED
  BY <1>3, <1>4, <1>5, <1>6, <1>7, <1>8, <1>9 DEF Next, EnsureStep

LEMMA CallStep == IInv /\ [Next]_vars => CallInv'
<1> SUFFICES ASSUME IInv, [Next]_vars PROVE CallInv'
  OBVIOUS
<1>0. TypeOK /\ Lists /\ CallInv
  BY DEF IInv
<1>1. ASSUME NEW start \in Pages, NEW end \in Pages, ensure_pages_hot(start, end)
      PROVE  CallInv'
  BY <1>1 DEF ensure_pages_hot, CallInv
<1>2. ASSUME NEW p \in Pages, NEW w \in 1..MaxImportance, record_importance(p, w)
      PROVE  CallInv'
  BY <1>2 DEF record_importance, callVars, CallInv
<1>3. CASE reset_entropy
  BY <1>3 DEF reset_entropy, callVars, CallInv
<1>4. CASE EnsureTouch
  BY <1>4 DEF EnsureTouch, CallInv
<1>5. CASE EnsureRoom
  <2> DEFINE z == resolve_flat(pid)
  <2>1. z \in Zones /\ ZoneListOK(z)
    BY <1>0, <1>5, PageInZone DEF EnsureRoom, RoomFor, TypeOK, Lists, LruWellFormed
  <2>2. HotPages(z)' = HotPages(z) /\ pid' = pid /\ page_state'[pid] # Hot
    BY <1>5 DEF EnsureRoom, RoomFor, pageVars, HotPages
  <2>3. stage' = "scan" => /\ lru_tail[z] # None
                           /\ best' = lru_tail[z]
                           /\ cursor' = lru_prev[lru_tail[z]]
    BY <1>5 DEF EnsureRoom, RoomFor
  <2>4. stage' = "scan" => /\ best' \in HotPages(z)
                           /\ cursor' = None \/ cursor' \in HotPages(z)
    BY <2>1, <2>3 DEF ZoneListOK
  <2>5. QED
    BY <2>2, <2>4 DEF CallInv
<1>6. CASE EvictScan
  <2> DEFINE z == resolve_flat(pid)
  <2>1. z \in Zones /\ ZoneListOK(z)
    BY <1>0, <1>6, PageInZone DEF EvictScan, TypeOK, Lists, LruWellFormed
  <2>2. /\ HotPages(z)' = HotPages(z) /\ pid' = pid /\ page_state'[pid] # Hot
        /\ stage' = "scan"
    BY <1>0, <1>6 DEF EvictScan, pageVars, callVars, HotPages, CallInv
  <2>3. best \in HotPages(z) /\ cursor \in HotPages(z)
    BY <1>0, <1>6 DEF EvictScan, CallInv
  <2>4. best' \in HotPages(z) /\ (cursor' = None \/ cursor' \in HotPages(z))
    BY <1>6, <2>1, <2>3 DEF EvictScan, ZoneListOK
  <2>5. QED
    BY <2>2, <2>4 DEF CallInv
<1>7. CASE EvictWrite
  <2>1. stage' = "insert" /\ pid' = pid /\ page_state[pid] # Hot /\ pid \in Pages /\ best \in Pages
    BY <1>0, <1>7 DEF EvictWrite, CallInv, TypeOK
  <2>2. page_state'[pid] # Hot
    <3>1. CASE ColdCapacity = 0
      BY <1>7, <2>1, <3>1 DEF EvictWrite, pageVars
    <3>2. CASE ColdCapacity # 0
      <4>1. PICK s \in Slots : page_state' = [page_state EXCEPT ![best] = s]
        BY <1>7, <3>2 DEF EvictWrite, EvictTo
      <4>2. QED
        BY <1>0, <2>1, <4>1, Sentinels DEF TypeOK
    <3>3. QED
      BY <3>1, <3>2
  <2>3. QED
    BY <2>1, <2>2 DEF CallInv
<1>8. CASE EnsureAlloc \/ EnsureReload
  BY <1>8 DEF EnsureAlloc, EnsureReload, CallInv
<1>9. CASE UNCHANGED vars
  BY <1>0, <1>9 DEF vars, pageVars, callVars, scanVars, CallInv, HotPages
<1>10. QED
  BY <1>1, <1>2, <1>3, <1>4, <1>5, <1>6, <1>7, <1>8, <1>9 DEF Next, EnsureStep

\* Types, the order of pushes, the lists and what the running call knows hold
\* together after any sequence of calls: each step of ensure_page relies on all.
THEOREM Invariance == Spec => []IInv
<1>1. IInv /\ [Next]_vars => IInv'
  BY TypeStep, PushedStep, ListsStep, CallStep DEF IInv
<1>2. QED
  BY InitInv, <1>1, PTL DEF Spec

\* Type correctness of the page management, whatever the sizes of the zones,
\* the limit and the capacity; in particular the cursor stays on the file.
THEOREM TypeCorrect == Spec => []TypeOK
<1>1. IInv => TypeOK
  BY DEF IInv
<1>2. QED
  BY Invariance, <1>1, PTL

\* The LRU lists stay well formed: touch, push and remove never lose a hot
\* page, leave a dangling link or forget the head or the tail.
THEOREM LruListsWellFormed == Spec => []LruWellFormed
<1>1. IInv => LruWellFormed
  BY DEF IInv, Lists
<1>2. QED
  BY Invariance, <1>1, PTL

----------------------------------------------------------------------------
(* The hot counters *)

\* A zone at its limit is in the middle of an eviction; the page that is
\* inserted finds its zone below the limit, when there is a cold file at all.
RoomInv ==
  /\ stage = "scan" => hot_count[resolve_flat(pid)] >= RamPageLimit
  /\ ColdCapacity > 0 =>
       /\ \A z \in Zones : hot_count[z] <= RamPageLimit
       /\ stage = "insert" => hot_count[resolve_flat(pid)] < RamPageLimit

CountInv == HotCountExact /\ RoomInv

\* The pages, and the hot ones of a zone, are finitely many.
LEMMA HotFinite ==
  ASSUME NEW z \in Zones
  PROVE  /\ IsFiniteSet(Pages) /\ Cardinality(Pages) = total_pages
         /\ IsFiniteSet(HotPages(z)) /\ Cardinality(HotPages(z)) \in Nat
<1>1. total_pages \in Nat
  BY KVPagesAssumption DEF KVPagesAssumption, total_pages, Zones
<1>2. IsFiniteSet(Pages) /\ Cardinality(Pages) = total_pages
  BY <1>1, FS_Interval DEF Pages
<1>3. HotPages(z) \in SUBSET Pages
  BY DEF HotPages
<1>4. QED
  BY <1>2, <1>3, FS_Subset, FS_CardinalityType

\* A page that was not hot enters RAM and is counted.
LEMMA InsertCounts ==
  ASSUME TypeOK, HotCountExact,
         NEW z \in Zones, NEW p \in Pages, resolve_flat(p) = z, page_state[p] # Hot,
         page_state' = [page_state EXCEPT ![p] = Hot],
         hot_count' = [hot_count EXCEPT ![z] = @ + 1]
  PROVE  HotCountExact'
<1>1. HotPages(z)' = HotPages(z) \cup {p} /\ p \notin HotPages(z)
  BY DEF HotPages, TypeOK
<1>2. \A y \in Zones \ {z} : HotPages(y)' = HotPages(y)
  BY DEF HotPages, TypeOK
<1>3. Cardinality(HotPages(z)') = Cardinality(HotPages(z)) + 1
  BY <1>1, HotFinite, FS_AddElement, ZenonT(40)
<1>4. QED
  BY <1>2, <1>3 DEF HotCountExact, TypeOK

\* A hot page leaves RAM and is no longer counted.
LEMMA EvictCounts ==
  ASSUME TypeOK, HotCountExact,
         NEW z \in Zones, NEW p \in HotPages(z), NEW s \in Slots,
         page_state' = [page_state EXCEPT ![p] = s],
         hot_count' = [hot_count EXCEPT ![z] = @ - 1]
  PROVE  HotCountExact'
<1>1. HotPages(z)' = HotPages(z) \ {p}
  BY Sentinels DEF HotPages, TypeOK
<1>2. \A y \in Zones \ {z} : HotPages(y)' = HotPages(y)
  BY Sentinels DEF HotPages, TypeOK
<1>3. Cardinality(HotPages(z)') = Cardinality(HotPages(z)) - 1
  BY <1>1, HotFinite, FS_RemoveElement, ZenonT(40)
<1>4. QED
  BY <1>2, <1>3 DEF HotCountExact, TypeOK

LEMMA CountInit == Init => CountInv
<1> SUFFICES ASSUME Init PROVE CountInv
  OBVIOUS
<1>1. \A z \in Zones : HotPages(z) = {}
  BY Sentinels DEF Init, HotPages
<1>2. HotCountExact
  BY <1>1, FS_EmptySet DEF Init, HotCountExact
<1>3. RoomInv
  BY KVPagesAssumption DEF Init, RoomInv, KVPagesAssumption
<1>4. QED
  BY <1>2, <1>3 DEF CountInv

LEMMA CountStep == IInv /\ CountInv /\ [Next]_vars => CountInv'
<1> SUFFICES ASSUME IInv, CountInv, [Next]_vars PROVE CountInv'
  OBVIOUS
<1>0. TypeOK /\ PushedInOrder /\ Lists /\ CallInv /\ HotCountExact /\ RoomInv
  BY DEF IInv, CountInv
<1>1. RamPageLimit \in Nat \ {0} /\ ColdCapacity \in Nat
  BY KVPagesAssumption DEF KVPagesAssumption
<1>2. \A z \in Zones : hot_count[z] \in Int
  BY <1>0 DEF TypeOK
<1>3. ASSUME UNCHANGED <<page_state, hot_count>> PROVE HotCountExact'
  BY <1>0, <1>3 DEF HotCountExact, HotPages
<1>4. ASSUME NEW start \in Pages, NEW end \in Pages, ensure_pages_hot(start, end)
      PROVE  CountInv'
  BY <1>0, <1>3, <1>4 DEF ensure_pages_hot, pageVars, CountInv, RoomInv
<1>5. ASSUME NEW p \in Pages, NEW w \in 1..MaxImportance, record_importance(p, w)
      PROVE  CountInv'
  BY <1>0, <1>3, <1>5 DEF record_importance, pageVars, callVars, CountInv, RoomInv
<1>6. CASE reset_entropy \/ EvictScan \/ UNCHANGED vars
  BY <1>0, <1>3, <1>6
     DEF reset_entropy, EvictScan, vars, pageVars, callVars, CountInv, RoomInv
<1>7. CASE EnsureTouch
  BY <1>0, <1>3, <1>7 DEF EnsureTouch, pageVars, CountInv, RoomInv
<1>8. CASE EnsureRoom
  <2> DEFINE z == resolve_flat(pid)
  <2>1. z \in Zones /\ ZoneListOK(z)
    BY <1>0, <1>8, PageInZone DEF EnsureRoom, RoomFor, TypeOK, Lists, LruWellFormed
  <2>2. /\ pid' = pid /\ UNCHANGED <<page_state, hot_count>>
        /\ \/ stage' = "scan" /\ hot_count[z] >= RamPageLimit
           \/ stage' = "insert" /\ (hot_count[z] < RamPageLimit \/ lru_tail[z] = None)
    BY <1>1, <1>2, <1>8, <2>1 DEF EnsureRoom, RoomFor, pageVars
  \* An empty list is the list of a zone that has room.
  <2>3. lru_tail[z] = None => hot_count[z] = 0
    BY <1>0, <2>1, FS_EmptySet DEF ZoneListOK, HotCountExact
  <2>4. RoomInv'
    BY <1>0, <1>1, <1>2, <2>1, <2>2, <2>3 DEF RoomInv
  <2>5. QED
    BY <1>3, <2>2, <2>4 DEF CountInv
<1>9. CASE EvictWrite
  <2> DEFINE z == resolve_flat(pid)
  <2>1. /\ z \in Zones /\ best \in HotPages(z)
        /\ pid' = pid /\ stage' = "insert" /\ stage = "scan"
    BY <1>0, <1>9, PageInZone DEF EvictWrite, CallInv, TypeOK
  <2>2. CASE ColdCapacity = 0
    BY <1>1, <1>3, <1>9, <2>1, <2>2 DEF EvictWrite, pageVars, CountInv, RoomInv
  <2>3. CASE ColdCapacity # 0
    <3>1. PICK s \in Slots : EvictTo(z, s)
      BY <1>9, <2>3 DEF EvictWrite
    <3>2. /\ page_state' = [page_state EXCEPT ![best] = s]
          /\ hot_count' = [hot_count EXCEPT ![z] = @ - 1]
      BY <3>1 DEF EvictTo
    <3>3. HotCountExact'
      BY <1>0, <2>1, <3>2, EvictCounts
    <3>4. \A y \in Zones : hot_count'[y] = IF y = z THEN hot_count[y] - 1 ELSE hot_count[y]
      BY <1>0, <2>1, <3>2 DEF TypeOK
    <3>5. RoomInv'
      BY <1>0, <1>1, <1>2, <2>1, <2>3, <3>4 DEF RoomInv
    <3>6. QED
      BY <3>3, <3>5 DEF CountInv
  <2>4. QED
    BY <2>2, <2>3
\* Both ways of bringing a page in count it once, in a zone that had room.
<1>10. ASSUME NEW z \in Zones, NEW p \in Pages, z = resolve_flat(pid),
              resolve_flat(p) = z, page_state[p] # Hot, stage = "insert", stage' = "page",
              page_state' = [page_state EXCEPT ![p] = Hot],
              hot_count' = [hot_count EXCEPT ![z] = @ + 1]
       PROVE  CountInv'
  <2>1. HotCountExact'
    BY <1>0, <1>10, InsertCounts
  <2>2. \A y \in Zones : hot_count'[y] = IF y = z THEN hot_count[y] + 1 ELSE hot_count[y]
    BY <1>0, <1>10 DEF TypeOK
  <2>3. RoomInv'
    BY <1>0, <1>1, <1>2, <1>10, <2>2 DEF RoomInv
  <2>4. QED
    BY <2>1, <2>3 DEF CountInv
<1>11. CASE EnsureAlloc
  <2> DEFINE z == resolve_flat(pid)
             p == zone_page_offsets(z) + npages[z]
  <2>1. z \in Zones /\ p \in Pages /\ resolve_flat(p) = z /\ page_state[p] # Hot
    BY <1>0, <1>11, NextPage, Sentinels DEF EnsureAlloc
  <2>2. /\ stage = "insert" /\ stage' = "page"
        /\ page_state' = [page_state EXCEPT ![p] = Hot]
        /\ hot_count' = [hot_count EXCEPT ![z] = @ + 1]
    BY <1>11 DEF EnsureAlloc
  <2>3. QED
    BY <1>10, <2>1, <2>2
<1>12. CASE EnsureReload
  <2>1. pid \in Pages /\ resolve_flat(pid) \in Zones /\ page_state[pid] # Hot
    BY <1>0, <1>12, PageInZone, Sentinels DEF EnsureReload, TypeOK
  <2>2. /\ stage = "insert" /\ stage' = "page"
        /\ page_state' = [page_state EXCEPT ![pid] = Hot]
        /\ hot_count' = [hot_count EXCEPT ![resolve_flat(pid)] = @ + 1]
    BY <1>12 DEF EnsureReload
  <2>3. QED
    BY <1>10, <2>1, <2>2
<1>13. QED
  BY <1>4, <1>5, <1>6, <1>7, <1>8, <1>9, <1>11, <1>12 DEF Next, EnsureStep

\* The counters that decide about evictions count the pages in RAM exactly,
\* and with a cold file no zone holds more than ram_page_limit of them.
THEOREM RamLimitKept == Spec => []HotPagesBounded
<1>1. CountInv => HotPagesBounded
  BY DEF CountInv, RoomInv, HotPagesBounded, RamLimitHolds
<1>2. QED
  BY Invariance, CountInit, CountStep, <1>1, PTL DEF Spec

----------------------------------------------------------------------------
(* The slots of the cold file *)

\* A page is only evicted from a zone at its limit, and the page it makes room
\* for may be cold itself: a slot is free at every eviction when the slots
\* exceed the pages in use beyond the limit.  Without a cold file none is needed.
UsedPages == {p \in Pages : page_state[p] # Absent}
SlotLeft == ColdCapacity = 0 \/ Cardinality(UsedPages) - RamPageLimit < ColdCapacity

\* Which is so in every state when there is one slot more than pages beyond the limit.
SlotsSuffice == ColdCapacity = 0 \/ total_pages - RamPageLimit < ColdCapacity

LEMMA UsedFinite ==
  /\ IsFiniteSet(UsedPages) /\ Cardinality(UsedPages) \in Nat
  /\ Cardinality(UsedPages) <= total_pages
<1>1. UsedPages \in SUBSET Pages /\ 0 \in Zones
  BY DEF UsedPages, Zones
<1>2. IsFiniteSet(Pages) /\ Cardinality(Pages) = total_pages
  BY <1>1, HotFinite
<1>3. IsFiniteSet(UsedPages) /\ Cardinality(UsedPages) <= Cardinality(Pages)
  BY <1>1, <1>2, FS_Subset
<1>4. QED
  BY <1>2, <1>3, FS_CardinalityType

LEMMA SufficeLeavesOne == SlotsSuffice => SlotLeft
<1>1. ColdCapacity \in Nat /\ RamPageLimit \in Nat /\ total_pages \in Nat
  BY KVPagesAssumption DEF KVPagesAssumption, total_pages, Zones
<1>2. QED
  BY <1>1, UsedFinite DEF SlotsSuffice, SlotLeft

\* Were no slot free at an eviction, as many pages as slots would be cold, in
\* addition to the RamPageLimit hot ones: more than are in use.
LEMMA SlotFree ==
  ASSUME SlotLeft, ColdCapacity # 0, TypeOK, SlotsOwned,
         NEW z \in Zones, hot_count[z] >= RamPageLimit, HotCountExact
  PROVE  FreeSlots # {}
<1> SUFFICES ASSUME FreeSlots = {} PROVE FALSE
  OBVIOUS
<1>0. ColdCapacity \in Nat /\ RamPageLimit \in Nat /\ total_pages \in Nat
  BY KVPagesAssumption DEF KVPagesAssumption, total_pages, Zones
<1>1. \A s \in Slots : \E p \in ColdPages : page_state[p] = s
  BY DEF SlotsOwned, FreeSlots
<1> DEFINE owner == [s \in Slots |-> CHOOSE p \in ColdPages : page_state[p] = s]
<1>2. \A s \in Slots : owner[s] \in ColdPages /\ page_state[owner[s]] = s
  BY <1>1
<1>3. owner \in Injection(Slots, ColdPages)
  BY <1>2 DEF Injection, IsInjective
<1>4. ColdPages \in SUBSET Pages /\ HotPages(z) \in SUBSET Pages
  BY DEF ColdPages, HotPages
<1>5. IsFiniteSet(ColdPages) /\ Cardinality(ColdPages) \in Nat
  BY <1>4, HotFinite, FS_Subset, FS_CardinalityType
<1>6. Cardinality(Slots) <= Cardinality(ColdPages)
  BY <1>3, <1>5, FS_Injection
<1>7. Cardinality(Slots) = ColdCapacity
  BY <1>0, FS_Interval DEF Slots
<1>8. ColdPages \cap HotPages(z) = {}
  BY Sentinels DEF ColdPages, HotPages
<1>9. Cardinality(ColdPages \cup HotPages(z)) = Cardinality(ColdPages) + Cardinality(HotPages(z))
  <2>1. Cardinality(ColdPages \cup HotPages(z))
          = Cardinality(ColdPages) + Cardinality(HotPages(z)) - Cardinality({})
    BY <1>5, <1>8, HotFinite, FS_Union
  <2>2. QED
    BY <1>5, <2>1, HotFinite, FS_EmptySet
<1>10. Cardinality(ColdPages \cup HotPages(z)) <= Cardinality(UsedPages)
  <2>1. (ColdPages \cup HotPages(z)) \in SUBSET UsedPages
    BY Sentinels DEF ColdPages, HotPages, UsedPages
  <2>2. QED
    BY <2>1, UsedFinite, FS_Subset
<1>11. hot_count[z] = Cardinality(HotPages(z)) /\ Cardinality(HotPages(z)) \in Nat
  BY HotFinite DEF HotCountExact
<1>12. QED
  BY <1>0, <1>5, <1>6, <1>7, <1>9, <1>10, <1>11, UsedFinite DEF SlotLeft

\* What an eviction does to the slots: the page goes to a free one.
LEMMA EvictsToFree ==
  ASSUME SlotLeft, IInv, CountInv, SlotsOwned, EvictWrite, ColdCapacity # 0
  PROVE  \E s \in FreeSlots :
           /\ EvictTo(resolve_flat(pid), s)
           /\ best \in HotPages(resolve_flat(pid))
           /\ resolve_flat(pid) \in Zones
<1>0. TypeOK /\ CallInv /\ HotCountExact /\ RoomInv /\ stage = "scan"
  BY DEF IInv, CountInv, EvictWrite
<1>1. resolve_flat(pid) \in Zones /\ best \in HotPages(resolve_flat(pid))
  BY <1>0, PageInZone DEF TypeOK, CallInv
<1>2. FreeSlots # {}
  BY <1>0, <1>1, SlotFree DEF RoomInv
<1>3. PICK s \in Slots : IsNextSlot(s) /\ EvictTo(resolve_flat(pid), s)
  BY DEF EvictWrite
<1>4. s \in FreeSlots
  BY <1>2, <1>3 DEF IsNextSlot
<1>5. QED
  BY <1>1, <1>3, <1>4

LEMMA SlotsInit == Init => SlotsOwned
<1> SUFFICES ASSUME Init PROVE SlotsOwned
  OBVIOUS
<1>1. ColdPages = {}
  BY Sentinels DEF Init, ColdPages
<1>2. QED
  BY <1>1 DEF Init, SlotsOwned

LEMMA SlotsStep ==
  IInv /\ CountInv /\ SlotsOwned /\ SlotLeft /\ [Next]_vars => SlotsOwned'
<1> SUFFICES ASSUME IInv, CountInv, SlotsOwned, SlotLeft, [Next]_vars PROVE SlotsOwned'
  OBVIOUS
<1>0. TypeOK /\ PushedInOrder /\ CallInv
  BY DEF IInv
<1>1. ASSUME UNCHANGED <<page_state, cold_slot_used>> PROVE SlotsOwned'
  BY <1>1 DEF SlotsOwned, ColdPages
<1>2. ASSUME NEW start \in Pages, NEW end \in Pages, ensure_pages_hot(start, end)
      PROVE  SlotsOwned'
  BY <1>1, <1>2 DEF ensure_pages_hot, pageVars, coldVars
<1>3. ASSUME NEW p \in Pages, NEW w \in 1..MaxImportance, record_importance(p, w)
      PROVE  SlotsOwned'
  BY <1>1, <1>3 DEF record_importance, pageVars, coldVars
<1>4. CASE reset_entropy \/ EvictScan \/ EnsureTouch \/ EnsureRoom \/ UNCHANGED vars
  BY <1>1, <1>4
     DEF reset_entropy, EvictScan, EnsureTouch, EnsureRoom, RoomFor, vars, pageVars, coldVars
<1>5. CASE EvictWrite
  <2>1. CASE ColdCapacity = 0
    BY <1>1, <1>5, <2>1 DEF EvictWrite, pageVars, coldVars
  <2>2. CASE ColdCapacity # 0
    <3>1. PICK s \in FreeSlots : /\ EvictTo(resolve_flat(pid), s)
                                 /\ best \in HotPages(resolve_flat(pid))
      BY <1>5, <2>2, EvictsToFree
    <3>2. s \in Slots /\ ~cold_slot_used[s] /\ best \in Pages /\ best \notin ColdPages
      BY <3>1, Sentinels DEF FreeSlots, HotPages, ColdPages
    <3>3. /\ page_state' = [page_state EXCEPT ![best] = s]
          /\ cold_slot_used' = [cold_slot_used EXCEPT ![s] = TRUE]
      BY <3>1 DEF EvictTo
    <3>4. ColdPages' = ColdPages \cup {best}
      BY <1>0, <3>2, <3>3 DEF TypeOK, ColdPages
    <3>5. \A p \in Pages : page_state'[p] = IF p = best THEN s ELSE page_state[p]
      BY <1>0, <3>3 DEF TypeOK
    <3>6. \A p \in ColdPages : p \in Pages /\ page_state[p] # s
      BY <3>2 DEF SlotsOwned, ColdPages
    <3>7. \A t \in Slots : cold_slot_used'[t] = (t = s \/ cold_slot_used[t])
      BY <1>0, <3>2, <3>3 DEF TypeOK
    <3>8. \A p, q \in ColdPages' : page_state'[p] = page_state'[q] => p = q
      BY <3>2, <3>4, <3>5, <3>6 DEF SlotsOwned
    <3>9. \A t \in Slots : cold_slot_used'[t] <=> \E p \in ColdPages' : page_state'[p] = t
      <4>1. ASSUME NEW t \in Slots, t # s
            PROVE  (\E p \in ColdPages' : page_state'[p] = t)
                     <=> \E p \in ColdPages : page_state[p] = t
        BY <3>2, <3>4, <3>5, <3>6, <4>1
      <4>2. \E p \in ColdPages' : page_state'[p] = s
        BY <3>2, <3>4, <3>5
      <4>3. QED
        BY <3>7, <4>1, <4>2 DEF SlotsOwned
    <3>10. QED
      BY <3>8, <3>9 DEF SlotsOwned
  <2>3. QED
    BY <2>1, <2>2
<1>6. CASE EnsureAlloc
  <2> DEFINE p == zone_page_offsets(resolve_flat(pid)) + npages[resolve_flat(pid)]
  <2>1. p \in Pages /\ page_state[p] = Absent
    BY <1>0, <1>6, NextPage DEF EnsureAlloc
  <2>2. page_state' = [page_state EXCEPT ![p] = Hot] /\ UNCHANGED cold_slot_used
    BY <1>6 DEF EnsureAlloc, coldVars
  <2> HIDE DEF p
  <2>3. ColdPages' = ColdPages
    BY <1>0, <2>1, <2>2, Sentinels DEF TypeOK, ColdPages
  <2>4. \A q \in ColdPages : page_state'[q] = page_state[q]
    BY <1>0, <2>1, <2>2, Sentinels DEF TypeOK, ColdPages
  <2>5. QED
    BY <2>2, <2>3, <2>4 DEF SlotsOwned
<1>7. CASE EnsureReload
  <2>1. pid \in Pages /\ page_state[pid] \in Slots /\ pid \in ColdPages
    BY <1>0, <1>7 DEF EnsureReload, TypeOK, ColdPages
  <2>2. /\ page_state' = [page_state EXCEPT ![pid] = Hot]
        /\ cold_slot_used' = [cold_slot_used EXCEPT ![page_state[pid]] = FALSE]
    BY <1>7 DEF EnsureReload
  <2>3. ColdPages' = ColdPages \ {pid}
    BY <1>0, <2>1, <2>2, Sentinels DEF TypeOK, ColdPages
  <2>4. \A q \in ColdPages' : q \in ColdPages /\ q # pid /\ page_state'[q] = page_state[q]
    BY <1>0, <2>2, <2>3 DEF TypeOK, ColdPages
  <2>5. \A t \in Slots : cold_slot_used'[t] = (t # page_state[pid] /\ cold_slot_used[t])
    BY <1>0, <2>1, <2>2 DEF TypeOK
  <2>6. \A p, q \in ColdPages' : page_state'[p] = page_state'[q] => p = q
    BY <2>4 DEF SlotsOwned
  <2>7. \A t \in Slots : cold_slot_used'[t] <=> \E p \in ColdPages' : page_state'[p] = t
    <3>1. ~\E p \in ColdPages' : page_state'[p] = page_state[pid]
      BY <2>1, <2>4 DEF SlotsOwned
    <3>2. ASSUME NEW t \in Slots, t # page_state[pid]
          PROVE  (\E p \in ColdPages' : page_state'[p] = t)
                   <=> \E p \in ColdPages : page_state[p] = t
      BY <2>1, <2>3, <2>4, <3>2
    <3>3. QED
      BY <2>1, <2>5, <3>1, <3>2 DEF SlotsOwned
  <2>8. QED
    BY <2>6, <2>7 DEF SlotsOwned
<1>8. QED
  BY <1>2, <1>3, <1>4, <1>5, <1>6, <1>7 DEF Next, EnsureStep

\* When the cold file has a slot for every page beyond the limit and one more,
\* no two cold pages share a slot and the bitmap of used slots is exact.
THEOREM SlotsStayOwned ==
  ASSUME SlotsSuffice
  PROVE  Spec => []SlotsOwned
<1>1. IInv /\ CountInv /\ SlotsOwned /\ [Next]_vars => SlotsOwned'
  BY SlotsStep, SufficeLeavesOne
<1>2. QED
  BY Invariance, CountInit, CountStep, SlotsInit, <1>1, PTL DEF Spec

----------------------------------------------------------------------------
(* The contents of the cold file *)

\* The pages that are cold come from zones with pages of one size, as they do
\* while a generation stays within its first zone.
OneColdSize ==
  \A p, q \in ColdPages : PageUnits[resolve_flat(p)] = PageUnits[resolve_flat(q)]

\* Slots of one page size do not overlap, and the last one ends with the file.
LEMMA RegionsApart ==
  ASSUME NEW u \in Nat, NEW s \in Nat, NEW t \in Nat, s # t
  PROVE  ((s * u)..((s + 1) * u - 1)) \cap ((t * u)..((t + 1) * u - 1)) = {}
<1>1. \A a, b \in Nat : a < b => (a + 1) * u <= b * u
  <2> SUFFICES ASSUME NEW a \in Nat, NEW b \in Nat, a < b PROVE (a + 1) * u <= b * u
    OBVIOUS
  <2>1. PICK d \in Nat : b = (a + 1) + d
    <3>1. b - (a + 1) \in Nat /\ b = (a + 1) + (b - (a + 1))
      OBVIOUS
    <3>2. QED
      BY <3>1
  <2>2. b * u = (a + 1) * u + d * u /\ d * u \in Nat
    BY <2>1
  <2>3. (a + 1) * u \in Nat
    OBVIOUS
  <2>4. QED
    BY <2>2, <2>3
<1>2. s * u \in Nat /\ t * u \in Nat /\ (s + 1) * u \in Nat /\ (t + 1) * u \in Nat
  OBVIOUS
<1>3. (s + 1) * u <= t * u \/ (t + 1) * u <= s * u
  BY <1>1
<1>4. QED
  BY <1>2, <1>3

LEMMA RegionInFile ==
  ASSUME NEW z \in Zones, NEW s \in Slots
  PROVE  Region(z, s) \subseteq FileUnits
<1>0. /\ PageUnits[0] \in Nat /\ PageUnits[1] \in Nat /\ PageUnits[2] \in Nat
      /\ ColdCapacity \in Nat /\ PageUnits[z] \in Nat
  BY KVPagesAssumption DEF KVPagesAssumption, Zones
<1>1. MaxUnits \in Nat /\ PageUnits[z] <= MaxUnits
  BY <1>0 DEF MaxUnits, Zones
<1>2. s \in Nat /\ s + 1 <= ColdCapacity
  BY <1>0 DEF Slots
<1> DEFINE u == PageUnits[z]
           m == MaxUnits
<1> HIDE DEF u, m
<1>3. \A a, b, c \in Nat : a <= b => a * c <= b * c
  <2> SUFFICES ASSUME NEW a \in Nat, NEW b \in Nat, NEW c \in Nat, a <= b PROVE a * c <= b * c
    OBVIOUS
  <2>1. PICK d \in Nat : b = a + d
    <3>1. b - a \in Nat /\ b = a + (b - a)
      OBVIOUS
    <3>2. QED
      BY <3>1
  <2>2. b * c = a * c + d * c /\ d * c \in Nat /\ a * c \in Nat
    BY <2>1
  <2>3. QED
    BY <2>2
<1>4. (s + 1) * u <= ColdCapacity * u
  BY <1>0, <1>2, <1>3 DEF u
<1>5. ColdCapacity * u <= ColdCapacity * m
  <2>1. u * ColdCapacity <= m * ColdCapacity
    BY <1>0, <1>1, <1>3 DEF u, m
  <2>2. QED
    BY <1>0, <1>1, <2>1 DEF u, m
<1>6. s * u \in Nat /\ (s + 1) * u \in Nat /\ ColdCapacity * u \in Nat /\ ColdCapacity * m \in Nat
  BY <1>0, <1>1, <1>2 DEF u, m
<1>7. ((s * u)..((s + 1) * u - 1)) \subseteq 0..(ColdCapacity * m - 1)
  BY <1>4, <1>5, <1>6
<1>8. QED
  BY <1>7 DEF Region, FileUnits, u, m

LEMMA ImagesStep ==
  /\ IInv /\ CountInv /\ SlotsOwned /\ ColdImagesIntact /\ SlotLeft
  /\ [Next]_vars /\ OneColdSize'
  => ColdImagesIntact'
<1> SUFFICES ASSUME IInv, CountInv, SlotsOwned, ColdImagesIntact, SlotLeft, [Next]_vars,
                    OneColdSize'
             PROVE  ColdImagesIntact'
  OBVIOUS
<1>0. TypeOK /\ PushedInOrder /\ CallInv
  BY DEF IInv
\* Pages that stay cold in their slots keep their images while the file is not written.
<1>1. ASSUME cold_file' = cold_file,
             \A p \in ColdPages' : p \in ColdPages /\ page_state'[p] = page_state[p]
      PROVE  ColdImagesIntact'
  BY <1>1 DEF ColdImagesIntact
<1>2. ASSUME UNCHANGED <<page_state, cold_file>> PROVE ColdImagesIntact'
  BY <1>1, <1>2 DEF ColdPages
<1>3. ASSUME NEW start \in Pages, NEW end \in Pages, ensure_pages_hot(start, end)
      PROVE  ColdImagesIntact'
  BY <1>2, <1>3 DEF ensure_pages_hot, pageVars, coldVars
<1>4. ASSUME NEW p \in Pages, NEW w \in 1..MaxImportance, record_importance(p, w)
      PROVE  ColdImagesIntact'
  BY <1>2, <1>4 DEF record_importance, pageVars, coldVars
<1>5. CASE reset_entropy \/ EvictScan \/ EnsureTouch \/ EnsureRoom \/ UNCHANGED vars
  BY <1>2, <1>5
     DEF reset_entropy, EvictScan, EnsureTouch, EnsureRoom, RoomFor, vars, pageVars, coldVars
<1>6. CASE EvictWrite
  <2>1. CASE ColdCapacity = 0
    BY <1>2, <1>6, <2>1 DEF EvictWrite, pageVars, coldVars
  <2>2. CASE ColdCapacity # 0
    <3> DEFINE z == resolve_flat(pid)
    <3>1. PICK s \in FreeSlots : EvictTo(z, s) /\ best \in HotPages(z) /\ z \in Zones
      BY <1>6, <2>2, EvictsToFree
    <3>2. /\ s \in Slots /\ ~cold_slot_used[s]
          /\ best \in Pages /\ best \notin ColdPages /\ resolve_flat(best) = z
      BY <3>1, Sentinels DEF FreeSlots, HotPages, ColdPages
    <3>3. /\ page_state' = [page_state EXCEPT ![best] = s]
          /\ cold_file' = [u \in FileUnits |-> IF u \in Region(z, s) THEN best ELSE cold_file[u]]
      BY <3>1 DEF EvictTo
    <3>4. /\ ColdPages' = ColdPages \cup {best}
          /\ \A p \in Pages : page_state'[p] = IF p = best THEN s ELSE page_state[p]
      BY <1>0, <3>2, <3>3 DEF TypeOK, ColdPages
    <3>5. ASSUME NEW p \in ColdPages, NEW u \in Region(resolve_flat(p), page_state[p])
          PROVE  u \in FileUnits /\ cold_file'[u] = p
      <4>1. p \in Pages /\ page_state[p] \in Slots /\ page_state[p] # s
        BY <3>2, <3>5 DEF SlotsOwned, ColdPages
      <4>2. PageUnits[resolve_flat(p)] = PageUnits[z]
        BY <3>2, <3>4 DEF OneColdSize
      <4>3. PageUnits[z] \in Nat /\ s \in Nat /\ page_state[p] \in Nat
        BY <3>1, <3>2, <4>1, KVPagesAssumption DEF KVPagesAssumption, Slots
      <4>4. Region(resolve_flat(p), page_state[p]) \cap Region(z, s) = {}
        BY <4>1, <4>2, <4>3, RegionsApart DEF Region
      <4>5. u \in FileUnits /\ cold_file[u] = p
        BY <3>5 DEF ColdImagesIntact
      <4>6. QED
        BY <3>3, <3>5, <4>4, <4>5
    <3>6. ASSUME NEW u \in Region(z, s) PROVE u \in FileUnits /\ cold_file'[u] = best
      BY <3>1, <3>2, <3>3, <3>6, RegionInFile
    <3>7. ASSUME NEW p \in ColdPages', NEW u \in Region(resolve_flat(p), page_state'[p])
          PROVE  u \in FileUnits /\ cold_file'[u] = p
      <4>1. CASE p = best
        BY <3>2, <3>4, <3>6, <3>7, <4>1
      <4>2. CASE p # best
        <5>1. p \in ColdPages /\ page_state'[p] = page_state[p]
          BY <3>4, <4>2 DEF ColdPages
        <5>2. QED
          BY <3>5, <3>7, <5>1
      <4>3. QED
        BY <4>1, <4>2
    <3>8. QED
      BY <3>7 DEF ColdImagesIntact
  <2>3. QED
    BY <2>1, <2>2
<1>7. CASE EnsureAlloc
  <2> DEFINE p == zone_page_offsets(resolve_flat(pid)) + npages[resolve_flat(pid)]
  <2>1. page_state' = [page_state EXCEPT ![p] = Hot] /\ UNCHANGED cold_file
    BY <1>7 DEF EnsureAlloc, coldVars
  <2> HIDE DEF p
  <2>2. \A q \in ColdPages' : q \in ColdPages /\ page_state'[q] = page_state[q]
    BY <1>0, <2>1, Sentinels DEF TypeOK, ColdPages
  <2>3. QED
    BY <1>1, <2>1, <2>2
<1>8. CASE EnsureReload
  <2>1. page_state' = [page_state EXCEPT ![pid] = Hot] /\ UNCHANGED cold_file
    BY <1>8 DEF EnsureReload
  <2>2. \A q \in ColdPages' : q \in ColdPages /\ page_state'[q] = page_state[q]
    BY <1>0, <2>1, Sentinels DEF TypeOK, ColdPages
  <2>3. QED
    BY <1>1, <2>1, <2>2
<1>9. QED
  BY <1>3, <1>4, <1>5, <1>6, <1>7, <1>8 DEF Next, EnsureStep

\* With enough slots, and while only pages of one size are cold, a reload
\* finds the image its page's eviction wrote: no other page is written over it.
THEOREM ColdImagesKept ==
  ASSUME SlotsSuffice
  PROVE  Spec /\ []OneColdSize => []ColdImagesIntact
<1>1. Init => ColdImagesIntact
  BY Sentinels DEF Init, ColdImagesIntact, ColdPages
<1>2. /\ IInv /\ CountInv /\ SlotsOwned /\ ColdImagesIntact
      /\ [Next]_vars /\ OneColdSize'
      => ColdImagesIntact'
  BY ImagesStep, SufficeLeavesOne
<1>3. IInv /\ CountInv /\ SlotsOwned /\ [Next]_vars => SlotsOwned'
  BY SlotsStep, SufficeLeavesOne
<1>4. QED
  BY Invariance, CountInit, CountStep, SlotsInit, <1>1, <1>2, <1>3, PTL DEF Spec
----------------------------------------------------------------------------
(* The pages implement LruCache *)

LEMMA SpeltIsListOf ==
  ASSUME NEW z, NEW s, Spelt(z, s)
  PROVE  ListOf(z) = s
BY FollowingChain DEF Spelt, ListOf

LEMMA SpeltIsListOfAfter ==
  ASSUME NEW z, NEW s, Spelt(z, s)'
  PROVE  ListOf(z)' = s
BY FollowingChain DEF Spelt, ListOf

\* The operations of LruCache on sequences.
LEMMA ConsIsFronted ==
  ASSUME NEW S, NEW n \in Nat, NEW s \in [1..n -> S], NEW p \in S
  PROVE  <<p>> \o s = Fronted(s, n, p)
<1>1. s \in Seq(S) /\ Len(s) = n OBVIOUS
<1>2. <<p>> \in Seq(S) /\ Len(<<p>>) = 1 /\ <<p>>[1] = p OBVIOUS
<1> DEFINE t == <<p>> \o s
<1>3. /\ t \in Seq(S) /\ Len(t) = 1 + n
      /\ \A i \in 1..(1 + n) : t[i] = IF i <= 1 THEN <<p>>[i] ELSE s[i - 1]
  BY <1>1, <1>2, ConcatProperties, ZenonT(40)
<1> HIDE DEF t
<1>4. t = [i \in 1..(n + 1) |-> t[i]] BY <1>3
<1>5. \A i \in 1..(n + 1) : t[i] = IF i = 1 THEN p ELSE s[i - 1] BY <1>2, <1>3
<1>6. t = Fronted(s, n, p) BY <1>4, <1>5 DEF Fronted
<1> QED BY <1>6 DEF t

LEMMA RemoveAtIsDropped ==
  ASSUME NEW S, NEW n \in Nat, NEW s \in [1..n -> S], NEW k \in 1..n
  PROVE  Lru!RemoveAt(s, k) = Dropped(s, n, k)
<1> DEFINE a == SubSeq(s, 1, k - 1)
           z == SubSeq(s, k + 1, Len(s))
           t == a \o z
<1>0. s \in Seq(S) /\ Len(s) = n OBVIOUS
<1>1. a \in Seq(S) /\ Len(a) = k - 1 /\ \A i \in 1..(k - 1) : a[i] = s[i] BY <1>0
<1>2. z \in Seq(S) /\ Len(z) = n - k /\ \A i \in 1..(n - k) : z[i] = s[k + i] BY <1>0
<1> HIDE DEF a, z
<1>3. /\ t \in Seq(S) /\ Len(t) = Len(a) + Len(z)
      /\ \A i \in 1..(Len(a) + Len(z)) : t[i] = IF i <= Len(a) THEN a[i] ELSE z[i - Len(a)]
  BY <1>1, <1>2, ConcatProperties, Zenon
<1>4. Lru!RemoveAt(s, k) = t BY DEF Lru!RemoveAt, a, z
<1> HIDE DEF t
<1>5. Len(t) = n - 1 /\ t = [i \in 1..(n - 1) |-> t[i]] BY <1>1, <1>2, <1>3, SMTT(40)
<1>6. ASSUME NEW i \in 1..(n - 1) PROVE t[i] = IF i < k THEN s[i] ELSE s[i + 1]
  <2>1. CASE i < k
    <3>1. i <= Len(a) /\ i \in 1..(k - 1) /\ i \in 1..(Len(a) + Len(z)) BY <1>1, <1>2, <2>1
    <3>2. t[i] = a[i] BY <1>3, <3>1
    <3> QED BY <1>1, <2>1, <3>1, <3>2
  <2>2. CASE ~(i < k)
    <3>1. i \in 1..(Len(a) + Len(z)) /\ ~(i <= Len(a)) BY <1>1, <1>2, <2>2
    <3>2. t[i] = z[i - Len(a)] BY <1>3, <3>1
    <3>3. i - Len(a) = i - (k - 1) BY <1>1
    <3>4. i - (k - 1) \in 1..(n - k) /\ k + (i - (k - 1)) = i + 1 BY <2>2
    <3> QED BY <1>2, <2>2, <3>2, <3>3, <3>4
  <2> QED BY <2>1, <2>2
<1> QED BY <1>4, <1>5, <1>6 DEF Dropped

\* The recency orders before and after a step.
Recency == [z \in Zones |-> ListOf(z)]

LEMMA RecencyAfter ==
  ASSUME Chained, NEW z \in Zones, NEW t, Reordered(z, t)
  PROVE  Recency' = [Recency EXCEPT ![z] = t]
<1>1. ListOf(z)' = t BY SpeltIsListOfAfter DEF Reordered
<1>2. ASSUME NEW y \in Zones \ {z} PROVE ListOf(y)' = ListOf(y)
  <2>1. PICK s : Spelt(y, s) BY DEF Chained
  <2>2. Spelt(y, s)' BY <2>1 DEF Reordered
  <2>3. ListOf(y) = s BY <2>1, SpeltIsListOf
  <2>4. ListOf(y)' = s BY <2>2, SpeltIsListOfAfter
  <2> QED BY <2>3, <2>4
<1>3. Recency' = [y \in Zones |-> ListOf(y)'] BY DEF Recency
<1>4. [Recency EXCEPT ![z] = t] = [y \in Zones |-> IF y = z THEN t ELSE ListOf(y)]
  BY DEF Recency
<1> QED BY <1>1, <1>2, <1>3, <1>4

\* Where no list changes, neither do the orders.
LEMMA RecencySame ==
  ASSUME Chained, \A y \in Zones : \A s : Spelt(y, s) => Spelt(y, s)'
  PROVE  Recency' = Recency
<1>1. ASSUME NEW y \in Zones PROVE ListOf(y)' = ListOf(y)
  <2>1. PICK s : Spelt(y, s) BY DEF Chained
  <2>2. ListOf(y) = s BY <2>1, SpeltIsListOf
  <2>3. Spelt(y, s)' BY <2>1
  <2>4. ListOf(y)' = s BY <2>3, SpeltIsListOfAfter
  <2> QED BY <2>2, <2>4
<1>2. Recency' = [y \in Zones |-> ListOf(y)'] BY DEF Recency
<1> QED BY <1>1, <1>2 DEF Recency

LEMMA RecencyAt ==
  ASSUME NEW z \in Zones, NEW s, NEW n, n = hot_count[z], Spelt(z, s)
  PROVE  /\ Recency[z] = s /\ n \in Nat /\ s \in [1..n -> Pages]
         /\ s \in Seq(Pages) /\ Len(s) = n /\ DOMAIN s = 1..n
         /\ \A i \in 1..n : s[i] \in HotPages(z)
<1>1. Recency[z] = s BY SpeltIsListOf DEF Recency
<1>2. n \in Nat /\ s \in [1..n -> HotPages(z)] BY DEF Spelt, Chain
<1>3. HotPages(z) \subseteq Pages BY DEF HotPages
<1>4. s \in [1..n -> Pages] BY <1>2, <1>3
<1> QED BY <1>1, <1>2, <1>4

\* A touch is a use, a push an entry.
LEMMA TouchIsUse ==
  ASSUME Chained, NEW z \in Zones, NEW p \in Pages, z = resolve_flat(p), Touched(z, p),
         UNCHANGED entropy_importance
  PROVE  Lru!Use(p)
<1>1. PICK s, n, k : /\ n = hot_count[z] /\ Spelt(z, s)
                     /\ k \in 1..n /\ s[k] = p
                     /\ Reordered(z, Fronted(Dropped(s, n, k), n - 1, p))
  BY DEF Touched
<1>2. Recency[z] = s /\ n \in Nat /\ s \in [1..n -> Pages] /\ DOMAIN s = 1..n
  BY <1>1, RecencyAt
<1> DEFINE d == Dropped(s, n, k)
<1>3. Lru!RemoveAt(s, k) = d
  <2>1. n \in Nat /\ s \in [1..n -> Pages] /\ k \in 1..n BY <1>1, <1>2, Zenon
  <2> QED BY <2>1, RemoveAtIsDropped
<1>4. n - 1 \in Nat /\ d \in [1..(n - 1) -> Pages]
  <2>1. n - 1 \in Nat BY <1>1, <1>2
  <2>2. \A i \in 1..(n - 1) : i \in 1..n /\ i + 1 \in 1..n BY <1>2
  <2> QED BY <1>2, <2>1, <2>2 DEF Dropped
<1> HIDE DEF d
<1>5. <<p>> \o d = Fronted(d, n - 1, p) BY <1>4, ConsIsFronted
<1>6. Recency' = [Recency EXCEPT ![z] = <<p>> \o Lru!RemoveAt(Recency[z], k)]
  BY <1>1, <1>2, <1>3, <1>5, RecencyAfter DEF d
<1>7. /\ k \in DOMAIN Recency[z] /\ Recency[z][k] = p
      /\ Recency' = [Recency EXCEPT ![z] = <<p>> \o Lru!Without(z, k)]
  <2>1. Lru!Without(z, k) = Lru!RemoveAt(Recency[z], k) BY DEF Lru!Without, Recency
  <2> QED BY <1>1, <1>2, <1>6, <2>1
<1> QED BY <1>7 DEF Lru!Use, Recency

LEMMA PushIsEnter ==
  ASSUME Chained, NEW z \in Zones, NEW p \in Pages, z = resolve_flat(p), page_state[p] # Hot,
         Pushed(z, p), UNCHANGED entropy_importance
  PROVE  Lru!Enter(p)
<1>1. PICK s, n : /\ n = hot_count[z] /\ Spelt(z, s)
                  /\ Reordered(z, Fronted(s, n, p))
  BY DEF Pushed
<1>2. /\ Recency[z] = s /\ n \in Nat /\ s \in [1..n -> Pages] /\ DOMAIN s = 1..n
      /\ \A i \in 1..n : s[i] \in HotPages(z)
  BY <1>1, RecencyAt
<1>3. <<p>> \o s = Fronted(s, n, p) BY <1>2, ConsIsFronted
<1>4. Recency' = [Recency EXCEPT ![z] = <<p>> \o Recency[z]]
  BY <1>1, <1>2, <1>3, RecencyAfter
<1>5. p \notin HotPages(z) BY DEF HotPages
<1>6. p \notin Lru!Resident(z) BY <1>2, <1>5 DEF Lru!Resident, Lru!Range, Recency
<1> QED BY <1>4, <1>6 DEF Lru!Enter, Recency

\* The victim is the page that leaves.
LEMMA EvictIsGiveUp ==
  ASSUME Chained, NEW z \in Zones, hot_count[z] >= RamPageLimit,
         NEW s, NEW n, NEW k, n = hot_count[z], Spelt(z, s), k \in 1..n,
         Reordered(z, Dropped(s, n, k)),
         \A j \in 1..n : j > n - ScanDepth =>
            \/ entropy_importance[s[k]] < entropy_importance[s[j]]
            \/ entropy_importance[s[k]] = entropy_importance[s[j]] /\ k >= j,
         k > n - ScanDepth,
         UNCHANGED entropy_importance
  PROVE  Lru!GiveUp(z)
<1>1. /\ Recency[z] = s /\ n \in Nat /\ s \in [1..n -> Pages] /\ DOMAIN s = 1..n
      /\ Len(s) = n
  BY RecencyAt
<1>2. Lru!RemoveAt(s, k) = Dropped(s, n, k) BY <1>1, RemoveAtIsDropped
<1>3. Recency' = [Recency EXCEPT ![z] = Lru!Without(z, k)]
  <2>1. Lru!Without(z, k) = Lru!RemoveAt(Recency[z], k) BY DEF Lru!Without, Recency
  <2> QED BY <1>1, <1>2, <2>1, RecencyAfter
<1>4. Lru!IsVictim(z, k)
  <2>1. Len([y \in Zones |-> ListOf(y)][z]) = n /\ [y \in Zones |-> ListOf(y)][z] = s
    BY <1>1 DEF Recency
  <2> QED BY <1>1, <2>1 DEF Lru!IsVictim
<1>5. k \in DOMAIN Recency[z] /\ Len(Recency[z]) >= RamPageLimit BY <1>1
<1> QED BY <1>3, <1>4, <1>5 DEF Lru!GiveUp, Recency

\* An absent page has no weight: record_importance skips it and the page
\* starts without any.
LightInv == \A p \in Pages : page_state[p] = Absent => entropy_importance[p] = 0

\* The eviction scan has looked at the k oldest pages of the order s; it holds
\* the cheapest of them, the oldest of those, and stands before the next one.
Scanned(s, n, k, cand, next, imp) ==
  /\ k \in 1..n
  /\ next = IF k = n THEN None ELSE s[n - k]
  /\ \E b \in 1..n :
        /\ b > n - k /\ cand = s[b]
        /\ \A j \in 1..n : j > n - k =>
              imp[s[b]] < imp[s[j]] \/ (imp[s[b]] = imp[s[j]] /\ b >= j)

ScanInv ==
  stage = "scan" =>
    LET z == resolve_flat(pid)
    IN  Scanned(ListOf(z), hot_count[z], ScanDepth - left, best, cursor, entropy_importance)

LruInv == IInv /\ CountInv /\ LightInv /\ ScanInv

LEMMA LruInit == Init => LightInv /\ ScanInv
BY DEF Init, LightInv, ScanInv

LEMMA LightStep == LruInv /\ [Next]_vars => LightInv'
<1> SUFFICES ASSUME LruInv, [Next]_vars PROVE LightInv'
  OBVIOUS
<1>0. TypeOK /\ PushedInOrder /\ CallInv /\ LightInv BY DEF LruInv, IInv
<1>1. ASSUME UNCHANGED <<page_state, entropy_importance>> PROVE LightInv'
  BY <1>0, <1>1 DEF LightInv
<1>2. ASSUME NEW start \in Pages, NEW end \in Pages, ensure_pages_hot(start, end)
      PROVE  LightInv'
  BY <1>1, <1>2 DEF ensure_pages_hot, pageVars
<1>3. ASSUME NEW p \in Pages, NEW w \in 1..MaxImportance, record_importance(p, w)
      PROVE  LightInv'
  BY <1>0, <1>3 DEF record_importance, pageVars, LightInv, TypeOK
<1>4. CASE reset_entropy
  BY <1>0, <1>4 DEF reset_entropy, pageVars, LightInv
<1>5. CASE EnsureTouch \/ EnsureRoom \/ EvictScan \/ UNCHANGED vars
  BY <1>1, <1>5 DEF EnsureTouch, EnsureRoom, RoomFor, EvictScan, pageVars, vars
<1>6. CASE EvictWrite
  <2>1. CASE ColdCapacity = 0
    BY <1>1, <1>6, <2>1 DEF EvictWrite, pageVars
  <2>2. CASE ColdCapacity # 0
    <3>1. PICK x \in Slots : page_state' = [page_state EXCEPT ![best] = x]
      BY <1>6, <2>2 DEF EvictWrite, EvictTo
    <3>2. UNCHANGED entropy_importance BY <1>6 DEF EvictWrite
    <3> QED BY <1>0, <3>1, <3>2, Sentinels DEF LightInv, TypeOK
  <2> QED BY <2>1, <2>2
<1>7. CASE EnsureAlloc
  <2> PICK p : p = zone_page_offsets(resolve_flat(pid)) + npages[resolve_flat(pid)]
    OBVIOUS
  <2>1. /\ page_state' = [page_state EXCEPT ![p] = Hot]
        /\ entropy_importance' = [entropy_importance EXCEPT ![p] = 0]
    BY <1>7 DEF EnsureAlloc
  <2> QED BY <1>0, <2>1, Sentinels DEF LightInv, TypeOK
<1>8. CASE EnsureReload
  <2>1. page_state' = [page_state EXCEPT ![pid] = Hot] /\ UNCHANGED entropy_importance
    BY <1>8 DEF EnsureReload
  <2> QED BY <1>0, <2>1, Sentinels DEF LightInv, TypeOK
<1>9. QED
  BY <1>2, <1>3, <1>4, <1>5, <1>6, <1>7, <1>8 DEF Next, EnsureStep

LEMMA ScanStep == LruInv /\ [Next]_vars => ScanInv'
<1> SUFFICES ASSUME LruInv, [Next]_vars, stage' = "scan" PROVE ScanInv'
  BY DEF ScanInv
<1>0. TypeOK /\ Lists /\ Chained /\ CallInv /\ ScanInv BY DEF LruInv, IInv, Lists
<1> PICK z : z = resolve_flat(pid)
  OBVIOUS
<1>1. CASE EnsureRoom
  <2>1. /\ z \in Zones /\ lru_tail[z] # None /\ pid' = pid
        /\ best' = lru_tail[z] /\ cursor' = lru_prev[lru_tail[z]] /\ left' = ScanDepth - 1
        /\ UNCHANGED <<page_state, hot_count, lru_prev, lru_next, lru_head, lru_tail,
                       entropy_importance>>
    BY <1>0, <1>1, PageInZone DEF EnsureRoom, RoomFor, TypeOK, pageVars, lruVars
  <2>2. PICK s : Spelt(z, s) BY <1>0, <2>1 DEF Chained
  <2>3. PICK n : n = hot_count[z] OBVIOUS
  <2>4. Chain(s, n, HotPages(z), lru_head[z], lru_tail[z], lru_prev, lru_next)
    BY <2>2, <2>3 DEF Spelt
  <2>5. n \in Nat /\ n # 0 /\ lru_tail[z] = s[n] /\ cursor' = IF n = 1 THEN None ELSE s[n - 1]
    BY <2>1, <2>4 DEF Chain
  <2>6. Scanned(s, n, 1, best', cursor', entropy_importance')
    <3>1. n \in 1..n /\ 1 \in 1..n /\ n > n - 1 /\ \A j \in 1..n : j > n - 1 => j = n
      BY <2>5
    <3>2. (n = 1 <=> 1 = n) /\ best' = s[n] BY <2>1, <2>5
    <3>3. \E b \in 1..n :
            /\ b > n - 1 /\ best' = s[b]
            /\ \A j \in 1..n : j > n - 1 =>
                  \/ entropy_importance'[s[b]] < entropy_importance'[s[j]]
                  \/ entropy_importance'[s[b]] = entropy_importance'[s[j]] /\ b >= j
      BY <2>5, <3>1, <3>2
    <3> QED BY <2>5, <3>1, <3>3 DEF Scanned
  <2>7. ListOf(z)' = s
    BY <1>0, <2>1, <2>2, ListsUnchanged, SpeltIsListOfAfter
  <2>8. ScanDepth - left' = 1 BY <2>1, KVPagesAssumption DEF KVPagesAssumption
  <2>9. hot_count'[z] = n BY <2>1, <2>3
  <2>10. z = resolve_flat(pid)' BY <2>1
  <2> QED BY <2>6, <2>7, <2>8, <2>9, <2>10 DEF ScanInv
<1>2. CASE EvictScan
  <2>1. /\ z \in Zones /\ pid' = pid /\ left > 0 /\ cursor # None /\ stage = "scan"
        /\ best' = IF entropy_importance[cursor] < entropy_importance[best]
                   THEN cursor ELSE best
        /\ cursor' = lru_prev[cursor] /\ left' = left - 1
        /\ UNCHANGED <<page_state, hot_count, lru_prev, lru_next, lru_head, lru_tail,
                       entropy_importance>>
    BY <1>0, <1>2, PageInZone DEF EvictScan, TypeOK, pageVars, lruVars, callVars
  <2>2. PICK s : Spelt(z, s) BY <1>0, <2>1 DEF Chained
  <2>3. PICK n : n = hot_count[z] OBVIOUS
  <2>4. PICK k : k = ScanDepth - left OBVIOUS
  <2>5. Chain(s, n, HotPages(z), lru_head[z], lru_tail[z], lru_prev, lru_next)
    BY <2>2, <2>3 DEF Spelt
  <2>6. ListOf(z) = s BY <2>2, SpeltIsListOf
  <2>7. Scanned(s, n, k, best, cursor, entropy_importance)
    BY <1>0, <2>1, <2>3, <2>4, <2>6 DEF ScanInv
  <2>8. n \in Nat /\ k \in 1..n /\ k # n /\ cursor = s[n - k]
    BY <2>1, <2>5, <2>7 DEF Scanned, Chain
  <2>9. n - k \in 1..n /\ cursor' = IF n - k = 1 THEN None ELSE s[n - (k + 1)]
    <3>1. n - k \in 1..n /\ (n - k) - 1 = n - (k + 1) BY <2>8
    <3>2. lru_prev[s[n - k]] = IF n - k = 1 THEN None ELSE s[(n - k) - 1]
      BY <2>5, <3>1 DEF Chain
    <3> QED BY <2>1, <2>8, <3>1, <3>2
  <2>10. Scanned(s, n, k + 1, best', cursor', entropy_importance')
    <3>1. k + 1 \in 1..n /\ (k + 1 = n <=> n - k = 1) BY <2>8
    <3>2. PICK b \in 1..n :
            /\ b > n - k /\ best = s[b]
            /\ \A j \in 1..n : j > n - k =>
                  \/ entropy_importance[s[b]] < entropy_importance[s[j]]
                  \/ entropy_importance[s[b]] = entropy_importance[s[j]] /\ b >= j
      BY <2>7 DEF Scanned
    <3> PICK im : im = entropy_importance
      OBVIOUS
    <3>3. \A i \in 1..n : s[i] \in Pages /\ im[s[i]] \in Int
      BY <1>0, <2>5 DEF Chain, HotPages, TypeOK
    <3>4. \A j \in 1..n : j > n - (k + 1) <=> (j = n - k \/ j > n - k)
      BY <2>8
    <3>5. \A j \in 1..n : j > n - k => im[s[b]] < im[s[j]] \/ (im[s[b]] = im[s[j]] /\ b >= j)
      BY <3>2
    <3>6. \E c \in 1..n :
            /\ c > n - (k + 1) /\ best' = s[c]
            /\ \A j \in 1..n : j > n - (k + 1) =>
                  im[s[c]] < im[s[j]] \/ (im[s[c]] = im[s[j]] /\ c >= j)
      <4>1. CASE im[s[n - k]] < im[s[b]]
        <5>1. best' = s[n - k] BY <2>1, <2>8, <3>2, <4>1
        <5>2. \A j \in 1..n : j > n - k => im[s[n - k]] < im[s[j]]
          BY <2>9, <3>3, <3>5, <4>1
        <5>3. n - k > n - (k + 1) /\ n - k >= n - k BY <2>8
        <5> QED BY <2>9, <3>4, <5>1, <5>2, <5>3
      <4>2. CASE ~(im[s[n - k]] < im[s[b]])
        <5>1. best' = s[b] BY <2>1, <2>8, <3>2, <4>2
        <5>2. im[s[b]] < im[s[n - k]] \/ (im[s[b]] = im[s[n - k]] /\ b >= n - k)
          BY <2>8, <2>9, <3>2, <3>3, <4>2
        <5> QED BY <2>9, <3>2, <3>4, <3>5, <5>1, <5>2
      <4> QED BY <4>1, <4>2
    <3>7. entropy_importance' = im BY <2>1
    <3> QED BY <2>9, <3>1, <3>6, <3>7 DEF Scanned
  <2>11. ListOf(z)' = s
    BY <1>0, <2>1, <2>2, ListsUnchanged, SpeltIsListOfAfter
  <2>12. ScanDepth - left' = k + 1
    BY <1>0, <2>1, <2>4, KVPagesAssumption DEF KVPagesAssumption, TypeOK
  <2>13. hot_count'[z] = n /\ z = resolve_flat(pid)' BY <2>1, <2>3
  <2> QED BY <2>10, <2>11, <2>12, <2>13 DEF ScanInv
<1>3. CASE UNCHANGED vars
  <2>1. UNCHANGED <<hot_count, lru_head, lru_next, pid, stage, left, best, cursor, entropy_importance>>
    BY <1>3 DEF vars, pageVars, lruVars, callVars, scanVars
  <2> QED BY <1>0, <2>1 DEF ScanInv, ListOf
<1>4. ~(EnsureTouch \/ EvictWrite \/ EnsureAlloc \/ EnsureReload \/ reset_entropy)
  BY DEF EnsureTouch, EvictWrite, EnsureAlloc, EnsureReload, reset_entropy, callVars
<1>5. /\ ~ \E start, end \in Pages : ensure_pages_hot(start, end)
      /\ ~ \E p \in Pages, w \in 1..MaxImportance : record_importance(p, w)
  BY DEF ensure_pages_hot, record_importance, callVars
<1>6. QED
  BY <1>1, <1>2, <1>3, <1>4, <1>5 DEF Next, EnsureStep

\* Every step of the pages is a step of LruCache or changes nothing it sees.
LEMMA LruStep == LruInv /\ [Next]_vars => [Lru!AbsNext]_(Lru!AbsVars)
<1> SUFFICES ASSUME LruInv, [Next]_vars PROVE Lru!AbsNext \/ UNCHANGED Lru!AbsVars
  OBVIOUS
<1>0. TypeOK /\ PushedInOrder /\ Lists /\ Chained /\ CallInv /\ LightInv /\ ScanInv /\ RoomInv
  BY DEF LruInv, IInv, Lists, CountInv
<1>1. ASSUME UNCHANGED <<page_state, hot_count, lru_prev, lru_next, lru_head, lru_tail>>
      PROVE  Recency' = Recency
  BY <1>0, <1>1, ListsUnchanged, RecencySame
<1>2. ASSUME Recency' = Recency, entropy_importance' = entropy_importance
      PROVE  UNCHANGED Lru!AbsVars
  BY <1>2 DEF Lru!AbsVars, Recency
<1>3. ASSUME Recency' = Recency, entropy_importance' \in [Pages -> Nat]
      PROVE  Lru!AbsNext
  BY <1>3 DEF Lru!AbsNext, Lru!Weigh, Recency
<1>4. entropy_importance' \in [Pages -> Nat]
  <2>1. TypeOK' BY TypeStep DEF LruInv
  <2>2. 0..MaxImportance \subseteq Nat BY KVPagesAssumption DEF KVPagesAssumption
  <2> QED BY <2>1, <2>2 DEF TypeOK
<1> PICK z : z = resolve_flat(pid)
  OBVIOUS
<1>5. ASSUME NEW start \in Pages, NEW end \in Pages, ensure_pages_hot(start, end)
      PROVE  UNCHANGED Lru!AbsVars
  BY <1>1, <1>2, <1>5 DEF ensure_pages_hot, pageVars, lruVars
<1>6. ASSUME NEW p \in Pages, NEW w \in 1..MaxImportance, record_importance(p, w)
      PROVE  Lru!AbsNext
  BY <1>1, <1>3, <1>4, <1>6 DEF record_importance, pageVars, lruVars
<1>7. CASE reset_entropy
  BY <1>1, <1>3, <1>4, <1>7 DEF reset_entropy, pageVars, lruVars
<1>8. CASE EnsureRoom \/ EvictScan \/ UNCHANGED vars
  BY <1>1, <1>2, <1>8
     DEF EnsureRoom, RoomFor, EvictScan, vars, pageVars, lruVars
<1>9. CASE EnsureTouch
  <2>1. z \in Zones /\ pid \in HotPages(z) /\ Touched(z, pid)
    BY <1>0, <1>9, EnsureTouchReorders
  <2>2. pid \in Pages /\ UNCHANGED entropy_importance BY <1>9, <2>1 DEF EnsureTouch, HotPages
  <2>3. Lru!Use(pid) BY <1>0, <2>1, <2>2, TouchIsUse
  <2> QED BY <2>2, <2>3 DEF Lru!AbsNext
<1>10. CASE EvictWrite
  <2>1. CASE ColdCapacity = 0
    BY <1>1, <1>2, <1>10, <2>1 DEF EvictWrite, pageVars, lruVars
  <2>2. CASE ColdCapacity # 0
    <3>1. z \in Zones /\ Evicted(z, best) BY <1>0, <1>10, <2>2, EvictWriteReorders
    <3>2. PICK s, n, k : /\ n = hot_count[z] /\ Spelt(z, s)
                         /\ k \in 1..n /\ s[k] = best
                         /\ Reordered(z, Dropped(s, n, k))
      BY <3>1 DEF Evicted
    <3>3. PICK m : m = ScanDepth - left OBVIOUS
    <3>4. Scanned(s, n, m, best, cursor, entropy_importance)
      BY <1>0, <1>10, <3>2, <3>3, SpeltIsListOf DEF ScanInv, EvictWrite
    <3>5. /\ hot_count[z] >= RamPageLimit /\ UNCHANGED entropy_importance
          /\ left = 0 \/ cursor = None
      BY <1>0, <1>10 DEF RoomInv, EvictWrite
    <3>6. n \in Nat /\ \A i, j \in 1..n : s[i] = s[j] => i = j
      BY <3>2 DEF Spelt, Chain
    <3>7. PICK b \in 1..n :
            /\ b > n - m /\ best = s[b]
            /\ \A j \in 1..n : j > n - m =>
                  \/ entropy_importance[s[b]] < entropy_importance[s[j]]
                  \/ entropy_importance[s[b]] = entropy_importance[s[j]] /\ b >= j
      BY <3>4 DEF Scanned
    <3>8. b = k BY <3>2, <3>6, <3>7
    \* The scan ended at its depth or at the head of the list.
    <3>9. \A j \in 1..n : j > n - ScanDepth <=> j > n - m
      <4>1. m \in 1..n /\ m <= ScanDepth /\ ScanDepth \in Nat
        BY <1>0, <3>3, <3>4, KVPagesAssumption DEF Scanned, TypeOK, KVPagesAssumption
      <4>2. CASE left = 0 BY <1>0, <3>3, <4>1, <4>2
      <4>3. CASE cursor = None
        <5>1. m = n
          <6>1. m # n => n - m \in 1..n BY <3>6, <4>1
          <6>2. \A i \in 1..n : s[i] \in Pages BY <3>2 DEF Spelt, Chain, HotPages
          <6> QED BY <3>4, <4>3, <6>1, <6>2, Sentinels DEF Scanned
        <5> QED BY <3>6, <4>1, <5>1
      <4> QED BY <3>5, <4>2, <4>3
    <3>10. k > n - ScanDepth BY <3>2, <3>7, <3>8, <3>9
    <3>11. \A j \in 1..n : j > n - ScanDepth =>
              \/ entropy_importance[s[k]] < entropy_importance[s[j]]
              \/ entropy_importance[s[k]] = entropy_importance[s[j]] /\ k >= j
      BY <3>7, <3>8, <3>9
    <3>12. Lru!GiveUp(z) BY <1>0, <3>1, <3>2, <3>5, <3>10, <3>11, EvictIsGiveUp
    <3> QED BY <3>1, <3>12 DEF Lru!AbsNext
  <2> QED BY <2>1, <2>2
<1>11. CASE EnsureAlloc
  <2> PICK p : p = zone_page_offsets(z) + npages[z]
    OBVIOUS
  <2>1. /\ z \in Zones /\ p \in Pages /\ resolve_flat(p) = z /\ page_state[p] = Absent
        /\ Pushed(z, p)
    BY <1>0, <1>11, EnsureAllocReorders
  <2>2. entropy_importance' = [entropy_importance EXCEPT ![p] = 0] BY <1>11 DEF EnsureAlloc
  <2>3. UNCHANGED entropy_importance BY <1>0, <2>1, <2>2 DEF LightInv, TypeOK
  <2>4. Lru!Enter(p) BY <1>0, <2>1, <2>3, PushIsEnter, Sentinels
  <2> QED BY <2>1, <2>4 DEF Lru!AbsNext
<1>12. CASE EnsureReload
  <2>1. /\ z \in Zones /\ pid \in Pages /\ resolve_flat(pid) = z /\ page_state[pid] \in Slots
        /\ Pushed(z, pid)
    BY <1>0, <1>12, EnsureReloadReorders
  <2>2. UNCHANGED entropy_importance BY <1>12 DEF EnsureReload
  <2>3. Lru!Enter(pid) BY <1>0, <2>1, <2>2, PushIsEnter, Sentinels
  <2> QED BY <2>1, <2>3 DEF Lru!AbsNext
<1>13. QED
  BY <1>5, <1>6, <1>7, <1>8, <1>9, <1>10, <1>11, <1>12 DEF Next, EnsureStep

\* Nothing is in RAM at the start.
LEMMA LruStart == Init => Lru!AbsInit
<1> SUFFICES ASSUME Init PROVE Lru!AbsInit
  OBVIOUS
<1>1. ASSUME NEW z \in Zones PROVE ListOf(z) = <<>>
  <2>1. hot_count[z] = 0 /\ Spelt(z, <<>>)
    <3>1. HotPages(z) = {} /\ hot_count[z] = 0 /\ lru_head[z] = None /\ lru_tail[z] = None
      BY Sentinels DEF Init, HotPages
    <3>2. <<>> \in [1..0 -> {}] OBVIOUS
    <3>3. Chain(<<>>, 0, {}, None, None, lru_prev, lru_next) BY <3>2 DEF Chain
    <3> QED BY <3>1, <3>3 DEF Spelt
  <2> QED BY <2>1, SpeltIsListOf
<1> QED BY <1>1 DEF Init, Lru!AbsInit

\* The pages a zone has in RAM spell exactly one recency order, read along the
\* links from the head or from the tail, and a scan is somewhere in it.
THEOREM LruInvariance == Spec => []LruInv
<1>1. Init => LruInv BY InitInv, CountInit, LruInit DEF LruInv
<1>2. LruInv /\ [Next]_vars => LruInv'
  <2>1. LruInv /\ [Next]_vars => IInv'
    BY TypeStep, PushedStep, ListsStep, CallStep DEF LruInv, IInv
  <2>2. LruInv /\ [Next]_vars => CountInv' BY CountStep DEF LruInv
  <2> QED BY <2>1, <2>2, LightStep, ScanStep DEF LruInv
<1> QED BY <1>1, <1>2, PTL DEF Spec

\* The linked lists, the counters and the scan from the tail implement the
\* recency order of LruCache, whatever the layout, the limit and the depth: a
\* touched page is the most recent one, and a page is only given up by a full
\* zone, which gives up the cheapest of its oldest pages.
THEOREM PagesImplementLru == Spec => ImplementsLru
<1>1. Init => Lru!AbsInit BY LruStart
<1>2. LruInv /\ [Next]_vars => [Lru!AbsNext]_(Lru!AbsVars) BY LruStep
<1> QED BY LruInvariance, <1>1, <1>2, PTL DEF Spec, ImplementsLru, Lru!AbsSpec

----------------------------------------------------------------------------
(* What a returning call leaves hot *)

\* Page q is one of the d most recently used pages of zone z.
Within(z, q, d) == \E i \in DOMAIN ListOf(z) : i <= d /\ ListOf(z)[i] = q

\* The pages of q's zone from q on, below e.
Count(q, e) == Cardinality({r \in q..(e - 1) : resolve_flat(r) = resolve_flat(q)})

LEMMA CountNext ==
  ASSUME NEW q \in Int, NEW e \in Int, q <= e
  PROVE  /\ Count(q, e) \in Nat
         /\ Count(q, e + 1) = IF resolve_flat(e) = resolve_flat(q) THEN Count(q, e) + 1
                                                                   ELSE Count(q, e)
<1> DEFINE S == {r \in q..(e - 1) : resolve_flat(r) = resolve_flat(q)}
           T == {r \in q..((e + 1) - 1) : resolve_flat(r) = resolve_flat(q)}
<1>1. IsFiniteSet(q..(e - 1)) BY FS_Interval
<1>2. IsFiniteSet(S) /\ Cardinality(S) \in Nat
  <2>1. S \subseteq q..(e - 1) OBVIOUS
  <2> HIDE DEF S
  <2> QED BY <1>1, <2>1, FS_Subset, FS_CardinalityType
<1>3. e \notin S OBVIOUS
<1>4. T = IF resolve_flat(e) = resolve_flat(q) THEN S \cup {e} ELSE S
  <2>1. q..((e + 1) - 1) = (q..(e - 1)) \cup {e} OBVIOUS
  <2> QED BY <2>1
<1>5. Count(q, e) = Cardinality(S) /\ Count(q, e + 1) = Cardinality(T) BY DEF Count
<1> HIDE DEF S, T
<1>6. Cardinality(S \cup {e}) = Cardinality(S) + 1 BY <1>2, <1>3, FS_AddElement
<1> QED BY <1>2, <1>4, <1>5, <1>6

LEMMA CountSelf ==
  ASSUME NEW q \in Int
  PROVE  Count(q, q) = 0 /\ Count(q, q + 1) = 1
<1>1. {r \in q..(q - 1) : resolve_flat(r) = resolve_flat(q)} = {} OBVIOUS
<1>2. Count(q, q) = 0 BY <1>1, FS_EmptySet DEF Count
<1> QED BY <1>2, CountNext

LEMMA WithinIsHot ==
  ASSUME Chained, NEW z \in Zones, NEW q, NEW d, Within(z, q, d)
  PROVE  q \in HotPages(z)
<1>1. PICK s : Spelt(z, s) BY DEF Chained
<1>2. PICK n : n = hot_count[z] OBVIOUS
<1>3. ListOf(z) = s BY <1>1, SpeltIsListOf
<1>4. DOMAIN s = 1..n /\ \A i \in 1..n : s[i] \in HotPages(z) BY <1>1, <1>2, RecencyAt
<1> QED BY <1>3, <1>4 DEF Within

LEMMA WithinIsHotAfter ==
  ASSUME Chained', NEW z \in Zones, NEW q, NEW d, Within(z, q, d)'
  PROVE  q \in HotPages(z)'
<1>1. PICK s : Spelt(z, s)' BY DEF Chained
<1>2. PICK n : n = hot_count'[z] OBVIOUS
<1>3. ListOf(z)' = s BY <1>1, SpeltIsListOfAfter
<1>4. DOMAIN s = 1..n /\ \A i \in 1..n : s[i] \in HotPages(z)'
  BY <1>1, <1>2 DEF Spelt, Chain
<1> QED BY <1>3, <1>4 DEF Within

\* A zone's order that a step leaves alone keeps its ranks.
LEMMA WithinOther ==
  ASSUME Chained, NEW y \in Zones, \A s : Spelt(y, s) => Spelt(y, s)',
         NEW q, NEW d, Within(y, q, d)
  PROVE  Within(y, q, d)'
<1>1. PICK s : Spelt(y, s) BY DEF Chained
<1>2. Spelt(y, s)' BY <1>1
<1>3. ListOf(y) = s BY <1>1, SpeltIsListOf
<1>4. ListOf(y)' = s BY <1>2, SpeltIsListOfAfter
<1> QED BY <1>3, <1>4 DEF Within

\* A page that enters is first and puts the others back by one.
LEMMA WithinPushed ==
  ASSUME NEW z \in Zones, NEW p, Pushed(z, p)
  PROVE  /\ Within(z, p, 1)'
         /\ \A q, d : d \in Int /\ Within(z, q, d) => Within(z, q, d + 1)'
<1>1. PICK s, n : /\ n = hot_count[z] /\ Spelt(z, s)
                  /\ Reordered(z, Fronted(s, n, p))
  BY DEF Pushed
<1>2. ListOf(z) = s /\ n \in Nat /\ DOMAIN s = 1..n BY <1>1, RecencyAt, SpeltIsListOf
<1> PICK t : t = Fronted(s, n, p)
  OBVIOUS
<1>3. ListOf(z)' = t BY <1>1, SpeltIsListOfAfter DEF Reordered
<1>4. /\ DOMAIN t = 1..(n + 1) /\ 1 \in 1..(n + 1) /\ t[1] = p
      /\ \A i \in 1..n : i + 1 \in 1..(n + 1) /\ t[i + 1] = s[i]
  BY <1>2 DEF Fronted
<1>5. Within(z, p, 1)' BY <1>3, <1>4 DEF Within
<1>6. ASSUME NEW q, NEW d \in Int, Within(z, q, d) PROVE Within(z, q, d + 1)'
  <2>1. PICK i \in 1..n : i <= d /\ s[i] = q BY <1>2, <1>6 DEF Within
  <2>2. i + 1 \in DOMAIN t /\ i + 1 <= d + 1 /\ t[i + 1] = q BY <1>4, <2>1
  <2> QED BY <1>3, <2>2 DEF Within
<1> QED BY <1>5, <1>6

\* A page that is touched is first and puts those before it back by one; the
\* first page puts none back.
LEMMA WithinTouched ==
  ASSUME NEW z \in Zones, NEW p, Touched(z, p)
  PROVE  /\ Within(z, p, 1)'
         /\ \A q, d : d \in Int /\ Within(z, q, d) => Within(z, q, d + 1)'
         /\ Within(z, p, 1) => \A q, d : d \in Int /\ Within(z, q, d) => Within(z, q, d)'
<1>1. PICK s, n, k : /\ n = hot_count[z] /\ Spelt(z, s)
                     /\ k \in 1..n /\ s[k] = p
                     /\ Reordered(z, Fronted(Dropped(s, n, k), n - 1, p))
  BY DEF Touched
<1>2. ListOf(z) = s /\ n \in Nat /\ DOMAIN s = 1..n BY <1>1, RecencyAt, SpeltIsListOf
<1>3. \A i, j \in 1..n : s[i] = s[j] => i = j BY <1>1 DEF Spelt, Chain
<1> PICK t : t = Fronted(Dropped(s, n, k), n - 1, p)
  OBVIOUS
<1>4. ListOf(z)' = t BY <1>1, SpeltIsListOfAfter DEF Reordered
<1>5. DOMAIN t = 1..n /\ 1 \in 1..n /\ t[1] = p
  <2>1. (n - 1) + 1 = n /\ 1 \in 1..n BY <1>1, <1>2
  <2> QED BY <2>1 DEF Fronted
<1>6. \A i \in 1..n : /\ i < k => i + 1 \in 1..n /\ t[i + 1] = s[i]
                      /\ i > k => t[i] = s[i]
  <2> TAKE i \in 1..n
  <2>1. i < k => i + 1 \in 1..n /\ t[i + 1] = s[i]
    <3>1. i < k => /\ i + 1 \in 1..((n - 1) + 1) /\ i + 1 # 1 /\ (i + 1) - 1 = i
                   /\ i \in 1..(n - 1) /\ i + 1 \in 1..n
      BY <1>1, <1>2
    <3>2. i < k => Dropped(s, n, k)[i] = s[i] BY <3>1 DEF Dropped
    <3> QED BY <3>1, <3>2 DEF Fronted
  <2>2. ASSUME i > k PROVE t[i] = s[i]
    <3> PICK r : r = Dropped(s, n, k)
      OBVIOUS
    <3>1. /\ i \in 1..((n - 1) + 1) /\ i # 1 /\ (i - 1) + 1 = i
          /\ i - 1 \in 1..(n - 1) /\ ~(i - 1 < k)
      BY <1>1, <1>2, <2>2
    <3>2. r[i - 1] = s[i] BY <3>1 DEF Dropped
    <3>3. t = [j \in 1..((n - 1) + 1) |-> IF j = 1 THEN p ELSE r[j - 1]] BY Zenon DEF Fronted
    <3>4. t[i] = r[i - 1] BY <3>1, <3>3
    <3> QED BY <3>2, <3>4
  <2> QED BY <2>1, <2>2
<1>7. Within(z, p, 1)'
  <2>1. 1 \in DOMAIN t /\ t[1] = p BY <1>5, Zenon
  <2>2. 1 <= 1 OBVIOUS
  <2> QED BY <1>4, <2>1, <2>2, Zenon DEF Within
<1>8. ASSUME NEW q, NEW d \in Int, Within(z, q, d) PROVE Within(z, q, d + 1)'
  <2>1. PICK i \in 1..n : i <= d /\ s[i] = q BY <1>2, <1>8 DEF Within
  <2>2. \E j \in 1..n : j <= d + 1 /\ t[j] = q
    <3>1. CASE i < k
      <4>1. i + 1 <= d + 1 BY <2>1
      <4> QED BY <1>6, <2>1, <3>1, <4>1
    <3>2. CASE i = k
      <4>1. 1 <= d + 1 BY <2>1
      <4> QED BY <1>1, <1>5, <2>1, <3>2, <4>1
    <3>3. CASE i > k
      <4>1. i <= d + 1 BY <2>1
      <4> QED BY <1>6, <2>1, <3>3, <4>1
    <3> QED BY <1>1, <3>1, <3>2, <3>3
  <2> QED BY <1>4, <1>5, <2>2 DEF Within
<1>9. ASSUME Within(z, p, 1), NEW q, NEW d \in Int, Within(z, q, d) PROVE Within(z, q, d)'
  <2>1. PICK i \in 1..n : i <= d /\ s[i] = q BY <1>2, <1>9 DEF Within
  <2>2. k = 1
    <3>1. PICK j \in 1..n : j <= 1 /\ s[j] = p BY <1>2, <1>9 DEF Within
    <3> QED BY <1>1, <1>3, <3>1
  <2>3. t[i] = q BY <1>1, <1>5, <1>6, <2>1, <2>2
  <2> QED BY <1>4, <1>5, <2>1, <2>3 DEF Within
<1> QED BY <1>7, <1>8, <1>9

\* The pages before the last one keep their ranks when the last one leaves.
LEMMA WithinEvicted ==
  ASSUME NEW z \in Zones, NEW s, NEW n, n = hot_count[z], Spelt(z, s), n \in 1..n,
         Reordered(z, Dropped(s, n, n)),
         NEW q, NEW d \in Int, d < n, Within(z, q, d)
  PROVE  Within(z, q, d)'
<1>1. ListOf(z) = s /\ n \in Nat /\ DOMAIN s = 1..n BY RecencyAt, SpeltIsListOf
<1> PICK t : t = Dropped(s, n, n)
  OBVIOUS
<1>2. ListOf(z)' = t BY SpeltIsListOfAfter DEF Reordered
<1>3. PICK i \in 1..n : i <= d /\ s[i] = q BY <1>1 DEF Within
<1>4. i \in 1..(n - 1) /\ i < n BY <1>1, <1>3
<1>5. DOMAIN t = 1..(n - 1) /\ t[i] = s[i] BY <1>4 DEF Dropped
<1> QED BY <1>2, <1>3, <1>4, <1>5 DEF Within

\* No attention weight distinguishes the pages.
Even == \A p \in Pages : entropy_importance[p] = 0

\* With room for all but the given number of pages, page q of the range is
\* still among as many pages of its zone as were ensured since, or shift more.
Keeps(q, room, shift) ==
  Count(q, pid) <= RamPageLimit - room =>
    Within(resolve_flat(q), q, Count(q, pid) + shift)

\* The pages ensured so far are hot while the RAM limit can hold what was
\* ensured after them.  A page is brought in after an eviction, which the
\* least recent of them may not survive, and before the touch that ends its
\* turn; until then it is the head of its zone's list.
WindowInv ==
  stage # "idle" =>
    /\ first <= pid
    /\ \A q \in first..(pid - 1) : page_state[q] # Absent
    /\ Even =>
         \A q \in first..(pid - 1) :
           IF resolve_flat(q) # resolve_flat(pid) THEN Keeps(q, 0, 0)
           ELSE \/ stage # "insert" /\ Keeps(q, 0, 0)
                \/ stage = "insert" /\ Keeps(q, 1, 0)
                \/ /\ stage = "page" /\ Within(resolve_flat(pid), pid, 1)
                   /\ Keeps(q, 1, 1)

\* Without weights the scan ends where it began: the least recent page leaves.
LEMMA TailLeaves ==
  ASSUME LruInv, Even, EvictWrite, ColdCapacity # 0, NEW z, z = resolve_flat(pid),
         NEW n, n = hot_count[z]
  PROVE  \E s : Spelt(z, s) /\ n \in 1..n /\ Reordered(z, Dropped(s, n, n))
<1>0. TypeOK /\ Lists /\ CallInv /\ ScanInv BY DEF LruInv, IInv
<1>1. Evicted(z, best) /\ best \in Pages BY <1>0, EvictWriteReorders DEF HotPages
<1>2. PICK s, k : /\ Spelt(z, s) /\ k \in 1..n /\ s[k] = best
                  /\ Reordered(z, Dropped(s, n, k))
  BY <1>1 DEF Evicted
<1>3. PICK m : m = ScanDepth - left OBVIOUS
<1>4. Scanned(s, n, m, best, cursor, entropy_importance)
  BY <1>0, <1>2, <1>3, SpeltIsListOf DEF ScanInv, EvictWrite
<1>5. /\ n \in Nat /\ \A i, j \in 1..n : s[i] = s[j] => i = j
      /\ \A i \in 1..n : s[i] \in Pages
  BY <1>2 DEF Spelt, Chain, HotPages
<1>6. \A i \in 1..n : entropy_importance[s[i]] = 0 BY <1>5 DEF Even
<1>7. PICK b \in 1..n :
        /\ b > n - m /\ best = s[b]
        /\ \A j \in 1..n : j > n - m =>
              \/ entropy_importance[s[b]] < entropy_importance[s[j]]
              \/ entropy_importance[s[b]] = entropy_importance[s[j]] /\ b >= j
  BY <1>4 DEF Scanned
<1>8. n \in 1..n /\ n > n - m BY <1>4, <1>5 DEF Scanned
<1>9. b = n BY <1>5, <1>6, <1>7, <1>8
<1>10. k = n BY <1>2, <1>5, <1>7, <1>8, <1>9
<1> QED BY <1>2, <1>8, <1>10

\* The touch that ends a page's turn.
LEMMA TouchKeepsWindow ==
  ASSUME LruInv, WindowInv, EnsureTouch, Even, NEW q \in first..pid, NEW c,
         c = Count(q, pid + 1), c <= RamPageLimit
  PROVE  Within(resolve_flat(q), q, c)'
<1>0. TypeOK /\ Lists /\ Chained BY DEF LruInv, IInv, Lists
<1> PICK z : z = resolve_flat(pid)
  OBVIOUS
<1> PICK p : p = pid
  OBVIOUS
<1> PICK y : y = resolve_flat(q)
  OBVIOUS
<1>1. /\ z \in Zones /\ p \in HotPages(z) /\ Touched(z, p)
      /\ p \in Int /\ first \in Int /\ q \in Int /\ q <= p
  BY <1>0, EnsureTouchReorders DEF EnsureTouch, TypeOK
<1>2. RamPageLimit \in Nat BY KVPagesAssumption DEF KVPagesAssumption
<1>3. CASE q = p
  <2>1. c = 1 /\ y = z BY <1>1, <1>3, CountSelf
  <2> QED BY <1>1, <1>3, <2>1, WithinTouched
<1>4. CASE q # p
  <2>1. q \in first..(pid - 1) /\ q \in Pages
    <3>1. p \in Pages /\ first \in Nat BY <1>0, <1>1 DEF HotPages, TypeOK
    <3>2. q < p /\ q \in Nat /\ first <= q BY <1>1, <1>4, <3>1
    <3>3. total_pages \in Nat
      BY KVPagesAssumption DEF KVPagesAssumption, total_pages, Zones
    <3> QED BY <1>1, <3>1, <3>2, <3>3 DEF Pages
  <2>2. y \in Zones BY <2>1, PageInZone
  <2> PICK d : d = Count(q, p)
    OBVIOUS
  <2>3. d \in Nat /\ c = IF z = y THEN d + 1 ELSE d BY <1>1, CountNext
  <2>4. CASE y # z
    <3>1. Keeps(q, 0, 0) BY <2>1, <2>4 DEF WindowInv, EnsureTouch
    <3>2. Within(y, q, c) BY <1>2, <2>3, <2>4, <3>1 DEF Keeps
    <3>3. \A s : Spelt(y, s) => Spelt(y, s)' BY <1>1, <2>2, <2>4 DEF Touched, Reordered
    <3> QED BY <1>0, <2>2, <3>2, <3>3, WithinOther
  <2>5. CASE y = z
    <3>1. Keeps(q, 0, 0) \/ (Within(z, p, 1) /\ Keeps(q, 1, 1))
      BY <2>1, <2>5 DEF WindowInv, EnsureTouch
    <3>2. Within(z, q, d) \/ (Within(z, p, 1) /\ Within(z, q, d + 1))
      BY <1>2, <2>3, <2>5, <3>1 DEF Keeps
    <3>3. c = d + 1 /\ d \in Int /\ c \in Int BY <2>3, <2>5
    <3> QED BY <1>1, <2>5, <3>2, <3>3, WithinTouched
  <2> QED BY <2>4, <2>5
<1> QED BY <1>3, <1>4

\* A hot page stays hot, or pushed, or both, over any step of a call.
LEMMA WindowStep == LruInv /\ WindowInv /\ [Next]_vars => WindowInv'
<1> SUFFICES ASSUME LruInv, WindowInv, [Next]_vars, stage' # "idle" PROVE WindowInv'
  BY DEF WindowInv
<1>0. /\ TypeOK /\ PushedInOrder /\ Lists /\ Chained /\ CallInv /\ LightInv /\ ScanInv /\ RoomInv
      /\ RamPageLimit \in Nat \ {0} /\ total_pages \in Nat
  BY KVPagesAssumption
     DEF LruInv, IInv, Lists, CountInv, KVPagesAssumption, total_pages, Zones
<1> PICK z : z = resolve_flat(pid)
  OBVIOUS
<1> PICK p : p = pid
  OBVIOUS
<1>1. ASSUME stage # "idle"
      PROVE  /\ z \in Zones /\ p \in Pages /\ p \in Int /\ first \in Nat /\ first <= p
             /\ \A q \in first..(p - 1) : q \in Pages /\ q \in Int /\ resolve_flat(q) \in Zones
  <2>1. z \in Zones /\ p \in Pages /\ p \in Int /\ first \in Nat /\ first <= p
    BY <1>0, <1>1, PageInZone DEF TypeOK, WindowInv, Pages
  <2>2. \A q \in first..(p - 1) : q \in Pages /\ q \in Int BY <1>0, <2>1 DEF Pages
  <2> QED BY <2>1, <2>2, PageInZone
\* What has to be shown of a step that stays at the page.
<1>2. ASSUME stage # "idle", UNCHANGED <<pid, first>>,
             \A q \in first..(p - 1) : page_state'[q] # Absent,
             Even' => Even,
             ASSUME Even, NEW q \in first..(p - 1), NEW c, c = Count(q, p), c \in Nat
             PROVE  IF resolve_flat(q) # z
                    THEN c <= RamPageLimit => Within(resolve_flat(q), q, c)'
                    ELSE \/ stage' # "insert" /\ (c <= RamPageLimit => Within(z, q, c)')
                         \/ stage' = "insert" /\ (c <= RamPageLimit - 1 => Within(z, q, c)')
                         \/ /\ stage' = "page" /\ Within(z, p, 1)'
                            /\ c <= RamPageLimit - 1 => Within(z, q, c + 1)'
      PROVE  WindowInv'
  <2>1. first' <= pid' BY <1>1, <1>2
  <2>2. ASSUME Even', NEW q \in first..(p - 1)
        PROVE  IF resolve_flat(q) # resolve_flat(pid)' THEN Keeps(q, 0, 0)'
               ELSE \/ stage' # "insert" /\ Keeps(q, 0, 0)'
                    \/ stage' = "insert" /\ Keeps(q, 1, 0)'
                    \/ /\ stage' = "page" /\ Within(resolve_flat(pid), pid, 1)'
                       /\ Keeps(q, 1, 1)'
    <3> PICK c : c = Count(q, p)
      OBVIOUS
    <3>1. c \in Nat /\ RamPageLimit - 0 = RamPageLimit /\ c + 0 = c
      <4>1. q \in Int /\ p \in Int /\ q <= p BY <1>1, <1>2
      <4>2. c \in Nat BY <4>1, CountNext
      <4> QED BY <1>0, <4>2
    <3>2. z = resolve_flat(pid)' /\ p = pid' /\ c = Count(q, pid)' BY <1>2
    <3>3. /\ Keeps(q, 0, 0)' <=> (c <= RamPageLimit => Within(resolve_flat(q), q, c)')
          /\ Keeps(q, 1, 0)' <=> (c <= RamPageLimit - 1 => Within(resolve_flat(q), q, c)')
          /\ Keeps(q, 1, 1)' <=> (c <= RamPageLimit - 1 => Within(resolve_flat(q), q, c + 1)')
      BY <3>1, <3>2 DEF Keeps
    <3>4. Within(resolve_flat(pid), pid, 1)' <=> Within(z, p, 1)' BY <3>2
    <3> QED BY <1>2, <2>2, <3>1, <3>2, <3>3, <3>4
  <2> QED BY <1>2, <2>1, <2>2 DEF WindowInv
\* The ranks before the step.
<1>3. ASSUME stage # "idle", Even, NEW q \in first..(p - 1), NEW c, c = Count(q, p), c \in Nat
      PROVE  IF resolve_flat(q) # z THEN c <= RamPageLimit => Within(resolve_flat(q), q, c)
             ELSE \/ stage # "insert" /\ (c <= RamPageLimit => Within(z, q, c))
                  \/ stage = "insert" /\ (c <= RamPageLimit - 1 => Within(z, q, c))
                  \/ /\ stage = "page" /\ Within(z, p, 1)
                     /\ c <= RamPageLimit - 1 => Within(z, q, c + 1)
  <2>1. RamPageLimit - 0 = RamPageLimit /\ c + 0 = c BY <1>0, <1>3
  <2>2. IF resolve_flat(q) # resolve_flat(pid) THEN Keeps(q, 0, 0)
        ELSE \/ stage # "insert" /\ Keeps(q, 0, 0)
             \/ stage = "insert" /\ Keeps(q, 1, 0)
             \/ /\ stage = "page" /\ Within(resolve_flat(pid), pid, 1)
                /\ Keeps(q, 1, 1)
    BY <1>3 DEF WindowInv
  <2> QED BY <1>3, <2>1, <2>2 DEF Keeps
\* A page that is not hot does not head its zone's list.
<1>4. stage # "idle" /\ page_state[p] # Hot => ~Within(z, p, 1)
  BY <1>0, <1>1, WithinIsHot DEF HotPages
<1>5. ASSUME UNCHANGED <<page_state, hot_count, lru_prev, lru_next, lru_head, lru_tail>>,
             NEW y \in Zones, NEW q, NEW d, Within(y, q, d)
      PROVE  Within(y, q, d)'
  <2>1. \A s : Spelt(y, s) => Spelt(y, s)' BY <1>0, <1>5, ListsUnchanged
  <2> QED BY <1>0, <1>5, <2>1, WithinOther
<1>6. ASSUME NEW start \in Pages, NEW end \in Pages, ensure_pages_hot(start, end)
      PROVE  WindowInv'
  <2>1. stage' = "page" /\ pid' = start /\ first' = start /\ start \in Int
    BY <1>6 DEF ensure_pages_hot, Pages
  <2>2. first'..(pid' - 1) = {} BY <2>1
  <2> QED BY <2>1, <2>2 DEF WindowInv
<1>7. ~ reset_entropy /\ ~ \E q \in Pages, w \in 1..MaxImportance : record_importance(q, w)
  BY DEF reset_entropy, record_importance, callVars
<1>8. CASE UNCHANGED vars
  <2>1. UNCHANGED <<page_state, hot_count, lru_prev, lru_next, lru_head, lru_tail,
                    entropy_importance, stage, pid, first>>
    BY <1>8 DEF vars, pageVars, lruVars, callVars
  <2>2. \A q \in first..(p - 1) : page_state'[q] # Absent BY <2>1 DEF WindowInv
  <2>3. Even' => Even BY <2>1 DEF Even
  <2>4. ASSUME Even, NEW q \in first..(p - 1), NEW c, c = Count(q, p), c \in Nat
        PROVE  IF resolve_flat(q) # z
               THEN c <= RamPageLimit => Within(resolve_flat(q), q, c)'
               ELSE \/ stage' # "insert" /\ (c <= RamPageLimit => Within(z, q, c)')
                    \/ stage' = "insert" /\ (c <= RamPageLimit - 1 => Within(z, q, c)')
                    \/ /\ stage' = "page" /\ Within(z, p, 1)'
                       /\ c <= RamPageLimit - 1 => Within(z, q, c + 1)'
    <3>1. resolve_flat(q) \in Zones /\ z \in Zones BY <1>1, <2>1
    <3> QED BY <1>3, <1>5, <2>1, <2>4, <3>1
  <2> QED BY <1>2, <2>1, <2>2, <2>3, <2>4, ZenonT(40)
<1>9. CASE EnsureTouch
  <2>1. /\ stage = "page" /\ stage' = "page" /\ pid' = p + 1
        /\ UNCHANGED <<page_state, entropy_importance, first>> /\ page_state[p] = Hot
    BY <1>9 DEF EnsureTouch, pageVars
  <2>2. p \in Int /\ first \in Nat /\ first <= p BY <1>1, <2>1
  <2>3. first' <= pid' BY <2>1, <2>2
  <2>4. \A q \in first..p : page_state'[q] # Absent
    <3>1. \A q \in first..p : q = p \/ q \in first..(p - 1) BY <2>2
    <3> QED BY <2>1, <3>1, Sentinels DEF WindowInv
  <2>5. pid' - 1 = p /\ RamPageLimit - 0 = RamPageLimit BY <1>0, <2>1, <2>2
  <2>6. ASSUME Even', NEW q \in first..p PROVE Keeps(q, 0, 0)'
    <3> PICK c : c = Count(q, p + 1)
      OBVIOUS
    <3>1. c + 0 = c
      <4>1. q \in Int /\ q <= p BY <2>2
      <4>2. c \in Nat BY <2>2, <4>1, CountNext
      <4> QED BY <4>2
    <3>2. c = Count(q, pid)' BY <2>1
    <3>3. Even BY <2>1, <2>6 DEF Even
    <3>4. c <= RamPageLimit => Within(resolve_flat(q), q, c)'
      BY <1>9, <3>3, TouchKeepsWindow
    <3> QED BY <2>5, <3>1, <3>2, <3>4 DEF Keeps
  <2> QED BY <2>1, <2>3, <2>4, <2>5, <2>6 DEF WindowInv
<1>10. CASE EnsureRoom
  <2>1. /\ stage = "page" /\ stage' \in {"scan", "insert"}
        /\ UNCHANGED <<page_state, hot_count, lru_prev, lru_next, lru_head, lru_tail,
                       entropy_importance, pid, first>>
        /\ page_state[p] # Hot
    BY <1>10 DEF EnsureRoom, RoomFor, pageVars, lruVars
  <2>2. \A q \in first..(p - 1) : page_state'[q] # Absent BY <2>1 DEF WindowInv
  <2>3. Even' => Even BY <2>1 DEF Even
  <2>4. ASSUME Even, NEW q \in first..(p - 1), NEW c, c = Count(q, p), c \in Nat
        PROVE  /\ resolve_flat(q) # z => (c <= RamPageLimit => Within(resolve_flat(q), q, c)')
               /\ resolve_flat(q) = z => (c <= RamPageLimit => Within(z, q, c)')
               /\ c <= RamPageLimit - 1 => c <= RamPageLimit
    <3>1. resolve_flat(q) \in Zones /\ z \in Zones BY <1>1, <2>1
    <3>2. /\ resolve_flat(q) # z => (c <= RamPageLimit => Within(resolve_flat(q), q, c))
          /\ resolve_flat(q) = z => (c <= RamPageLimit => Within(z, q, c))
      BY <1>3, <1>4, <2>1, <2>4
    <3>3. c <= RamPageLimit - 1 => c <= RamPageLimit BY <1>0, <2>4
    <3> QED BY <1>5, <2>1, <3>1, <3>2, <3>3
  <2> QED BY <1>2, <2>1, <2>2, <2>3, <2>4, ZenonT(40)
<1>11. CASE EvictScan
  <2>1. /\ stage = "scan" /\ stage' = "scan"
        /\ UNCHANGED <<page_state, hot_count, lru_prev, lru_next, lru_head, lru_tail,
                       entropy_importance, pid, first>>
    BY <1>11 DEF EvictScan, pageVars, lruVars, callVars
  <2>2. \A q \in first..(p - 1) : page_state'[q] # Absent BY <2>1 DEF WindowInv
  <2>3. Even' => Even BY <2>1 DEF Even
  <2>4. ASSUME Even, NEW q \in first..(p - 1), NEW c, c = Count(q, p), c \in Nat
        PROVE  /\ resolve_flat(q) # z => (c <= RamPageLimit => Within(resolve_flat(q), q, c)')
               /\ resolve_flat(q) = z => (c <= RamPageLimit => Within(z, q, c)')
    <3>1. resolve_flat(q) \in Zones /\ z \in Zones BY <1>1, <2>1
    <3>2. /\ resolve_flat(q) # z => (c <= RamPageLimit => Within(resolve_flat(q), q, c))
          /\ resolve_flat(q) = z => (c <= RamPageLimit => Within(z, q, c))
      BY <1>3, <2>1, <2>4
    <3> QED BY <1>5, <2>1, <3>1, <3>2
  <2> QED BY <1>2, <2>1, <2>2, <2>3, <2>4, ZenonT(40)
<1>12. CASE EvictWrite
  <2>1. /\ stage = "scan" /\ stage' = "insert"
        /\ UNCHANGED <<entropy_importance, pid, first>>
    BY <1>12 DEF EvictWrite
  <2>2. Even' => Even BY <2>1 DEF Even
  <2>3. z \in Zones /\ \A q \in first..(p - 1) : q \in Pages /\ resolve_flat(q) \in Zones
    BY <1>1, <2>1
  <2>4. \A q \in first..(p - 1) : page_state'[q] # Absent
    <3>1. \A q \in first..(p - 1) : page_state[q] # Absent BY <2>1 DEF WindowInv
    <3>2. CASE ColdCapacity = 0 BY <1>12, <3>1, <3>2 DEF EvictWrite, pageVars
    <3>3. CASE ColdCapacity # 0
      <4>1. PICK x \in Slots : page_state' = [page_state EXCEPT ![best] = x]
        BY <1>0, <1>12, <3>3, EvictWriteReorders
      <4>2. x # Absent BY Sentinels
      <4> QED BY <1>0, <2>3, <3>1, <4>1, <4>2 DEF TypeOK
    <3> QED BY <3>2, <3>3
  <2>5. ASSUME Even, NEW q \in first..(p - 1), NEW c, c = Count(q, p), c \in Nat
        PROVE  /\ resolve_flat(q) # z => (c <= RamPageLimit => Within(resolve_flat(q), q, c)')
               /\ resolve_flat(q) = z => (c <= RamPageLimit - 1 => Within(z, q, c)')
    <3> PICK y : y = resolve_flat(q)
      OBVIOUS
    <3>1. y \in Zones /\ z \in Zones BY <2>3, <2>5
    <3>2. /\ y # z => (c <= RamPageLimit => Within(y, q, c))
          /\ y = z => (c <= RamPageLimit => Within(z, q, c))
      BY <1>3, <2>1, <2>5
    <3>3. c <= RamPageLimit - 1 => c <= RamPageLimit BY <1>0, <2>5
    <3>4. CASE ColdCapacity = 0
      <4>1. UNCHANGED <<page_state, hot_count, lru_prev, lru_next, lru_head, lru_tail>>
        BY <1>12, <3>4 DEF EvictWrite, pageVars, lruVars
      <4> QED BY <1>5, <3>1, <3>2, <3>3, <4>1
    <3>5. CASE ColdCapacity # 0
      <4> PICK n : n = hot_count[z]
        OBVIOUS
      <4>1. PICK s : Spelt(z, s) /\ n \in 1..n /\ Reordered(z, Dropped(s, n, n))
        BY <1>12, <2>5, <3>5, TailLeaves
      <4>2. CASE y # z
        <5>1. \A r : Spelt(y, r) => Spelt(y, r)' BY <3>1, <4>1, <4>2 DEF Reordered
        <5> QED BY <1>0, <3>1, <3>2, <4>2, <5>1, WithinOther
      <4>3. ASSUME y = z, c <= RamPageLimit - 1 PROVE Within(z, q, c)'
        <5>1. n >= RamPageLimit /\ n \in Nat
          BY <1>0, <2>1, <3>1, <4>1, RecencyAt DEF RoomInv
        <5>2. c < n /\ c \in Int BY <1>0, <2>5, <4>3, <5>1
        <5>3. Within(z, q, c) BY <3>2, <3>3, <4>3
        <5> QED BY <3>1, <4>1, <5>2, <5>3, WithinEvicted
      <4> QED BY <4>2, <4>3
    <3> QED BY <3>4, <3>5
  <2> QED BY <1>2, <2>1, <2>2, <2>4, <2>5, ZenonT(40)
\* What is to be shown when the page has been brought in.
<1>13. ASSUME stage = "insert", stage' = "page",
              UNCHANGED <<entropy_importance, pid, first>>,
              \A q \in first..(p - 1) : page_state'[q] # Absent,
              NEW x, Pushed(z, x),
              \A q \in first..(p - 1) : resolve_flat(q) = z => x = p
       PROVE  WindowInv'
  <2>1. Even' => Even BY <1>13 DEF Even
  <2>2. ASSUME Even, NEW q \in first..(p - 1), NEW c, c = Count(q, p), c \in Nat
        PROVE  /\ resolve_flat(q) # z => (c <= RamPageLimit => Within(resolve_flat(q), q, c)')
               /\ resolve_flat(q) = z => /\ Within(z, p, 1)'
                                         /\ c <= RamPageLimit - 1 => Within(z, q, c + 1)'
    <3> PICK y : y = resolve_flat(q)
      OBVIOUS
    <3>1. y \in Zones /\ z \in Zones BY <1>1, <1>13, <2>2
    <3>2. /\ y # z => (c <= RamPageLimit => Within(y, q, c))
          /\ y = z => (c <= RamPageLimit - 1 => Within(z, q, c))
      BY <1>3, <1>13, <2>2
    <3>3. CASE y # z
      <4>1. \A s : Spelt(y, s) => Spelt(y, s)' BY <1>13, <3>1, <3>3 DEF Pushed, Reordered
      <4> QED BY <1>0, <3>1, <3>2, <3>3, <4>1, WithinOther
    <3>4. CASE y = z
      <4>1. x = p /\ c \in Int
        <5>1. resolve_flat(q) = z BY <3>4
        <5>2. \A r \in first..(p - 1) : resolve_flat(r) = z => x = p BY <1>13, Zenon
        <5>3. x = p BY <2>2, <5>1, <5>2, Zenon
        <5>4. c \in Int BY <2>2
        <5> QED BY <5>3, <5>4
      <4>2. /\ Within(z, p, 1)'
            /\ \A r, d : d \in Int /\ Within(z, r, d) => Within(z, r, d + 1)'
        BY <1>13, <3>1, <4>1, WithinPushed
      <4> QED BY <3>2, <3>4, <4>1, <4>2
    <3> QED BY <3>3, <3>4
  <2> QED BY <1>2, <1>13, <2>1, <2>2, ZenonT(40)
<1>14. CASE EnsureAlloc
  <2> PICK x : x = zone_page_offsets(z) + npages[z]
    OBVIOUS
  <2>1. /\ z \in Zones /\ x \in Pages /\ resolve_flat(x) = z /\ page_state[x] = Absent
        /\ Pushed(z, x)
    BY <1>0, <1>14, EnsureAllocReorders
  <2>2. /\ stage = "insert" /\ stage' = "page" /\ UNCHANGED <<pid, first>>
        /\ page_state' = [page_state EXCEPT ![x] = Hot]
        /\ entropy_importance' = [entropy_importance EXCEPT ![x] = 0]
        /\ page_state[p] = Absent
    BY <1>14 DEF EnsureAlloc
  <2>3. UNCHANGED entropy_importance BY <1>0, <2>1, <2>2 DEF LightInv, TypeOK
  <2>4. \A q \in first..(p - 1) : q \in Pages /\ page_state[q] # Absent
    BY <1>1, <2>2 DEF WindowInv
  <2>5. \A q \in first..(p - 1) : page_state'[q] # Absent
    BY <1>0, <2>2, <2>4, Sentinels DEF TypeOK
  <2>6. ASSUME NEW q \in first..(p - 1), resolve_flat(q) = z PROVE x = p
    <3>1. /\ x \in Int /\ p \in Int /\ q \in Int /\ first \in Int
          /\ p \in Pages
      BY <1>1, <2>1, <2>2, <2>6 DEF Pages
    <3>2. x <= p BY <1>0, <2>2, <3>1 DEF PushedInOrder
    <3>3. ~(q >= x) BY <1>0, <2>4, <2>6, <3>1 DEF PushedInOrder
    <3>4. x \notin first..(p - 1) BY <2>1, <2>4
    <3> QED BY <2>6, <3>1, <3>2, <3>3, <3>4
  <2> QED BY <1>13, <2>1, <2>2, <2>3, <2>5, <2>6
<1>15. CASE EnsureReload
  <2>1. z \in Zones /\ p \in Pages /\ Pushed(z, p)
    BY <1>0, <1>15, EnsureReloadReorders
  <2>2. /\ stage = "insert" /\ stage' = "page" /\ UNCHANGED <<entropy_importance, pid, first>>
        /\ page_state' = [page_state EXCEPT ![p] = Hot]
    BY <1>15 DEF EnsureReload
  <2>3. \A q \in first..(p - 1) : q \in Pages /\ page_state[q] # Absent
    BY <1>1, <2>2 DEF WindowInv
  <2>4. \A q \in first..(p - 1) : page_state'[q] # Absent
    BY <1>0, <2>2, <2>3, Sentinels DEF TypeOK
  <2> QED BY <1>13, <2>1, <2>2, <2>4
<1> QED
  BY <1>6, <1>7, <1>8, <1>9, <1>10, <1>11, <1>12, <1>14, <1>15 DEF Next, EnsureStep

LEMMA WindowInit == Init => WindowInv
BY DEF Init, WindowInv

\* A call that returns leaves hot what it should.
LEMMA WindowReturned ==
  ASSUME LruInv, WindowInv, [Next]_vars, stage # "idle", stage' = "idle", Even,
         NEW p \in first..last,
         Cardinality({q \in p..last : resolve_flat(q) = resolve_flat(p)}) <= RamPageLimit
  PROVE  page_state'[p] = Hot
<1>0. TypeOK /\ Lists /\ IInv BY DEF LruInv, IInv
<1>1. EnsureTouch /\ pid = last
  <2>1. [Next]_vars /\ stage # "idle" /\ stage' = "idle" OBVIOUS
  <2>2. ~ UNCHANGED vars BY <2>1 DEF vars, callVars
  <2>3. ~ \E start, end \in Pages : ensure_pages_hot(start, end)
    BY <2>1 DEF ensure_pages_hot
  <2>4. /\ ~ \E q \in Pages, w \in 1..MaxImportance : record_importance(q, w)
        /\ ~ reset_entropy
    BY <2>1 DEF record_importance, reset_entropy
  <2>5. ~EnsureRoom /\ ~EvictScan /\ ~EvictWrite /\ ~EnsureAlloc /\ ~EnsureReload
    BY <2>1 DEF EnsureRoom, RoomFor, EvictScan, EvictWrite, EnsureAlloc, EnsureReload, callVars
  <2>6. EnsureTouch BY <2>1, <2>2, <2>3, <2>4, <2>5 DEF Next, EnsureStep
  <2>7. pid = last BY <2>1, <2>6 DEF EnsureTouch
  <2> QED BY <2>6, <2>7
<1>2. p \in Pages /\ last \in Int /\ p \in Int
  <2>1. total_pages \in Nat
    BY KVPagesAssumption DEF KVPagesAssumption, total_pages, Zones
  <2> QED BY <1>0, <2>1 DEF TypeOK, Pages
<1> PICK z : z = resolve_flat(p)
  OBVIOUS
<1>3. Count(p, pid + 1) <= RamPageLimit
  <2>1. (pid + 1) - 1 = last BY <1>1, <1>2
  <2> QED BY <2>1 DEF Count
<1> PICK c : c = Count(p, pid + 1)
  OBVIOUS
<1>4. Within(z, p, c)'
  <2>1. p \in first..pid BY <1>1
  <2> QED BY <1>1, <1>3, <2>1, TouchKeepsWindow
<1>5. Lists' BY <1>0, ListsStep
<1>6. z \in Zones BY <1>2, PageInZone
<1>7. p \in HotPages(z)' BY <1>4, <1>5, <1>6, WithinIsHotAfter DEF Lists
<1> QED BY <1>7 DEF HotPages

\* While no attention weight distinguishes the pages, ensure_pages_hot leaves
\* hot every page of its range that is among the last ram_page_limit ones of
\* the range in its zone, for every layout, limit, cold file and scan depth.
THEOREM EnsuredWindowStaysHot == Spec => EnsuredWindowHot
<1>1. WindowInv /\ LruInv /\ [Next]_vars => WindowInv' BY WindowStep
<1>2. WindowInv /\ LruInv /\ [Next]_vars =>
        [stage # "idle" /\ stage' = "idle" /\ (\A p \in Pages : entropy_importance[p] = 0) =>
           \A p \in first..last :
              Cardinality({q \in p..last : resolve_flat(q) = resolve_flat(p)}) <= RamPageLimit
                => page_state'[p] = Hot]_vars
  BY WindowReturned DEF Even
<1> QED BY LruInvariance, WindowInit, <1>1, <1>2, PTL DEF Spec, EnsuredWindowHot

============================================================================
