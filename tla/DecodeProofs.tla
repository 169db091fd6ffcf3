---------------------------- MODULE DecodeProofs ----------------------------
(***************************************************************************)
(* Proofs about the parts around a decode step, for every value of their   *)
(* constants: the matrix-vector products (Gemv), the moving average of the *)
(* virtual NPU (VirtualNpu), the ring, drafts and file of the speculative  *)
(* decoder (Drafting), its logit cache and counters (Speculation), the     *)
(* token the sampler picks (Sampler), the loading of a model file          *)
(* (ModelFile), and the blocks the scalar kernels read (QuantBlocks).      *)
(*                                                                         *)
(* What a loop computes is a fold here.  A fold is a recursive function,   *)
(* and what it satisfies is shown from the least number at which it would  *)
(* not (LeastNumber): FoldExists and FoldKeeps are the two forms used.     *)
(***************************************************************************)
EXTENDS Speculation, VirtualNpu, Sampler, ModelFile, Gemv, QuantBlocks, FiniteSetTheorems,
        SequenceTheorems, WellFoundedInduction, TLAPS

-----------------------------------------------------------------------------
(* Matrix-vector products: the rows of the threads                         *)

\* Quotient and remainder.
LEMMA DivMod ==
  ASSUME NEW a \in Nat, NEW b \in Nat \ {0}
  PROVE  /\ a \div b \in Nat
         /\ a % b \in 0..(b - 1)
         /\ a = b * (a \div b) + (a % b)
<1> DEFINE q == a \div b
           r == a % b
<1>1. b > 0 /\ q \in Int /\ r \in 0..(b - 1) /\ a = b * q + r
  OBVIOUS
<1> HIDE DEF q, r
<1>2. q >= 0
  <2>1. ASSUME q < 0 PROVE FALSE
    <3>1. PICK k \in Nat : q = 0 - 1 - k
      <4>1. 0 - 1 - q \in Nat /\ q = 0 - 1 - (0 - 1 - q) BY <1>1, <2>1
      <4> QED BY <4>1
    <3>2. b * q = 0 - b - b * k /\ b * k \in Nat BY <3>1
    <3> QED BY <1>1, <3>2
  <2> QED BY <1>1, <2>1
<1> QED BY <1>1, <1>2 DEF q, r

\* A larger factor makes a larger product.
LEMMA TimesLess ==
  ASSUME NEW b \in Nat, NEW c \in Nat, NEW d \in Nat, c < d
  PROVE  c * b \in Nat /\ d * b \in Nat /\ c * b + b <= d * b
<1>1. PICK e \in Nat : d = c + 1 + e
  <2>1. d - (c + 1) \in Nat /\ d = c + 1 + (d - (c + 1)) OBVIOUS
  <2> QED BY <2>1
<1>2. d * b = c * b + b + e * b /\ e * b \in Nat /\ c * b \in Nat BY <1>1
<1> QED BY <1>2

\* The rows of one thread, times the threads, are at least the rows, by less than
\* one row for each thread.
LEMMA RoundedUp ==
  ASSUME NEW s \in Nat, NEW n \in Nat \ {0}, NEW k, k = RowsPerThread(s, n)
  PROVE  k \in Nat /\ n * k \in Nat /\ s <= n * k /\ n * k <= s + n - 1
<1>1. s + n - 1 \in Nat OBVIOUS
<1> PICK r : r = (s + n - 1) % n
  OBVIOUS
<1>2. k \in Nat /\ r \in 0..(n - 1) /\ s + n - 1 = n * k + r
  BY <1>1, DivMod DEF RowsPerThread
<1>3. n * k \in Nat BY <1>2
<1> QED BY <1>2, <1>3

\* Ranges of k consecutive numbers, the t-th from t * k on, are apart, and the
\* first n of them hold every number below n * k.
LEMMA RangesApart ==
  ASSUME NEW k \in Nat, NEW t \in Nat, NEW u \in Nat, t # u,
         NEW r \in Int, t * k <= r, r < t * k + k, u * k <= r, r < u * k + k
  PROVE  FALSE
<1>1. CASE t < u BY <1>1, TimesLess
<1>2. CASE u < t BY <1>2, TimesLess
<1> QED BY <1>1, <1>2

LEMMA RangesCover ==
  ASSUME NEW k \in Nat, NEW n \in Nat \ {0}, NEW r \in Nat, r < n * k
  PROVE  \E t \in 0..(n - 1) : t * k \in Nat /\ t * k <= r /\ r < t * k + k
<1>1. k # 0 OBVIOUS
<1> PICK t : t = r \div k
  OBVIOUS
<1> PICK m : m = r % k
  OBVIOUS
<1>2. t \in Nat /\ m \in 0..(k - 1) /\ r = k * t + m BY <1>1, DivMod
<1>3. k * t = t * k /\ t * k \in Nat /\ t * k <= r /\ r < t * k + k BY <1>2
<1>4. t < n
  <2>1. ASSUME n <= t PROVE FALSE
    <3>1. CASE n = t BY <1>3, <3>1
    <3>2. CASE n < t
      <4>1. n * k + k <= t * k BY <3>2, <1>2, TimesLess
      <4> QED BY <1>3, <4>1
    <3> QED BY <1>2, <2>1, <3>1, <3>2
  <2>2. t \in Int /\ n \in Int BY <1>2
  <2> QED BY <2>1, <2>2
<1>5. t \in 0..(n - 1) BY <1>2, <1>4
<1> QED BY <1>3, <1>5, Zenon

----------------------------------------------------------------------------
(* What a job's threads compute *)

IsJob(j) == j \in Jobs /\ Possible(j)
ThreadsOf(j) == 0..(j.threads - 1)

LEMMA JobType ==
  ASSUME NEW j, IsJob(j)
  PROVE  /\ j.threads \in Nat \ {0}
         /\ Matrices(j) \subseteq 1..2 /\ 1 \in Matrices(j)
         /\ j.driver # "linear" => Matrices(j) = 1..2
         /\ \A m \in Matrices(j) : j.rows[m] \in Nat
<1>1. j \in Jobs BY DEF IsJob
<1>2. j.threads \in Nat \ {0} BY <1>1, GemvAssumption DEF GemvAssumption, Jobs
<1>3. j.rows \in [1..2 -> Nat] BY <1>1, GemvAssumption DEF GemvAssumption, Jobs
<1>4. Matrices(j) \subseteq 1..2 /\ 1 \in Matrices(j) BY DEF Matrices
<1>5. j.driver # "linear" => Matrices(j) = 1..2 BY DEF Matrices
<1> QED BY <1>2, <1>3, <1>4, <1>5

\* The larger and the smaller of two numbers.
LEMMA MaxOfPair ==
  ASSUME NEW a \in Int, NEW b \in Int
  PROVE  Max({a, b}) \in {a, b} /\ a <= Max({a, b}) /\ b <= Max({a, b})
<1>1. \E x \in {a, b} : \A y \in {a, b} : x >= y
  <2>1. CASE a >= b BY <2>1
  <2>2. CASE b >= a BY <2>2
  <2> QED BY <2>1, <2>2
<1> QED BY <1>1 DEF Max

LEMMA MinOfPair ==
  ASSUME NEW a \in Int, NEW b \in Int
  PROVE  Min({a, b}) = IF a <= b THEN a ELSE b
<1>1. \E x \in {a, b} : \A y \in {a, b} : x <= y
  <2>1. CASE a <= b BY <2>1
  <2>2. CASE b <= a BY <2>2
  <2> QED BY <2>1, <2>2
<1> QED BY <1>1 DEF Min

\* The rows that are split are at least those of the matrix.
LEMMA SplitsEnough ==
  ASSUME NEW j, IsJob(j), NEW m \in Matrices(j)
  PROVE  Splits(j, m) \in Nat /\ j.rows[m] <= Splits(j, m)
<1>1. CASE j.driver \in {"gemvs", "ring"}
  <2>1. Matrices(j) = 1..2 /\ j.rows[1] \in Nat /\ j.rows[2] \in Nat
    BY <1>1, JobType
  <2>2. {j.rows[k] : k \in 1..2} = {j.rows[1], j.rows[2]}
    <3>1. 1..2 = {1, 2} OBVIOUS
    <3> QED BY <3>1
  <2>3. Splits(j, m) = Max({j.rows[1], j.rows[2]}) BY <1>1, <2>1, <2>2 DEF Splits
  <2>4. m = 1 \/ m = 2 BY <2>1
  <2>5. /\ Max({j.rows[1], j.rows[2]}) \in {j.rows[1], j.rows[2]}
        /\ j.rows[1] <= Max({j.rows[1], j.rows[2]})
        /\ j.rows[2] <= Max({j.rows[1], j.rows[2]})
    <3>1. j.rows[1] \in Int /\ j.rows[2] \in Int BY <2>1
    <3> QED BY <3>1, MaxOfPair, Zenon
  <2> QED BY <2>1, <2>3, <2>4, <2>5
<1>2. CASE ~(j.driver \in {"gemvs", "ring"})
  <2>1. Splits(j, m) = j.rows[m] BY <1>2 DEF Splits
  <2> QED BY <2>1, JobType
<1> QED BY <1>1, <1>2

\* The range of rows of thread t.
LEMMA RangeOf ==
  ASSUME NEW j, IsJob(j), NEW m \in Matrices(j), NEW t \in Nat,
         NEW k, k = RowsPerThread(Splits(j, m), j.threads)
  PROVE  /\ k \in Nat /\ j.rows[m] <= j.threads * k
         /\ First(j, t, m) = t * k /\ t * k \in Nat
         /\ End(j, t, m) \in Int
         /\ \A r \in Int : r < End(j, t, m) <=> r < t * k + k /\ r < j.rows[m]
<1>1. /\ Splits(j, m) \in Nat /\ j.rows[m] <= Splits(j, m)
      /\ j.threads \in Nat \ {0} /\ j.rows[m] \in Nat
  BY SplitsEnough, JobType
<1>2. k \in Nat /\ j.threads * k \in Nat /\ Splits(j, m) <= j.threads * k BY <1>1, RoundedUp
<1>3. t * k \in Nat /\ First(j, t, m) = t * k BY <1>2 DEF First
<1>4. End(j, t, m) = Min({t * k + k, j.rows[m]}) BY <1>3 DEF End
<1>5. End(j, t, m) = IF t * k + k <= j.rows[m] THEN t * k + k ELSE j.rows[m]
  <2>1. t * k + k \in Int /\ j.rows[m] \in Int BY <1>1, <1>2, <1>3
  <2> QED BY <1>4, <2>1, MinOfPair
<1> PICK a : a = t * k
  OBVIOUS
<1> PICK b : b = j.threads * k
  OBVIOUS
<1>6. j.rows[m] <= b BY <1>1, <1>2
<1>7. End(j, t, m) \in Int /\ \A r \in Int : r < End(j, t, m) <=> r < a + k /\ r < j.rows[m]
  BY <1>1, <1>2, <1>3, <1>5
<1> QED BY <1>2, <1>3, <1>6, <1>7

\* The rows of a thread, but those of fallback_gemv.
LEMMA ShareIsRange ==
  ASSUME NEW j, IsJob(j), j.driver # "fallback", NEW t \in Nat, NEW m, NEW r
  PROVE  <<m, r>> \in Share(j, t) <=>
           /\ m \in Matrices(j) /\ r \in Nat /\ r < j.rows[m]
           /\ \E k : /\ k = RowsPerThread(Splits(j, m), j.threads)
                     /\ t * k <= r /\ r < t * k + k
<1>1. <<m, r>> \in Share(j, t) <=>
        /\ m \in Matrices(j) /\ First(j, t, m) < End(j, t, m)
        /\ r \in First(j, t, m)..(End(j, t, m) - 1)
  BY DEF Share
<1>2. ASSUME m \in Matrices(j)
      PROVE  /\ First(j, t, m) < End(j, t, m)
             /\ r \in First(j, t, m)..(End(j, t, m) - 1)
             <=>
             /\ r \in Nat /\ r < j.rows[m]
             /\ \E k : /\ k = RowsPerThread(Splits(j, m), j.threads)
                       /\ t * k <= r /\ r < t * k + k
  <2> PICK k : k = RowsPerThread(Splits(j, m), j.threads)
    OBVIOUS
  <2> PICK a : a = t * k
    OBVIOUS
  <2> PICK f : f = First(j, t, m)
    OBVIOUS
  <2> PICK e : e = End(j, t, m)
    OBVIOUS
  <2>1. /\ k \in Nat /\ f = a /\ a \in Nat /\ e \in Int
        /\ \A x \in Int : x < e <=> x < a + k /\ x < j.rows[m]
    BY <1>2, RangeOf
  <2>2. f < e /\ r \in f..(e - 1) <=> r \in Nat /\ r < j.rows[m] /\ a <= r /\ r < a + k
    <3>1. ASSUME f < e, r \in f..(e - 1)
          PROVE  r \in Nat /\ r < j.rows[m] /\ a <= r /\ r < a + k
      <4>1. r \in Int /\ f <= r /\ r < e BY <2>1, <3>1
      <4> QED BY <2>1, <4>1
    <3>2. ASSUME r \in Nat, r < j.rows[m], a <= r, r < a + k
          PROVE  f < e /\ r \in f..(e - 1)
      <4>1. r < e BY <2>1, <3>2
      <4> QED BY <2>1, <3>2, <4>1
    <3> QED BY <3>1, <3>2
  <2> QED BY <2>2
<1> QED BY <1>1, <1>2

\* fallback_gemv splits the matrices as the others split the rows.
LEMMA ShareIsItems ==
  ASSUME NEW j, IsJob(j), j.driver = "fallback", NEW t \in Nat, NEW m, NEW r
  PROVE  <<m, r>> \in Share(j, t) <=>
           /\ m \in 1..2 /\ r \in Rows(j, m)
           /\ \E k : /\ k = RowsPerThread(2, j.threads)
                     /\ t * k <= m - 1 /\ m - 1 < t * k + k
<1>1. Matrices(j) = 1..2 /\ j.threads \in Nat \ {0} BY JobType
<1>2. Cardinality(Matrices(j)) = 2
  <2>1. \A a, b \in Int : Cardinality(a..b) = IF a > b THEN 0 ELSE b - a + 1
    BY FS_Interval, Zenon
  <2>2. 1 \in Int /\ 2 \in Int OBVIOUS
  <2>3. Cardinality(1..2) = IF 1 > 2 THEN 0 ELSE 2 - 1 + 1 BY <2>1, <2>2, Zenon
  <2>4. (IF 1 > 2 THEN 0 ELSE 2 - 1 + 1) = 2 OBVIOUS
  <2> QED BY <1>1, <2>3, <2>4
<1> PICK k : k = RowsPerThread(2, j.threads)
  OBVIOUS
<1>3. Items(j, t) = {x \in 1..2 : t * k < x /\ x <= (t + 1) * k}
  BY <1>1, <1>2 DEF Items, RowsPerThread
<1>4. <<m, r>> \in Share(j, t) <=> m \in Items(j, t) /\ r \in Rows(j, m)
  BY DEF Share
<1>5. ASSUME m \in 1..2
      PROVE  t * k < m /\ m <= (t + 1) * k <=> t * k <= m - 1 /\ m - 1 < t * k + k
  <2>1. k \in Nat
    <3> PICK n : n = j.threads
      OBVIOUS
    <3>1. 2 \in Nat /\ n \in Nat \ {0} /\ k = RowsPerThread(2, n) BY <1>1
    <3> QED BY <3>1, RoundedUp, Zenon
  <2>2. (t + 1) * k = t * k + k /\ t * k \in Nat BY <2>1
  <2> PICK a : a = t * k
    OBVIOUS
  <2>3. (t + 1) * k = a + k /\ a \in Nat BY <2>2
  <2>4. a < m /\ m <= a + k <=> a <= m - 1 /\ m - 1 < a + k
    <3>1. m \in Int /\ a \in Int /\ k \in Int BY <1>5, <2>1, <2>3
    <3> HIDE <2>2
    <3> QED BY <3>1
  <2> QED BY <2>3, <2>4
<1> QED BY <1>3, <1>4, <1>5

\* No row belongs to two threads, and every row of every matrix to one: the row
\* ranges of a job tile its outputs.
LEMMA ShareTiles ==
  ASSUME NEW j, IsJob(j)
  PROVE  /\ \A t \in ThreadsOf(j) : \A x \in Share(j, t) :
              \E m \in Matrices(j) : \E r \in Rows(j, m) : x = <<m, r>>
         /\ \A t, u \in ThreadsOf(j) : t # u => Share(j, t) \cap Share(j, u) = {}
         /\ \A m \in Matrices(j) : \A r \in Rows(j, m) :
              \E t \in ThreadsOf(j) : <<m, r>> \in Share(j, t)
<1>1. /\ j.threads \in Nat \ {0} /\ ThreadsOf(j) \subseteq Nat
      /\ \A m \in Matrices(j) : /\ j.rows[m] \in Nat
                                /\ \A r : r \in Rows(j, m) <=> r \in Nat /\ r < j.rows[m]
  BY JobType DEF ThreadsOf, Rows
<1>2. ASSUME NEW t \in ThreadsOf(j), NEW x \in Share(j, t)
      PROVE  \E m \in Matrices(j) : \E r : x = <<m, r>>
  <2>1. CASE j.driver = "fallback" BY <1>2, <2>1 DEF Share, Items
  <2>2. CASE j.driver # "fallback" BY <1>2, <2>2 DEF Share
  <2> QED BY <2>1, <2>2
<1>3. ASSUME NEW t \in ThreadsOf(j), NEW m, NEW r, <<m, r>> \in Share(j, t)
      PROVE  m \in Matrices(j) /\ r \in Rows(j, m)
  <2>1. t \in Nat BY <1>1
  <2>2. CASE j.driver = "fallback" BY <1>3, <2>1, <2>2, ShareIsItems, JobType
  <2>3. CASE j.driver # "fallback" BY <1>1, <1>3, <2>1, <2>3, ShareIsRange
  <2> QED BY <2>2, <2>3
<1>4. ASSUME NEW t \in ThreadsOf(j), NEW u \in ThreadsOf(j), t # u,
             NEW m, NEW r, <<m, r>> \in Share(j, t), <<m, r>> \in Share(j, u)
      PROVE  FALSE
  <2>1. t \in Nat /\ u \in Nat BY <1>1
  <2>2. CASE j.driver = "fallback"
    <3> PICK k : k = RowsPerThread(2, j.threads)
      OBVIOUS
    <3>1. /\ m \in 1..2 /\ t * k <= m - 1 /\ m - 1 < t * k + k
          /\ u * k <= m - 1 /\ m - 1 < u * k + k
      BY <1>4, <2>1, <2>2, ShareIsItems
    <3>2. k \in Nat
      <4> PICK s : s = 2
        OBVIOUS
      <4>1. s \in Nat /\ k = RowsPerThread(s, j.threads) OBVIOUS
      <4> QED BY <1>1, <4>1, RoundedUp, Zenon
    <3>3. m - 1 \in Int BY <3>1
    <3> QED BY <1>4, <2>1, <3>1, <3>2, <3>3, RangesApart, Zenon
  <2>3. CASE j.driver # "fallback"
    <3> PICK k : k = RowsPerThread(Splits(j, m), j.threads)
      OBVIOUS
    <3>1. /\ m \in Matrices(j) /\ r \in Nat
          /\ t * k <= r /\ r < t * k + k /\ u * k <= r /\ r < u * k + k
      BY <1>4, <2>1, <2>3, ShareIsRange
    <3>2. k \in Nat BY <2>1, <3>1, RangeOf
    <3>3. r \in Int BY <3>1
    <3> QED BY <1>4, <2>1, <3>1, <3>2, <3>3, RangesApart, Zenon
  <2> QED BY <2>2, <2>3
<1>5. ASSUME NEW m \in Matrices(j), NEW r \in Rows(j, m)
      PROVE  \E t \in ThreadsOf(j) : <<m, r>> \in Share(j, t)
  <2>1. r \in Nat /\ r < j.rows[m] /\ j.rows[m] \in Nat BY <1>1
  <2> PICK n : n = j.threads
    OBVIOUS
  <2>2. CASE j.driver = "fallback"
    <3> PICK k : k = RowsPerThread(2, n)
      OBVIOUS
    <3>1. k \in Nat /\ n * k \in Nat /\ 2 <= n * k
      <4> PICK s : s = 2
        OBVIOUS
      <4>1. s \in Nat /\ n \in Nat \ {0} /\ k = RowsPerThread(s, n) BY <1>1
      <4>2. k \in Nat /\ n * k \in Nat /\ s <= n * k BY <4>1, RoundedUp, Zenon
      <4> QED BY <4>2
    <3> PICK b : b = n * k
      OBVIOUS
    <3>2. m \in 1..2 BY JobType
    <3>3. m - 1 \in Nat /\ m - 1 < b BY <3>1, <3>2
    <3>4. \E t \in 0..(n - 1) : t * k \in Nat /\ t * k <= m - 1 /\ m - 1 < t * k + k
      BY <1>1, <3>1, <3>3, RangesCover
    <3>5. PICK t \in 0..(n - 1) : t * k <= m - 1 /\ m - 1 < t * k + k BY <3>4
    <3>6. t \in Nat /\ t \in ThreadsOf(j) BY <1>1, <3>5 DEF ThreadsOf
    <3>7. <<m, r>> \in Share(j, t) BY <2>2, <3>2, <3>5, <3>6, ShareIsItems
    <3> QED BY <3>6, <3>7
  <2>3. CASE j.driver # "fallback"
    <3> PICK k : k = RowsPerThread(Splits(j, m), n)
      OBVIOUS
    <3> PICK b : b = n * k
      OBVIOUS
    <3>1. k \in Nat /\ j.rows[m] <= b /\ b \in Nat
      <4>1. k \in Nat /\ j.rows[m] <= n * k
        <5>1. 0 \in Nat OBVIOUS
        <5> QED BY <5>1, RangeOf
      <4> QED BY <1>1, <4>1
    <3>2. r < b BY <2>1, <3>1
    <3>3. \E t \in 0..(n - 1) : t * k \in Nat /\ t * k <= r /\ r < t * k + k
      BY <1>1, <2>1, <3>1, <3>2, RangesCover
    <3>4. PICK t \in 0..(n - 1) : t * k <= r /\ r < t * k + k BY <3>3
    <3>5. t \in Nat /\ t \in ThreadsOf(j) BY <1>1, <3>4 DEF ThreadsOf
    <3>6. <<m, r>> \in Share(j, t) BY <2>1, <2>3, <3>4, <3>5, ShareIsRange
    <3> QED BY <3>5, <3>6
  <2> QED BY <2>2, <2>3
<1> QED
  <2>1. \A t \in ThreadsOf(j) : \A x \in Share(j, t) :
          \E m \in Matrices(j) : \E r \in Rows(j, m) : x = <<m, r>>
    BY <1>2, <1>3
  <2>2. ASSUME NEW t \in ThreadsOf(j), NEW u \in ThreadsOf(j), t # u
        PROVE  Share(j, t) \cap Share(j, u) = {}
    <3>1. ASSUME NEW x \in Share(j, t), x \in Share(j, u) PROVE FALSE
      BY <1>2, <1>4, <2>2, <3>1
    <3> QED BY <3>1
  <2> QED BY <1>5, <2>1, <2>2

\* In a dense matrix of so many rows no thread starts behind its end.
LEMMA NeverNegative ==
  ASSUME NEW j, IsJob(j), NEW t \in ThreadsOf(j), j.dtype = "dense" => EnoughRows(j)
  PROVE  ~Faults(j, t)
<1> SUFFICES ASSUME j.dtype = "dense", j.driver # "fallback", NEW m \in Matrices(j)
             PROVE  First(j, t, m) <= End(j, t, m)
  <2>1. ASSUME NEW m \in Matrices(j) PROVE First(j, t, m) \in Int /\ End(j, t, m) \in Int
    <3>1. t \in Nat BY DEF ThreadsOf
    <3> QED BY <3>1, RangeOf
  <2> QED BY <2>1 DEF Faults
<1> PICK n : n = j.threads
  OBVIOUS
<1> PICK h : h = j.rows[m]
  OBVIOUS
<1> PICK k : k = RowsPerThread(Splits(j, m), n)
  OBVIOUS
<1>1. n \in Nat \ {0} /\ h \in Nat /\ t \in Nat /\ t <= n - 1 BY JobType DEF ThreadsOf
<1>2. h >= (n - 1) * (n - 1) /\ Splits(j, m) = h
  BY DEF IsJob, Possible, EnoughRows, Splits
<1>3. /\ k \in Nat /\ n * k <= h + n - 1 BY <1>1, <1>2, RoundedUp
<1>4. (n - 1) * k <= h
  <2>1. PICK c \in Nat : n = c + 1
    <3>1. n - 1 \in Nat /\ n = (n - 1) + 1 BY <1>1
    <3> QED BY <3>1
  <2>2. (c + 1) * k <= h + c /\ h >= c * c
    BY <1>1, <1>2, <1>3, <2>1
  \* Were c * k above h, k would be at most c - 1, and c * k below c * c.
  <2>3. ASSUME c * k > h PROVE FALSE
    <3>1. (c + 1) * k = c * k + k /\ c * k \in Nat /\ c * c \in Nat BY <1>3
    <3>2. k < c BY <1>1, <1>3, <2>2, <2>3, <3>1
    <3>3. k * c \in Nat /\ c * c \in Nat /\ k * c + c <= c * c BY <1>3, <3>2, TimesLess
    <3>4. k * c = c * k BY <1>3
    <3> QED BY <1>1, <2>2, <2>3, <3>1, <3>3, <3>4
  <2>4. n - 1 = c /\ c * k \in Nat BY <1>3, <2>1
  <2> QED BY <1>1, <2>3, <2>4
<1>5. t * k \in Nat /\ t * k <= (n - 1) * k /\ (n - 1) * k \in Nat
  <2>1. n - 1 \in Nat BY <1>1
  <2>2. t = n - 1 \/ t < n - 1 BY <1>1
  <2>3. CASE t = n - 1 BY <1>3, <2>1, <2>3
  <2>4. CASE t < n - 1 BY <1>1, <1>3, <2>1, <2>4, TimesLess
  <2> QED BY <2>2, <2>3, <2>4
<1> PICK a : a = t * k
  OBVIOUS
<1>6. a \in Nat /\ a <= h BY <1>1, <1>4, <1>5
<1>7. /\ First(j, t, m) = a
      /\ End(j, t, m) = Min({a + k, h})
  BY <1>1 DEF First, End
<1>8. End(j, t, m) = IF a + k <= h THEN a + k ELSE h
  <2>1. a + k \in Int /\ h \in Int BY <1>1, <1>3, <1>6
  <2> QED BY <1>7, <2>1, MinOfPair, Zenon
<1>9. k \in Nat /\ h \in Nat BY <1>1, <1>3
<1>10. a <= (IF a + k <= h THEN a + k ELSE h)
  <2>1. a \in Int /\ h \in Int /\ k \in Int /\ 0 <= k /\ a <= h BY <1>6, <1>9
  <2>2. a <= a + k BY <2>1
  <2> QED BY <2>1, <2>2
<1> QED BY <1>7, <1>8, <1>10, Zenon

----------------------------------------------------------------------------
(* Every row is the product of its call *)

\* What the buffers hold of the running call: its product in the rows that are
\* written, and in a row still to be added to nothing of an earlier call.
KernelInvariant ==
  /\ IsJob(job)
  /\ call \in Nat
  /\ pending \in [ThreadsOf(job) -> SUBSET UNION {Share(job, t) : t \in ThreadsOf(job)}]
  /\ \A t \in ThreadsOf(job) : pending[t] \subseteq Share(job, t)
  /\ DOMAIN out = Matrices(job)
  /\ \A m \in Matrices(job) : DOMAIN out[m] = Rows(job, m)
  /\ faulted => job.dtype = "dense" /\ ~EnoughRows(job)
  /\ call > 0 /\ ~faulted /\ Exact(job) =>
       \A m \in Matrices(job) : \A r \in Rows(job, m) :
          IF \E t \in ThreadsOf(job) : <<m, r>> \in pending[t]
          THEN Adds(job) /\ ~KernelZeroes(job) => out[m][r] = {}
          ELSE out[m][r] = {call}

LEMMA KernelStart == GemvInit => KernelInvariant
<1> SUFFICES ASSUME GemvInit PROVE KernelInvariant
  OBVIOUS
<1>1. IsJob(job) /\ call = 0 /\ ~faulted /\ pending = [t \in ThreadsOf(job) |-> {}]
  BY DEF GemvInit, IsJob, ThreadsOf
<1>2. out = [m \in Matrices(job) |-> [r \in Rows(job, m) |-> {}]]
  BY DEF GemvInit, Outputs
<1>3. DOMAIN out = Matrices(job) /\ \A m \in Matrices(job) : DOMAIN out[m] = Rows(job, m)
  BY <1>2
<1>4. /\ pending \in [ThreadsOf(job) -> SUBSET UNION {Share(job, t) : t \in ThreadsOf(job)}]
      /\ \A t \in ThreadsOf(job) : pending[t] \subseteq Share(job, t)
  BY <1>1
<1>5. call \in Nat /\ ~(call > 0) BY <1>1
<1> QED BY <1>1, <1>3, <1>4, <1>5 DEF KernelInvariant

\* A driver whose kernel adds has zeroed the buffer, but forward_linear and
\* forward_gemvs_ring.
LEMMA AddingIsZeroed ==
  ASSUME NEW j, IsJob(j), Adds(j), Exact(j)
  PROVE  Zeroes(j)
<1>1. j.driver \in {"multi", "batch", "gemvs", "fallback"}
  BY GemvAssumption DEF GemvAssumption, IsJob, Jobs, Exact
<1> QED BY <1>1 DEF IsJob, Possible, Adds, Zeroes

LEMMA CallKeeps == KernelInvariant /\ Call => KernelInvariant'
<1> SUFFICES ASSUME KernelInvariant, Call PROVE KernelInvariant'
  OBVIOUS
<1> PICK j : j = job
  OBVIOUS
<1>1. IsJob(j) /\ call \in Nat /\ DOMAIN pending = ThreadsOf(j)
  BY DEF KernelInvariant
<1>2. job' = j /\ call' = call + 1 /\ pending' = [t \in ThreadsOf(j) |-> Share(j, t)]
  BY <1>1 DEF Call
<1>3. faulted' => j.dtype = "dense" /\ ~EnoughRows(j) BY <1>1, NeverNegative DEF Call
<1>4. out' = IF Zeroes(j) THEN Outputs(j) ELSE out BY DEF Call
<1>5. DOMAIN out' = Matrices(j) /\ \A m \in Matrices(j) : DOMAIN out'[m] = Rows(j, m)
  <2>1. CASE Zeroes(j) BY <1>4, <2>1 DEF Outputs
  <2>2. CASE ~Zeroes(j) BY <1>4, <2>2 DEF KernelInvariant
  <2> QED BY <2>1, <2>2
<1>6. /\ pending' \in [ThreadsOf(j) -> SUBSET UNION {Share(j, t) : t \in ThreadsOf(j)}]
      /\ \A t \in ThreadsOf(j) : pending'[t] \subseteq Share(j, t)
  BY <1>2
<1>7. ASSUME Exact(j),
             NEW m \in Matrices(j), NEW r \in Rows(j, m)
      PROVE  /\ \E t \in ThreadsOf(j) : <<m, r>> \in pending'[t]
             /\ Adds(j) => out'[m][r] = {}
  <2>1. \E t \in ThreadsOf(j) : <<m, r>> \in pending'[t] BY <1>1, <1>2, ShareTiles
  <2>2. ASSUME Adds(j) PROVE out'[m][r] = {}
    <3>1. Zeroes(j) BY <1>1, <1>7, <2>2, AddingIsZeroed
    <3> QED BY <1>4, <3>1 DEF Outputs
  <2> QED BY <2>1, <2>2
<1>8. call' \in Nat BY <1>1, <1>2
<1> QED BY <1>1, <1>2, <1>3, <1>5, <1>6, <1>7, <1>8 DEF KernelInvariant

LEMMA ComputeKeeps ==
  ASSUME KernelInvariant, NEW t \in DOMAIN pending, ComputeRow(t)
  PROVE  KernelInvariant'
<1> PICK j : j = job
  OBVIOUS
<1>1. /\ IsJob(j) /\ call \in Nat
      /\ pending \in [ThreadsOf(j) -> SUBSET UNION {Share(j, u) : u \in ThreadsOf(j)}]
      /\ \A u \in ThreadsOf(j) : pending[u] \subseteq Share(j, u)
      /\ DOMAIN out = Matrices(j) /\ \A m \in Matrices(j) : DOMAIN out[m] = Rows(j, m)
      /\ t \in ThreadsOf(j)
  BY DEF KernelInvariant
<1>2. PICK mr \in pending[t] :
        /\ pending' = [pending EXCEPT ![t] = @ \ {mr}]
        /\ out' = IF mr[2] \in Rows(j, mr[1])
                  THEN [out EXCEPT ![mr[1]][mr[2]] =
                          (IF Adds(j) /\ ~KernelZeroes(j) THEN out[mr[1]][mr[2]] ELSE {})
                            \cup (IF Misreads(j) THEN {} ELSE {call})]
                  ELSE out
        /\ faulted' = (faulted \/ mr[2] \notin Rows(j, mr[1]))
        /\ UNCHANGED <<call, job>>
  BY DEF ComputeRow
<1>3. mr \in Share(j, t) BY <1>1, <1>2
<1>4. PICK n \in Matrices(j) : \E s \in Rows(j, n) : mr = <<n, s>> BY <1>1, <1>3, ShareTiles
<1>5. PICK s \in Rows(j, n) : mr = <<n, s>> BY <1>4
<1>6. mr[1] = n /\ mr[2] = s BY <1>5
<1>7. (faulted' <=> faulted) /\ (faulted => j.dtype = "dense" /\ ~EnoughRows(j))
  BY <1>2, <1>6 DEF KernelInvariant
<1> DEFINE old == IF Adds(j) /\ ~KernelZeroes(j) THEN out[n][s] ELSE {}
<1> DEFINE product == IF Misreads(j) THEN {} ELSE {call}
<1>8. out' = [out EXCEPT ![n][s] = old \cup product] BY <1>2, <1>6
<1>9. /\ DOMAIN out' = Matrices(j) /\ \A m \in Matrices(j) : DOMAIN out'[m] = Rows(j, m)
      /\ out'[n][s] = old \cup product
      /\ \A m \in Matrices(j) : \A r \in Rows(j, m) : <<m, r>> # <<n, s>> => out'[m][r] = out[m][r]
  <2> PICK v : v = old \cup product
    OBVIOUS
  <2>1. out' = [out EXCEPT ![n] = [out[n] EXCEPT ![s] = v]] BY <1>8
  <2>2. /\ DOMAIN out' = DOMAIN out /\ out'[n] = [out[n] EXCEPT ![s] = v]
        /\ \A m \in Matrices(j) : m # n => out'[m] = out[m]
    BY <1>1, <2>1
  <2> QED BY <1>1, <2>2
<1>10. /\ pending' \in [ThreadsOf(j) -> SUBSET UNION {Share(j, u) : u \in ThreadsOf(j)}]
       /\ \A u \in ThreadsOf(j) : pending'[u] = IF u = t THEN pending[u] \ {mr} ELSE pending[u]
  BY <1>1, <1>2
<1>11. \A u \in ThreadsOf(j) : pending'[u] \subseteq Share(j, u) BY <1>1, <1>10
\* No other thread has to write the row.
<1>12. \A u \in ThreadsOf(j) : mr \notin pending'[u]
  <2>1. ASSUME NEW u \in ThreadsOf(j), mr \in pending'[u] PROVE FALSE
    <3>1. u # t /\ mr \in Share(j, u) BY <1>10, <1>11, <2>1
    <3> QED BY <1>1, <1>3, <3>1, ShareTiles
  <2> QED BY <2>1
<1>13. \A x : x # mr => \A u \in ThreadsOf(j) : x \in pending'[u] <=> x \in pending[u]
  BY <1>10
<1>14. ASSUME call > 0, ~faulted, Exact(j),
              NEW m \in Matrices(j), NEW r \in Rows(j, m)
       PROVE  IF \E u \in ThreadsOf(j) : <<m, r>> \in pending'[u]
              THEN Adds(j) /\ ~KernelZeroes(j) => out'[m][r] = {}
              ELSE out'[m][r] = {call}
  <2>0. /\ IF \E u \in ThreadsOf(j) : <<m, r>> \in pending[u]
           THEN Adds(j) /\ ~KernelZeroes(j) => out[m][r] = {}
           ELSE out[m][r] = {call}
    BY <1>14 DEF KernelInvariant
  <2>1. CASE <<m, r>> = mr
    <3>1. m = n /\ r = s BY <1>5, <2>1
    <3>2. \E u \in ThreadsOf(j) : <<m, r>> \in pending[u] BY <1>1, <1>2, <2>1
    <3>3. old = {} BY <2>0, <3>1, <3>2
    <3>4. out'[m][r] = {call} BY <1>9, <1>14, <3>1, <3>3 DEF Exact
    <3> QED BY <1>12, <2>1, <3>4
  <2>2. CASE <<m, r>> # mr
    <3>1. out'[m][r] = out[m][r] BY <1>5, <1>9, <2>2
    <3>2. (\E u \in ThreadsOf(j) : <<m, r>> \in pending'[u])
            <=> (\E u \in ThreadsOf(j) : <<m, r>> \in pending[u])
      BY <1>13, <2>2
    <3> QED BY <2>0, <3>1, <3>2
  <2> QED BY <2>1, <2>2
<1>15. call' = call /\ job' = j BY <1>2
<1> QED BY <1>1, <1>7, <1>9, <1>10, <1>11, <1>14, <1>15 DEF KernelInvariant

LEMMA KernelStep == KernelInvariant /\ [GemvNext]_gemvVars => KernelInvariant'
<1> SUFFICES ASSUME KernelInvariant, [GemvNext]_gemvVars PROVE KernelInvariant'
  OBVIOUS
<1>1. CASE Call BY <1>1, CallKeeps
<1>2. CASE \E t \in DOMAIN pending : ComputeRow(t) BY <1>2, ComputeKeeps
<1>3. CASE UNCHANGED gemvVars
  BY <1>3 DEF gemvVars, KernelInvariant
<1> QED BY <1>1, <1>2, <1>3 DEF GemvNext

LEMMA KernelInvariantImplies == KernelInvariant => GemvInv
<1> SUFFICES ASSUME KernelInvariant PROVE GemvInv
  OBVIOUS
<1>1. /\ IsJob(job) /\ DOMAIN pending = ThreadsOf(job)
      /\ faulted => job.dtype = "dense" /\ ~EnoughRows(job)
      /\ \A t \in ThreadsOf(job) : pending[t] \subseteq Share(job, t)
  BY DEF KernelInvariant
<1>2. ThreadsDisjoint BY <1>1, ShareTiles DEF ThreadsDisjoint
<1>3. RowsComputed
  <2> SUFFICES ASSUME Idle, call > 0, ~faulted, Exact(job),
                      NEW m \in Matrices(job), NEW r \in Rows(job, m)
               PROVE  out[m][r] = {call}
    BY DEF RowsComputed
  <2>1. ~ \E t \in ThreadsOf(job) : <<m, r>> \in pending[t] BY <1>1 DEF Idle
  <2> QED BY <2>1 DEF KernelInvariant
<1> QED BY <1>2, <1>3 DEF GemvInv

\* For every driver, kernel, height and number of threads: no two threads of a
\* product write the same row through their raw pointers, none writes outside the
\* output, and a call that returns has put its product, and nothing of an earlier
\* one, in every row (but in the two drivers that leave a buffer that is added to
\* as it was, for a matrix that fallback_gemv takes for Q4_K, and where too few rows
\* of a dense matrix make a thread compute a negative count).
THEOREM ProductsComputed == KernelSpec => []GemvInv
<1> QED BY KernelStart, KernelStep, KernelInvariantImplies, PTL DEF KernelSpec

----------------------------------------------------------------------------
(* What FoldLeft computes *)

\* A set of numbers has a least one.
LEMMA LeastNumber ==
  ASSUME NEW T, T \subseteq Nat, T # {}
  PROVE  \E m \in T : \A k \in T : m <= k
<1> DEFINE R == OpToRel(<, Nat)
<1>1. IsWellFoundedOn(R, Nat) BY NatLessThanWellFounded, Zenon
<1>2. \A a, b \in Nat : a < b => <<a, b>> \in R BY Zenon DEF OpToRel
<1> HIDE DEF R
<1>3. PICK x \in T : \A y \in T : ~ (<<y, x>> \in R) BY <1>1, WFMin, Zenon
<1>4. ASSUME NEW y \in T PROVE x <= y
  <2>1. x \in Nat /\ y \in Nat OBVIOUS
  <2>2. ~ (y < x) BY <1>2, <1>3, <2>1, Zenon
  <2> QED BY <2>1, <2>2
<1> QED BY <1>4

LEMMA MaxIsLast ==
  ASSUME NEW n \in Nat, NEW t \in SUBSET (1..n), n \in t
  PROVE  Max(t) = n
<1> DEFINE IsMax(x) == x \in t /\ \A y \in t : x >= y
<1>1. IsMax(n) OBVIOUS
<1>2. \A x : IsMax(x) => x = n
  <2> SUFFICES ASSUME NEW x, IsMax(x) PROVE x = n OBVIOUS
  <2>1. x \in 1..n /\ x >= n OBVIOUS
  <2> QED BY <2>1
<1>3. Max(t) = CHOOSE x : IsMax(x) BY DEF Max
<1> HIDE DEF IsMax
<1> QED BY <1>1, <1>2, <1>3

\* The operators that the code's loops fold over a sequence, told apart by a name;
\* p is the parameter of those that have one.
Folded(kind, p, acc, x) ==
  CASE kind = "average" -> Averaged(acc, x)
    [] kind = "page" -> AddNew(acc, x)
    [] kind = "match" -> AddPages(acc, x, p)
    [] kind = "candidate" -> Attend(acc, x, p)
    [] kind = "mass" -> acc + p[x]
    [] kind = "concat" -> acc \o x
    [] kind = "groups" -> NextLayer(p, acc, x)

\* g is how FoldLeft folds what s has at any set of places.
FoldOn(kind, p, base, g, s, n) ==
  g = [t \in SUBSET (1..n) |-> IF t = {} THEN base
                               ELSE Folded(kind, p, g[t \ {Max(t)}], s[Max(t)])]

\* There is such a g: the last place is folded last.
LEMMA FoldExists ==
  ASSUME NEW kind, NEW p, NEW base, NEW s, NEW n \in Nat
  PROVE  \E g : FoldOn(kind, p, base, g, s, n)
<1> DEFINE T == {k \in Nat : ~ \E g : FoldOn(kind, p, base, g, s, k)}
<1> SUFFICES ASSUME T # {} PROVE FALSE OBVIOUS
<1>1. PICK k \in T : \A j \in T : k <= j BY LeastNumber
<1>2. k # 0
  <2> SUFFICES ASSUME k = 0 PROVE FALSE OBVIOUS
  <2> DEFINE g == [t \in SUBSET (1..k) |-> base]
  <2>1. \A t \in SUBSET (1..k) : t = {} BY <1>1
  <2>2. g = [t \in SUBSET (1..k) |->
              IF t = {} THEN base ELSE Folded(kind, p, g[t \ {Max(t)}], s[Max(t)])]
    BY <2>1
  <2>3. FoldOn(kind, p, base, g, s, k) BY <2>2 DEF FoldOn
  <2> QED BY <1>1, <2>3
<1>3. k \in Nat /\ k - 1 \in Nat /\ k - 1 \notin T BY <1>1, <1>2
<1>4. PICK g : FoldOn(kind, p, base, g, s, k - 1) BY <1>3
<1> DEFINE f == [t \in SUBSET (1..k) |->
                   IF k \in t THEN Folded(kind, p, g[t \ {k}], s[k]) ELSE g[t]]
<1>5. ASSUME NEW t \in SUBSET (1..k)
      PROVE  f[t] = IF t = {} THEN base ELSE Folded(kind, p, f[t \ {Max(t)}], s[Max(t)])
  <2>1. CASE k \in t
    <3>1. Max(t) = k BY <1>3, <2>1, MaxIsLast
    <3>2. t \ {k} \in SUBSET (1..k) /\ k \notin t \ {k} OBVIOUS
    <3>3. f[t \ {k}] = g[t \ {k}] BY <3>2
    <3>4. f[t] = Folded(kind, p, g[t \ {k}], s[k]) BY <2>1
    <3> QED BY <2>1, <3>1, <3>3, <3>4, Zenon
  <2>2. CASE k \notin t
    <3>1. t \in SUBSET (1..(k - 1)) BY <1>3, <2>2
    <3>2. g[t] = IF t = {} THEN base ELSE Folded(kind, p, g[t \ {Max(t)}], s[Max(t)])
      BY <1>4, <3>1 DEF FoldOn
    <3>3. f[t] = g[t] BY <2>2
    <3>4. f[t \ {Max(t)}] = g[t \ {Max(t)}] BY <2>2
    <3> QED BY <3>2, <3>3, <3>4, Zenon
  <2> QED BY <2>1, <2>2
<1>6. f = [t \in SUBSET (1..k) |->
            IF t = {} THEN base ELSE Folded(kind, p, f[t \ {Max(t)}], s[Max(t)])]
  <2> HIDE DEF T
  <2> DEFINE h == [t \in SUBSET (1..k) |->
                     IF t = {} THEN base ELSE Folded(kind, p, f[t \ {Max(t)}], s[Max(t)])]
  <2>1. \A t \in SUBSET (1..k) : f[t] = h[t] BY <1>5
  <2> QED BY <2>1
<1>7. FoldOn(kind, p, base, f, s, k) BY <1>6 DEF FoldOn
<1> QED BY <1>1, <1>7

\* What is folded of the first n places depends on nothing behind them.
LEMMA FoldsAgree ==
  ASSUME NEW kind, NEW p, NEW base, NEW s, NEW u, NEW n \in Nat, NEW m \in Nat, n <= m,
         \A i \in 1..n : s[i] = u[i],
         NEW g, NEW h, FoldOn(kind, p, base, g, s, n), FoldOn(kind, p, base, h, u, m)
  PROVE  g[1..n] = h[1..n]
<1> DEFINE T == {k \in 0..n : g[1..k] # h[1..k]}
<1> SUFFICES ASSUME T # {} PROVE FALSE OBVIOUS
<1>1. T \subseteq Nat OBVIOUS
<1>2. PICK k \in T : \A j \in T : k <= j BY <1>1, LeastNumber
<1>3. k \in 0..n /\ 1..k \in SUBSET (1..n) /\ 1..k \in SUBSET (1..m) BY <1>2
<1>4. /\ g[1..k] = IF 1..k = {} THEN base ELSE Folded(kind, p, g[(1..k) \ {Max(1..k)}], s[Max(1..k)])
      /\ h[1..k] = IF 1..k = {} THEN base ELSE Folded(kind, p, h[(1..k) \ {Max(1..k)}], u[Max(1..k)])
  BY <1>3, Zenon DEF FoldOn
<1>5. k # 0
  <2> SUFFICES ASSUME k = 0 PROVE FALSE OBVIOUS
  <2>1. 1..k = {} OBVIOUS
  <2>2. g[1..k] = h[1..k] BY <1>4, <2>1, Zenon
  <2> QED BY <1>2, <2>2
<1>6. k - 1 \in 0..n /\ k - 1 \notin T /\ k \in 1..n /\ 1..k # {} BY <1>2, <1>3, <1>5
<1>7. g[1..(k - 1)] = h[1..(k - 1)] BY <1>6
<1>8. Max(1..k) = k BY <1>3, <1>6, MaxIsLast
<1>9. (1..k) \ {k} = 1..(k - 1) BY <1>6
<1>10. g[1..k] = h[1..k] BY <1>4, <1>6, <1>7, <1>8, <1>9, Zenon
<1> QED BY <1>2, <1>10

\* What holds of the base and is kept by every step holds of the result.
LEMMA FoldKeeps ==
  ASSUME NEW kind, NEW p, NEW base, NEW s, NEW n \in Nat, NEW g,
         FoldOn(kind, p, base, g, s, n), NEW G, base \in G,
         \A acc \in G, i \in 1..n : Folded(kind, p, acc, s[i]) \in G
  PROVE  g[1..n] \in G
<1> DEFINE T == {k \in 0..n : g[1..k] \notin G}
<1> SUFFICES ASSUME T # {} PROVE FALSE OBVIOUS
<1>1. T \subseteq Nat OBVIOUS
<1>2. PICK k \in T : \A j \in T : k <= j BY <1>1, LeastNumber
<1>3. k \in 0..n /\ 1..k \in SUBSET (1..n) BY <1>2
<1>4. g[1..k] = IF 1..k = {} THEN base ELSE Folded(kind, p, g[(1..k) \ {Max(1..k)}], s[Max(1..k)])
  BY <1>3, Zenon DEF FoldOn
<1>5. k # 0
  <2> SUFFICES ASSUME k = 0 PROVE FALSE OBVIOUS
  <2>1. 1..k = {} OBVIOUS
  <2>2. g[1..k] = base BY <1>4, <2>1, Zenon
  <2> QED BY <1>2, <2>2
<1>6. k - 1 \in 0..n /\ k \in 1..n /\ k \in 1..k BY <1>3, <1>5
<1>12. k - 1 \notin T BY <1>2, <1>3, <1>6
<1>7. g[1..(k - 1)] \in G
  <2>1. \A j \in 0..n : j \notin T => g[1..j] \in G OBVIOUS
  <2> HIDE DEF T
  <2> QED BY <1>6, <1>12, <2>1, Zenon
<1>8. Max(1..k) = k BY <1>3, <1>6, MaxIsLast
<1>9. (1..k) \ {k} = 1..(k - 1) BY <1>6
<1>10. g[1..k] = Folded(kind, p, g[1..(k - 1)], s[k]) BY <1>4, <1>6, <1>8, <1>9, Zenon
<1>11. g[1..k] \in G BY <1>6, <1>7, <1>10
<1> QED BY <1>2, <1>11

\* FoldLeft itself, for each of the operators.
LEMMA AverageIsChosen ==
  ASSUME NEW s, NEW n \in Nat, DOMAIN s = 1..n
  PROVE  FoldLeft(Averaged, 0, s) = (CHOOSE f : FoldOn("average", 0, 0, f, s, n))[1..n]
<1> DEFINE Fold(g) == g = [t \in SUBSET (1..n) |-> IF t = {} THEN 0
                                     ELSE Averaged(g[t \ {Max(t)}], s[Max(t)])]
<1>1. FoldLeft(Averaged, 0, s) = (CHOOSE g : Fold(g))[1..n]
  BY DEF FoldLeft, MapThenFoldSet
<1>2. \A acc, x : Folded("average", 0, acc, x) = Averaged(acc, x) BY DEF Folded
<1>3. \A g : FoldOn("average", 0, 0, g, s, n) <=> Fold(g) BY <1>2 DEF FoldOn
<1> HIDE DEF Fold
<1>4. (CHOOSE f : FoldOn("average", 0, 0, f, s, n)) = (CHOOSE g : Fold(g))
  BY <1>3, Zenon
<1> QED BY <1>1, <1>4

LEMMA PagesIsChosen ==
  ASSUME NEW s, NEW n \in Nat, DOMAIN s = 1..n, NEW base
  PROVE  FoldLeft(AddNew, base, s) = (CHOOSE f : FoldOn("page", 0, base, f, s, n))[1..n]
<1> DEFINE Fold(g) == g = [t \in SUBSET (1..n) |-> IF t = {} THEN base
                                     ELSE AddNew(g[t \ {Max(t)}], s[Max(t)])]
<1>1. FoldLeft(AddNew, base, s) = (CHOOSE g : Fold(g))[1..n]
  BY DEF FoldLeft, MapThenFoldSet
<1>2. \A acc, x : Folded("page", 0, acc, x) = AddNew(acc, x) BY DEF Folded
<1>3. \A g : FoldOn("page", 0, base, g, s, n) <=> Fold(g) BY <1>2 DEF FoldOn
<1> HIDE DEF Fold
<1>4. (CHOOSE f : FoldOn("page", 0, base, f, s, n)) = (CHOOSE g : Fold(g))
  BY <1>3, Zenon
<1> QED BY <1>1, <1>4

LEMMA MatchesIsChosen ==
  ASSUME NEW s, NEW n \in Nat, DOMAIN s = 1..n, NEW base, NEW p
  PROVE  FoldLeft(LAMBDA acc, m : AddPages(acc, m, p), base, s) = (CHOOSE f : FoldOn("match", p, base, f, s, n))[1..n]
<1> DEFINE Fold(g) == g = [t \in SUBSET (1..n) |-> IF t = {} THEN base
                                     ELSE AddPages(g[t \ {Max(t)}], s[Max(t)], p)]
<1>1. FoldLeft(LAMBDA acc, m : AddPages(acc, m, p), base, s) = (CHOOSE g : Fold(g))[1..n]
  BY DEF FoldLeft, MapThenFoldSet
<1>2. \A acc, x : Folded("match", p, acc, x) = AddPages(acc, x, p) BY DEF Folded
<1>3. \A g : FoldOn("match", p, base, g, s, n) <=> Fold(g) BY <1>2 DEF FoldOn
<1> HIDE DEF Fold
<1>4. (CHOOSE f : FoldOn("match", p, base, f, s, n)) = (CHOOSE g : Fold(g))
  BY <1>3, Zenon
<1> QED BY <1>1, <1>4

LEMMA CandidatesIsChosen ==
  ASSUME NEW s, NEW n \in Nat, DOMAIN s = 1..n, NEW base, NEW p
  PROVE  FoldLeft(LAMBDA acc, dp : Attend(acc, dp, p), base, s) = (CHOOSE f : FoldOn("candidate", p, base, f, s, n))[1..n]
<1> DEFINE Fold(g) == g = [t \in SUBSET (1..n) |-> IF t = {} THEN base
                                     ELSE Attend(g[t \ {Max(t)}], s[Max(t)], p)]
<1>1. FoldLeft(LAMBDA acc, dp : Attend(acc, dp, p), base, s) = (CHOOSE g : Fold(g))[1..n]
  BY DEF FoldLeft, MapThenFoldSet
<1>2. \A acc, x : Folded("candidate", p, acc, x) = Attend(acc, x, p) BY DEF Folded
<1>3. \A g : FoldOn("candidate", p, base, g, s, n) <=> Fold(g) BY <1>2 DEF FoldOn
<1> HIDE DEF Fold
<1>4. (CHOOSE f : FoldOn("candidate", p, base, f, s, n)) = (CHOOSE g : Fold(g))
  BY <1>3, Zenon
<1> QED BY <1>1, <1>4

----------------------------------------------------------------------------
(* The virtual NPU: the average of the samples *)

\* Nothing averages to 0, and one more sample is averaged in last.
LEMMA FoldOfNothing == FoldLeft(Averaged, 0, <<>>) = 0
<1> DEFINE s == <<>>
<1>1. PICK n \in Nat : n = 0 OBVIOUS
<1>2. DOMAIN s = 1..n BY <1>1
<1> HIDE DEF s
<1>3. FoldLeft(Averaged, 0, s) = (CHOOSE f : FoldOn("average", 0, 0, f, s, n))[1..n]
  BY <1>2, AverageIsChosen, Zenon
<1>4. PICK g : g = (CHOOSE f : FoldOn("average", 0, 0, f, s, n)) OBVIOUS
<1>5. FoldOn("average", 0, 0, g, s, n) BY <1>4, FoldExists, Zenon
<1>6. 1..n = {} /\ 1..n \in SUBSET (1..n) BY <1>1
<1>7. g[1..n] = 0 BY <1>5, <1>6, Zenon DEF FoldOn
<1>8. FoldLeft(Averaged, 0, s) = 0 BY <1>3, <1>4, <1>7
<1> QED BY <1>8 DEF s

LEMMA FoldOfAppend ==
  ASSUME NEW S, NEW s \in Seq(S), NEW x \in S
  PROVE  FoldLeft(Averaged, 0, Append(s, x)) = Averaged(FoldLeft(Averaged, 0, s), x)
<1>1. PICK n \in Nat : n = Len(s) OBVIOUS
<1>2. PICK u : u = Append(s, x) OBVIOUS
<1>3. /\ DOMAIN s = 1..n /\ DOMAIN u = 1..(n + 1) /\ u[n + 1] = x
      /\ \A i \in 1..n : s[i] = u[i]
  BY <1>1, <1>2
<1>4. FoldLeft(Averaged, 0, s) = (CHOOSE f : FoldOn("average", 0, 0, f, s, n))[1..n]
  BY <1>3, AverageIsChosen, Zenon
<1>5. PICK m \in Nat : m = n + 1 OBVIOUS
<1>6. DOMAIN u = 1..m BY <1>3, <1>5
<1>7. FoldLeft(Averaged, 0, u) = (CHOOSE f : FoldOn("average", 0, 0, f, u, m))[1..m]
  BY <1>6, AverageIsChosen, Zenon
<1>8. PICK g : g = (CHOOSE f : FoldOn("average", 0, 0, f, s, n)) OBVIOUS
<1>9. FoldOn("average", 0, 0, g, s, n) BY <1>8, FoldExists, Zenon
<1>10. PICK h : h = (CHOOSE f : FoldOn("average", 0, 0, f, u, m)) OBVIOUS
<1>11. FoldOn("average", 0, 0, h, u, m) BY <1>10, FoldExists, Zenon
<1>12. n <= m BY <1>5
<1>13. g[1..n] = h[1..n] BY <1>3, <1>9, <1>11, <1>12, FoldsAgree
<1>14. /\ 1..m \in SUBSET (1..m)
       /\ (1..m) \ {m} = 1..n
       /\ m \in 1..m
  BY <1>5
<1>15. Max(1..m) = m BY <1>14, MaxIsLast
<1>17. h[1..m] = Folded("average", 0, h[1..n], u[m])
  BY <1>11, <1>14, <1>15, Zenon DEF FoldOn
<1>16. h[1..m] = Averaged(h[1..n], u[m]) BY <1>17 DEF Folded
<1> QED BY <1>2, <1>3, <1>4, <1>5, <1>7, <1>8, <1>10, <1>13, <1>16

\* What a thread may hold between its steps.
RecordSteps ==
  {NotRecording} \cup [step : {"swap"}, sample : Samples, old : Nat] \cup [step : {"read"}]
    \cup [step : {"threads"}, avg : Nat] \cup [step : {"store"}, nt : MinThreads..MaxThreads]

NpuTyped ==
  /\ ewma \in Nat /\ folded \in Seq(Samples)
  /\ suggested \in MinThreads..MaxThreads
  /\ at \in [Recorders -> RecordSteps]

NpuIInv == NpuTyped /\ AverageIsFold

LEMMA StepFields ==
  ASSUME NEW a \in RecordSteps
  PROVE  /\ a.step = "swap" => a.sample \in Samples /\ a.old \in Nat
         /\ a.step = "threads" => a.avg \in Nat
         /\ a.step = "store" => a.nt \in MinThreads..MaxThreads
BY DEF RecordSteps, NotRecording

LEMMA AveragedType ==
  ASSUME NEW old \in Nat, NEW sample \in Nat
  PROVE  Averaged(old, sample) \in Nat
<1>1. PICK a \in Nat : a = 7 * old OBVIOUS
<1>2. PICK b : b = 8 OBVIOUS
<1>3. b \in Nat \ {0} BY <1>2
<1>4. a \div b \in Nat BY <1>1, <1>3, DivMod
<1> QED BY <1>1, <1>2, <1>4 DEF Averaged

LEMMA AdjustedType ==
  ASSUME NEW avg \in Nat, NEW nt \in MinThreads..MaxThreads
  PROVE  Adjusted(avg, nt) \in MinThreads..MaxThreads
<1>1. MinThreads \in Nat /\ MaxThreads \in Nat BY NpuAssumption
<1>2. nt < MaxThreads => nt + 1 \in MinThreads..MaxThreads BY <1>1
<1>3. nt > MinThreads => nt - 1 \in MinThreads..MaxThreads BY <1>1
<1> QED BY <1>2, <1>3 DEF Adjusted

LEMMA NpuStart == NpuInit => NpuIInv
<1> SUFFICES ASSUME NpuInit PROVE NpuIInv OBVIOUS
<1>1. AverageIsFold BY FoldOfNothing, Zenon DEF NpuInit, AverageIsFold
<1>2. NotRecording \in RecordSteps BY DEF RecordSteps
<1>3. NpuTyped BY <1>2, NpuAssumption DEF NpuInit, NpuTyped
<1> QED BY <1>1, <1>3 DEF NpuIInv

LEMMA NpuStep == NpuIInv /\ [NpuNext]_npuVars => NpuIInv'
<1> SUFFICES ASSUME NpuIInv, [NpuNext]_npuVars PROVE NpuIInv' OBVIOUS
<1> USE DEF NpuIInv
<1>1. ASSUME NEW r \in Recorders, NEW s \in Samples, RecordLoad(r, s) PROVE NpuIInv'
  <2>1. [step |-> "swap", sample |-> s, old |-> ewma] \in RecordSteps
    BY DEF RecordSteps, NpuTyped
  <2>2. NpuTyped' BY <1>1, <2>1 DEF RecordLoad, NpuTyped
  <2>3. AverageIsFold' BY <1>1 DEF RecordLoad, AverageIsFold
  <2> QED BY <2>2, <2>3
<1>2. ASSUME NEW r \in Recorders, RecordSwap(r) PROVE NpuIInv'
  <2>1. at[r].sample \in Samples /\ at[r].old \in Nat /\ ewma = at[r].old
    BY <1>2, StepFields DEF RecordSwap, Unchanged, NpuTyped
  <2>2. PICK x \in Samples : x = at[r].sample BY <2>1
  <2>3. ewma' = Averaged(ewma, x) /\ folded' = Append(folded, x)
    BY <1>2, <2>1, <2>2 DEF RecordSwap
  <2>4. FoldLeft(Averaged, 0, Append(folded, x)) = Averaged(FoldLeft(Averaged, 0, folded), x)
    BY FoldOfAppend DEF NpuTyped
  <2>5. AverageIsFold' BY <2>3, <2>4 DEF AverageIsFold
  <2>6. ewma' \in Nat
    <3>1. x \in Nat BY NpuAssumption
    <3> QED BY <2>3, <3>1, AveragedType DEF NpuTyped
  <2>7. folded' \in Seq(Samples) BY <2>3 DEF NpuTyped
  <2>8. [step |-> "read"] \in RecordSteps BY DEF RecordSteps
  <2>9. at' \in [Recorders -> RecordSteps] BY <1>2, <2>8 DEF RecordSwap, NpuTyped
  <2>10. suggested' = suggested BY <1>2 DEF RecordSwap
  <2> QED BY <2>5, <2>6, <2>7, <2>9, <2>10 DEF NpuTyped
<1>3. ASSUME NEW r \in Recorders, RecordRetry(r) PROVE NpuIInv'
  <2>1. at[r] \in RecordSteps /\ at[r].step = "swap" BY <1>3 DEF RecordRetry, NpuTyped
  <2>2. at[r] \in [step : {"swap"}, sample : Samples, old : Nat]
    BY <2>1 DEF RecordSteps, NotRecording
  <2>3. [at[r] EXCEPT !.old = ewma] \in [step : {"swap"}, sample : Samples, old : Nat]
    BY <2>2 DEF NpuTyped
  <2>4. [at[r] EXCEPT !.old = ewma] \in RecordSteps BY <2>3 DEF RecordSteps
  <2>5. at' = [at EXCEPT ![r] = [at[r] EXCEPT !.old = ewma]] BY <1>3 DEF RecordRetry
  <2>6. NpuTyped' BY <1>3, <2>4, <2>5 DEF RecordRetry, NpuTyped
  <2>7. AverageIsFold' BY <1>3 DEF RecordRetry, AverageIsFold
  <2> QED BY <2>6, <2>7
<1>4. ASSUME NEW r \in Recorders, RecordRead(r) PROVE NpuIInv'
  <2>1. [step |-> "threads", avg |-> ewma] \in RecordSteps BY DEF RecordSteps, NpuTyped
  <2>2. NpuTyped' BY <1>4, <2>1 DEF RecordRead, NpuTyped
  <2>3. AverageIsFold' BY <1>4 DEF RecordRead, AverageIsFold
  <2> QED BY <2>2, <2>3
<1>5. ASSUME NEW r \in Recorders, RecordThreads(r) PROVE NpuIInv'
  <2>1. at[r].avg \in Nat BY <1>5, StepFields DEF RecordThreads, NpuTyped
  <2>2. Adjusted(at[r].avg, suggested) \in MinThreads..MaxThreads
    BY <2>1, AdjustedType DEF NpuTyped
  <2>3. [step |-> "store", nt |-> Adjusted(at[r].avg, suggested)] \in RecordSteps
    BY <2>2 DEF RecordSteps
  <2>4. NpuTyped' BY <1>5, <2>3 DEF RecordThreads, NpuTyped
  <2>5. AverageIsFold' BY <1>5 DEF RecordThreads, AverageIsFold
  <2> QED BY <2>4, <2>5
<1>6. ASSUME NEW r \in Recorders, RecordStore(r) PROVE NpuIInv'
  <2>1. at[r].nt \in MinThreads..MaxThreads BY <1>6, StepFields DEF RecordStore, NpuTyped
  <2>2. NotRecording \in RecordSteps BY DEF RecordSteps
  <2>3. NpuTyped' BY <1>6, <2>1, <2>2 DEF RecordStore, NpuTyped
  <2>4. AverageIsFold' BY <1>6 DEF RecordStore, AverageIsFold
  <2> QED BY <2>3, <2>4
<1>7. CASE ResetAverage
  <2>1. AverageIsFold' BY <1>7, FoldOfNothing DEF ResetAverage, AverageIsFold
  <2>2. NpuTyped' BY <1>7 DEF ResetAverage, NpuTyped
  <2> QED BY <2>1, <2>2
<1>8. CASE ResetThreads
  <2>1. NpuTyped' BY <1>8, NpuAssumption DEF ResetThreads, NpuTyped
  <2>2. AverageIsFold' BY <1>8 DEF ResetThreads, AverageIsFold
  <2> QED BY <2>1, <2>2
<1>9. CASE UNCHANGED npuVars
  BY <1>9 DEF npuVars, NpuTyped, AverageIsFold
<1> QED BY <1>1, <1>2, <1>3, <1>4, <1>5, <1>6, <1>7, <1>8, <1>9, Zenon DEF NpuNext

\* However the loads, the swaps and the stores of any number of threads and of a
\* reset interleave, the average is that of all the samples swapped in since the
\* last reset, in that order, and the suggestion stays in the range that schedule
\* clamps to.
THEOREM AverageKept == NpuSpec => []NpuInv
<1>1. NpuIInv => NpuInv BY Zenon DEF NpuIInv, NpuInv, NpuTyped, SuggestionInRange
<1> QED BY <1>1, NpuStart, NpuStep, PTL DEF NpuSpec

----------------------------------------------------------------------------
(* The ring of the draft model *)

\* A place less than twice round the ring.
LEMMA WrapsOnce ==
  ASSUME NEW c \in Nat \ {0}, NEW x \in Nat, x < c + c
  PROVE  x % c = IF x < c THEN x ELSE x - c
<1>2. PICK q \in Nat : q = x \div c BY DivMod
<1>3. PICK r \in 0..(c - 1) : r = x % c BY DivMod
<1>4. x = c * q + r BY <1>2, <1>3, DivMod
<1>5. CASE q = 0 BY <1>3, <1>4, <1>5
<1>6. CASE q = 1
  <2>1. c * q = c BY <1>6
  <2> QED BY <1>3, <1>4, <2>1
<1>7. CASE q >= 2
  <2>1. PICK k \in Nat : q = k + 2
    <3>1. q - 2 \in Nat /\ q = (q - 2) + 2 BY <1>7
    <3> QED BY <3>1
  <2>2. c * q = c * k + 2 * c /\ c * k \in Nat BY <2>1
  <2> QED BY <1>3, <1>4, <2>2
<1> QED BY <1>2, <1>5, <1>6, <1>7

Observations == [hash : SUBSET (1..NumBits), token : Tokens \cup {0}, pos : Nat]

\* The slot of the i-th oldest observation.
Place(hd, l, i) ==
  IF l < Capacity THEN i ELSE IF hd + i < Capacity THEN hd + i ELSE hd + i - Capacity

\* The ring r with its head and length holds the last of the observations hs.
RingGood(r, hd, l, hs) ==
  /\ r \in [Slots -> Observations] /\ hs \in Seq(Observations) /\ hd \in Slots
  /\ l = IF Len(hs) < Capacity THEN Len(hs) ELSE Capacity
  /\ l < Capacity => hd = l
  /\ \A i \in 0..(l - 1) : r[Place(hd, l, i)] = hs[Len(hs) - l + i + 1]

LEMMA FreshRingGood == RingGood(FreshRing, 0, 0, <<>>)
<1>1. Capacity \in Nat \ {0} /\ NumBits \in Nat BY DraftingAssumption
<1>2. Empty \in Observations BY DEF Empty, Observations
<1>3. FreshRing \in [Slots -> Observations] BY <1>2 DEF FreshRing
<1>4. <<>> \in Seq(Observations) /\ Len(<<>>) = 0 OBVIOUS
<1>5. 0 \in Slots BY <1>1 DEF Slots
<1>6. \A i \in 0..(0 - 1) : FALSE OBVIOUS
<1> QED BY <1>1, <1>3, <1>4, <1>5, <1>6 DEF RingGood

\* The model's own words for the places.
LEMMA PlaceIsOrdered ==
  ASSUME RingGood(ring, head, len, hist), NEW i \in 0..(len - 1)
  PROVE  OrderedIdx(i) = Place(head, len, i) /\ At(i) = hist[Len(hist) - len + i + 1]
<1>1. PICK c \in Nat \ {0} : c = Capacity BY DraftingAssumption
<1>2. len \in 0..c /\ head \in 0..(c - 1)
  <2>1. Len(hist) \in Nat BY DEF RingGood
  <2> QED BY <1>1, <2>1 DEF RingGood, Slots
<1>6. head + i \in Nat /\ head + i < c + c BY <1>2
<1>3. PICK x \in Nat : x = head + i /\ x < c + c BY <1>6, Zenon
<1>4. x % c = IF x < c THEN x ELSE x - c BY <1>1, <1>3, WrapsOnce, Zenon
<1>5. OrderedIdx(i) = Place(head, len, i) BY <1>1, <1>2, <1>3, <1>4 DEF OrderedIdx, Place
<1> QED BY <1>5 DEF At, RingGood

\* One more observation.
LEMMA RingStep ==
  ASSUME NEW r, NEW hd, NEW l, NEW hs, RingGood(r, hd, l, hs), NEW o \in Observations
  PROVE  RingGood([r EXCEPT ![hd] = o], (hd + 1) % Capacity, Min({l + 1, Capacity}),
                  Append(hs, o))
<1>1. PICK c \in Nat \ {0} : c = Capacity BY DraftingAssumption
<1>2. PICK n \in Nat : n = Len(hs) BY DEF RingGood
<1>3. /\ l \in 0..c /\ hd \in 0..(c - 1) /\ hd \in Slots
      /\ l = (IF n < c THEN n ELSE c) /\ (l < c => hd = l)
  BY <1>1, <1>2 DEF RingGood, Slots
<1>4. PICK hd1 : hd1 = IF hd + 1 < c THEN hd + 1 ELSE 0 OBVIOUS
<1>5. (hd + 1) % c = hd1
  <2>1. PICK x \in Nat : x = hd + 1 /\ x < c + c BY <1>3
  <2>2. x % c = IF x < c THEN x ELSE x - c BY <2>1, WrapsOnce, Zenon
  <2> QED BY <1>3, <1>4, <2>1, <2>2
<1>6. PICK l1 : l1 = IF l + 1 <= c THEN l + 1 ELSE c OBVIOUS
<1>7. Min({l + 1, c}) = l1
  <2>1. l + 1 \in Int /\ c \in Int BY <1>3
  <2> QED BY <1>6, <2>1, MinOfPair
<1>8. PICK r1 : r1 = [r EXCEPT ![hd] = o] OBVIOUS
<1>9. /\ r1 \in [Slots -> Observations] /\ r1[hd] = o
      /\ \A k \in Slots : k # hd => r1[k] = r[k]
  BY <1>3, <1>8 DEF RingGood
<1>10. PICK h1 : h1 = Append(hs, o) OBVIOUS
<1>11. /\ h1 \in Seq(Observations) /\ Len(h1) = n + 1 /\ h1[n + 1] = o
       /\ \A k \in 1..n : h1[k] = hs[k]
  BY <1>2, <1>10 DEF RingGood
<1>12. hd1 \in Slots BY <1>1, <1>3, <1>4 DEF Slots
<1>13. l1 = (IF n + 1 < c THEN n + 1 ELSE c) /\ (l1 < c => hd1 = l1) /\ l1 \in 1..c
  BY <1>3, <1>4, <1>6
<1>14. ASSUME NEW i \in 0..(l1 - 1)
       PROVE  r1[Place(hd1, l1, i)] = h1[(n + 1) - l1 + i + 1]
  <2>1. CASE i = l1 - 1
    <3>1. Place(hd1, l1, i) = hd BY <1>1, <1>3, <1>4, <1>6, <1>13, <2>1 DEF Place
    <3>2. (n + 1) - l1 + i + 1 = n + 1 BY <1>13, <2>1
    <3> QED BY <1>9, <1>11, <3>1, <3>2
  <2>2. CASE i # l1 - 1
    <3>1. PICK j : j = IF l < c THEN i ELSE i + 1 OBVIOUS
    <3>2. j \in 0..(l - 1) /\ (n + 1) - l1 + i + 1 = n - l + j + 1
      BY <1>3, <1>6, <1>13, <2>2, <3>1
    <3>3. Place(hd1, l1, i) = Place(hd, l, j)
      BY <1>1, <1>3, <1>4, <1>6, <1>13, <2>2, <3>1, <3>2 DEF Place
    <3>4. Place(hd, l, j) \in Slots /\ Place(hd, l, j) # hd
      BY <1>1, <1>3, <1>6, <1>13, <2>2, <3>1, <3>2 DEF Place, Slots
    <3>5. n - l + j + 1 \in 1..n BY <1>3, <3>2
    <3>6. r[Place(hd, l, j)] = hs[n - l + j + 1] BY <1>2, <3>2 DEF RingGood
    <3> QED BY <1>9, <1>11, <3>2, <3>3, <3>4, <3>5, <3>6
  <2> QED BY <2>1, <2>2
<1>15. RingGood(r1, hd1, l1, h1)
  <2>1. l1 = IF Len(h1) < Capacity THEN Len(h1) ELSE Capacity BY <1>1, <1>11, <1>13
  <2>2. \A i \in 0..(l1 - 1) : r1[Place(hd1, l1, i)] = h1[Len(h1) - l1 + i + 1]
    <3> SUFFICES ASSUME NEW i \in 0..(l1 - 1)
                 PROVE  r1[Place(hd1, l1, i)] = h1[Len(h1) - l1 + i + 1]
      OBVIOUS
    <3>1. r1[Place(hd1, l1, i)] = h1[(n + 1) - l1 + i + 1] BY <1>14
    <3>2. Len(h1) = n + 1 BY <1>11
    <3> QED BY <3>1, <3>2, Zenon
  <2>3. l1 < Capacity => hd1 = l1 BY <1>1, <1>13
  <2> QED BY <1>9, <1>11, <1>12, <2>1, <2>2, <2>3 DEF RingGood
<1> QED BY <1>1, <1>5, <1>7, <1>8, <1>10, <1>15

LEMMA SuccessorMod ==
  ASSUME NEW n \in Nat, NEW b \in Nat \ {0}
  PROVE  /\ n % b \in 0..(b - 1)
         /\ (n + 1) % b = IF (n % b) + 1 = b THEN 0 ELSE (n % b) + 1
<1>1. PICK q \in Nat, r \in 0..(b - 1) : q = n \div b /\ r = n % b BY DivMod
<1>2. n = b * q + r BY <1>1, DivMod
<1>3. PICK m \in Nat : m = n + 1 OBVIOUS
<1>4. PICK u \in Nat, v \in 0..(b - 1) : u = m \div b /\ v = m % b BY DivMod
<1>5. m = b * u + v BY <1>4, DivMod
<1>6. b * u + v = b * q + r + 1 BY <1>2, <1>3, <1>5
<1>7. v = IF r + 1 = b THEN 0 ELSE r + 1
  <2>1. CASE u = q BY <1>6, <2>1
  <2>2. CASE u < q
    <3>1. PICK k \in Nat : q = u + 1 + k
      <4>1. q - u - 1 \in Nat /\ q = u + 1 + (q - u - 1) BY <1>1, <1>4, <2>2
      <4> QED BY <4>1
    <3>2. PICK w \in Nat : w = b * u OBVIOUS
    <3>3. PICK z \in Nat : z = b * k OBVIOUS
    <3>4. b * q = w + b + z BY <3>1, <3>2, <3>3
    <3> QED BY <1>6, <3>2, <3>4
  <2>3. CASE u > q
    <3>1. PICK k \in Nat : u = q + 1 + k
      <4>1. u - q - 1 \in Nat /\ u = q + 1 + (u - q - 1) BY <1>1, <1>4, <2>3
      <4> QED BY <4>1
    <3>2. PICK w \in Nat : w = b * q OBVIOUS
    <3>3. PICK z \in Nat : z = b * k OBVIOUS
    <3>4. b * u = w + b + z BY <3>1, <3>2, <3>3
    <3>5. w + b + z + v = w + r + 1 BY <1>6, <3>2, <3>4
    <3> QED BY <3>5
  <2> QED BY <1>1, <1>4, <2>1, <2>2, <2>3
<1> QED BY <1>1, <1>3, <1>4, <1>7

\* Between two saves that succeed the ring observes no more than SaveEvery that are
\* counted, because the count goes on from the length of the ring, and the one after
\* the prompt, which is not counted.
Saving == pc \in {"create", "write", "rename"}
Filed == IF file.kind = "whole" THEN Len(file.hist) ELSE 0
SinceSaved == IF Saving THEN SaveEvery ELSE count % SaveEvery
Uncounted == IF pc = "prefill" THEN 0 ELSE 1

RingInv == RingGood(ring, head, len, hist)
FileInv ==
  /\ file = Absent \/ (file.kind = "whole" /\ RingGood(file.ring, file.head, file.len, file.hist))
  /\ pc = "rename" => tmp = "whole"
StepInv ==
  /\ pos \in Nat /\ count \in Nat
  /\ pc \in {"prefill", "sample", "create", "write", "rename", "predict"}
  /\ pc \notin {"prefill", "sample"} => Len(hist) # 0
SavedInv == ~ unsaved => Len(hist) <= Filed + SinceSaved + Uncounted

LEMMA DraftingStart == DraftingInit => RingInv /\ FileInv /\ StepInv /\ SavedInv
<1> SUFFICES ASSUME DraftingInit PROVE RingInv /\ FileInv /\ StepInv /\ SavedInv OBVIOUS
<1>1. RingInv BY FreshRingGood DEF DraftingInit, RingInv
<1>2. FileInv BY DEF DraftingInit, FileInv, Begin
<1>3. StepInv BY DraftingAssumption DEF DraftingInit, StepInv, Begin
<1>4. PICK b \in Nat \ {0} : b = SaveEvery BY DraftingAssumption
<1>5. PICK z \in Nat : z = 0 OBVIOUS
<1>6. z % b \in 0..(b - 1) BY SuccessorMod
<1>7. pc \in {"prefill", "sample"} BY DEF DraftingInit, Begin
<1>8. Uncounted \in {0, 1} BY DEF Uncounted
<1>9. SinceSaved = z % b BY <1>4, <1>5, <1>7 DEF DraftingInit, SinceSaved, Saving
<1>10. Filed = 0 /\ Len(hist) = 0 BY DEF DraftingInit, Filed, Absent
<1>11. SavedInv BY <1>6, <1>8, <1>9, <1>10 DEF SavedInv
<1> QED BY <1>1, <1>2, <1>3, <1>11

LEMMA ObserveStep ==
  ASSUME RingInv, FileInv, StepInv, SavedInv,
         NEW h \in Hashes, NEW said \in Tokens, SampleAndObserve(h, said)
  PROVE  RingInv' /\ FileInv' /\ StepInv' /\ SavedInv'
<1>1. PICK token : token = IF Accepts(Draft(h), said) THEN Draft(h)[1].token ELSE said
  OBVIOUS
<1>2. token = said BY <1>1 DEF Accepts
<1>3. PICK o : o = [hash |-> h, token |-> said, pos |-> pos] OBVIOUS
<1>4. o \in Observations BY <1>3, DraftingAssumption DEF Observations, StepInv
<1>5. /\ ring' = [ring EXCEPT ![head] = o] /\ head' = (head + 1) % Capacity
      /\ len' = Min({len + 1, Capacity}) /\ hist' = Append(hist, o)
      /\ count' = count + 1 /\ pc = "sample"
      /\ pc' = IF Due(count + 1) THEN "create" ELSE "predict"
      /\ UNCHANGED <<pos, file, tmp, unsaved>>
  BY <1>1, <1>2, <1>3, Zenon DEF SampleAndObserve, Observe
<1>6. RingInv' BY <1>4, <1>5, RingStep DEF RingInv
<1>7. PICK n \in Nat : n = Len(hist) BY DEF RingInv, RingGood
<1>8. Len(hist') = n + 1 BY <1>4, <1>5, <1>7 DEF RingInv, RingGood
<1>9. FileInv' BY <1>5 DEF FileInv
<1>10. StepInv' BY <1>5, <1>7, <1>8 DEF StepInv
<1>11. PICK b \in Nat \ {0} : b = SaveEvery BY DraftingAssumption
<1>12. PICK k \in Nat : k = count BY DEF StepInv
<1>13. PICK f \in Nat : f = Filed
  BY DEF FileInv, Filed, RingGood, Absent
<1>14. Filed' = f BY <1>5, <1>13 DEF Filed
<1>15. PICK v \in 0..(b - 1) : v = k % b BY SuccessorMod
<1>16. (k + 1) % b = IF v + 1 = b THEN 0 ELSE v + 1 BY <1>15, SuccessorMod
<1>17. ~ unsaved => n <= f + v + 1
  BY <1>5, <1>7, <1>11, <1>12, <1>13, <1>15 DEF SavedInv, SinceSaved, Saving, Uncounted
<1>18. Due(k + 1) <=> v + 1 = b BY <1>11, <1>15, <1>16 DEF Due
<1>19. SinceSaved' = v + 1
  <2>1. CASE v + 1 = b
    <3>1. pc' = "create" BY <1>5, <1>12, <1>18, <2>1
    <3> QED BY <1>11, <2>1, <3>1 DEF SinceSaved, Saving
  <2>2. CASE v + 1 # b
    <3>1. pc' = "predict" BY <1>5, <1>12, <1>18, <2>2
    <3>2. count' % SaveEvery = v + 1 BY <1>5, <1>11, <1>12, <1>16, <2>2
    <3> QED BY <3>1, <3>2 DEF SinceSaved, Saving
  <2> QED BY <2>1, <2>2
<1>20. SavedInv'
  <2>1. ~ unsaved => n + 1 <= f + (v + 1) + 1 BY <1>17
  <2>2. Uncounted' = 1 BY <1>5 DEF Uncounted
  <2> QED BY <1>5, <1>8, <1>14, <1>19, <2>1, <2>2 DEF SavedInv
<1> QED BY <1>6, <1>9, <1>10, <1>20

LEMMA PrefillObserveStep ==
  ASSUME RingInv, FileInv, StepInv, SavedInv,
         NEW h \in Hashes, NEW said \in Tokens, PrefillObserve(h, said)
  PROVE  RingInv' /\ FileInv' /\ StepInv' /\ SavedInv'
<1>1. PICK o : o = [hash |-> h, token |-> said, pos |-> pos] OBVIOUS
<1>2. o \in Observations BY <1>1, DraftingAssumption DEF Observations, StepInv
<1>3. /\ ring' = [ring EXCEPT ![head] = o] /\ head' = (head + 1) % Capacity
      /\ len' = Min({len + 1, Capacity}) /\ hist' = Append(hist, o)
      /\ pos' = pos + 1 /\ pc = "prefill" /\ pc' = "sample"
      /\ UNCHANGED <<count, file, tmp, unsaved>>
  BY <1>1, Zenon DEF PrefillObserve, Observe
<1>4. RingInv' BY <1>2, <1>3, RingStep DEF RingInv
<1>5. PICK n \in Nat : n = Len(hist) BY DEF RingInv, RingGood
<1>6. Len(hist') = n + 1 BY <1>2, <1>3, <1>5 DEF RingInv, RingGood
<1>7. FileInv' BY <1>3 DEF FileInv
<1>8. StepInv' BY <1>3 DEF StepInv
<1>9. PICK b \in Nat \ {0} : b = SaveEvery BY DraftingAssumption
<1>10. PICK k \in Nat : k = count BY DEF StepInv
<1>11. PICK f \in Nat : f = Filed BY DEF FileInv, Filed, RingGood, Absent
<1>12. Filed' = f BY <1>3, <1>11 DEF Filed
<1>13. PICK v \in 0..(b - 1) : v = k % b BY SuccessorMod
<1>14. SinceSaved = v /\ SinceSaved' = v
  BY <1>3, <1>9, <1>10, <1>13 DEF SinceSaved, Saving
<1>15. ~ unsaved => n <= f + v
  BY <1>3, <1>5, <1>11, <1>13, <1>14 DEF SavedInv, Uncounted
<1>16. Uncounted' = 1 BY <1>3 DEF Uncounted
<1>17. ~ unsaved => n + 1 <= f + v + 1 BY <1>15
<1>18. SavedInv' BY <1>3, <1>6, <1>12, <1>14, <1>16, <1>17 DEF SavedInv
<1> QED BY <1>4, <1>7, <1>8, <1>18

LEMMA LoadStep ==
  ASSUME RingInv, FileInv, StepInv, SavedInv, StartGeneration
  PROVE  RingInv' /\ FileInv' /\ StepInv' /\ SavedInv'
<1>1. PICK w : w = IF file.kind = "whole" THEN file
                   ELSE [ring |-> FreshRing, head |-> 0, len |-> 0, hist |-> <<>>]
  OBVIOUS
<1>2. /\ ring' = w.ring /\ head' = w.head /\ len' = w.len /\ hist' = w.hist /\ count' = w.len
      /\ pos' \in StartPositions /\ pc' \in {"prefill", "sample"} /\ UNCHANGED <<file, tmp>>
  BY <1>1 DEF StartGeneration, LoadDraftCache, Begin
<1>3. RingGood(w.ring, w.head, w.len, w.hist)
  <2>1. CASE file.kind = "whole" BY <1>1, <2>1 DEF FileInv, Absent
  <2>2. CASE file.kind # "whole" BY <1>1, <2>2, FreshRingGood
  <2> QED BY <2>1, <2>2
<1>4. RingInv' BY <1>2, <1>3 DEF RingInv
<1>5. FileInv' BY <1>2 DEF FileInv
<1>6. w.len \in Nat
  <2>1. Len(w.hist) \in Nat /\ Capacity \in Nat BY <1>3, DraftingAssumption DEF RingGood
  <2> QED BY <1>3, <2>1 DEF RingGood
<1>7. StepInv' BY <1>2, <1>6, DraftingAssumption DEF StepInv
<1>8. Len(w.hist) = Filed BY <1>1 DEF Filed
<1>9. PICK b \in Nat \ {0} : b = SaveEvery BY DraftingAssumption
<1>10. PICK k \in Nat : k = w.len BY <1>6
<1>11. PICK v \in 0..(b - 1) : v = k % b BY SuccessorMod
<1>12. PICK n \in Nat : n = Len(w.hist) BY <1>3 DEF RingGood
<1>13. Filed' = n BY <1>2, <1>8, <1>12 DEF Filed
<1>14. SinceSaved' = v BY <1>2, <1>9, <1>10, <1>11 DEF SinceSaved, Saving
<1>15. PICK u \in {0, 1} : u = Uncounted' BY DEF Uncounted
<1>16. n <= n + v + u BY <1>11
<1>17. SavedInv' BY <1>2, <1>12, <1>13, <1>14, <1>15, <1>16 DEF SavedInv
<1> QED BY <1>4, <1>5, <1>7, <1>17

LEMMA SaveStep ==
  ASSUME RingInv, FileInv, StepInv, SavedInv,
         SaveCreate \/ SaveWrite \/ SaveRename \/ SaveFails
  PROVE  RingInv' /\ FileInv' /\ StepInv' /\ SavedInv'
<1>1. UNCHANGED <<ring, head, len, count, pos, predicted, hist>>
  BY DEF SaveCreate, SaveWrite, SaveRename, SaveFails
<1>2. RingInv' BY <1>1 DEF RingInv
<1>3. CASE SaveCreate \/ SaveWrite
  <2>1. UNCHANGED <<file, unsaved>> /\ pc' \in {"write", "rename"} /\ pc \in {"create", "write"}
        /\ (pc' = "rename" => tmp' = "whole")
    BY <1>3 DEF SaveCreate, SaveWrite
  <2>2. FileInv' BY <2>1 DEF FileInv
  <2>3. StepInv' BY <1>1, <2>1 DEF StepInv
  <2>4. SavedInv' BY <1>1, <2>1 DEF SavedInv, Filed, SinceSaved, Saving, Uncounted
  <2> QED BY <1>2, <2>2, <2>3, <2>4
<1>4. CASE SaveRename
  <2>1. tmp = "whole" /\ pc = "rename" BY <1>4 DEF SaveRename, FileInv
  <2>2. file' = Whole /\ pc' = "predict" BY <1>4, <2>1 DEF SaveRename
  <2>3. FileInv' BY <2>2 DEF FileInv, Whole, RingInv
  <2>4. StepInv' BY <1>1, <2>1, <2>2 DEF StepInv
  <2>5. PICK n \in Nat : n = Len(hist) BY DEF RingInv, RingGood
  <2>6. Filed' = n BY <2>2, <2>5 DEF Filed, Whole
  <2>7. PICK b \in Nat \ {0} : b = SaveEvery BY DraftingAssumption
  <2>8. PICK k \in Nat : k = count BY DEF StepInv
  <2>9. PICK v \in 0..(b - 1) : v = k % b BY SuccessorMod
  <2>10. SinceSaved' = v BY <1>1, <2>2, <2>7, <2>8, <2>9 DEF SinceSaved, Saving
  <2>11. Uncounted' = 1 BY <2>2 DEF Uncounted
  <2>12. n <= n + v + 1 OBVIOUS
  <2>13. SavedInv' BY <1>1, <2>5, <2>6, <2>10, <2>11, <2>12 DEF SavedInv
  <2> QED BY <1>2, <2>3, <2>4, <2>13
<1>5. CASE SaveFails
  <2>1. UNCHANGED <<file, tmp>> /\ pc \notin {"prefill", "sample"} /\ pc' = "predict"
        /\ unsaved' = TRUE
    BY <1>5 DEF SaveFails
  <2>2. FileInv' BY <2>1 DEF FileInv
  <2>3. StepInv' BY <1>1, <2>1 DEF StepInv
  <2>4. SavedInv' BY <2>1 DEF SavedInv
  <2> QED BY <1>2, <2>2, <2>3, <2>4
<1> QED BY <1>3, <1>4, <1>5

-----------------------------------------------------------------------------
(* Distances and what is found by them *)

LEMMA DistanceType ==
  ASSUME NEW a \in SUBSET (1..NumBits), NEW b \in SUBSET (1..NumBits)
  PROVE  Distance(a, b) \in Nat
<1>1. NumBits \in Int BY DraftingAssumption
<1>2. IsFiniteSet(1..NumBits) BY <1>1, FS_Interval
<1>3. (a \ b) \cup (b \ a) \in SUBSET (1..NumBits) OBVIOUS
<1>4. IsFiniteSet((a \ b) \cup (b \ a)) BY <1>2, <1>3, FS_Subset, Zenon
<1> QED BY <1>4, FS_CardinalityType, Zenon DEF Distance

\* Sorted by a key and then by age, n things have n places, none twice.
LEMMA RanksTaken ==
  ASSUME NEW D \in SUBSET Int, IsFiniteSet(D), NEW n \in Nat, Cardinality(D) = n,
         NEW d \in [D -> Int]
  PROVE  /\ \A k \in 1..n : \E i \in D :
              Cardinality({j \in D : d[j] < d[i] \/ (d[j] = d[i] /\ j < i)}) = k - 1
         /\ \A i, j \in D : d[i] < d[j] \/ (d[i] = d[j] /\ i < j) =>
              Cardinality({x \in D : d[x] < d[i] \/ (d[x] = d[i] /\ x < i)})
                < Cardinality({x \in D : d[x] < d[j] \/ (d[x] = d[j] /\ x < j)})
<1> DEFINE Before(i) == {j \in D : d[j] < d[i] \/ (d[j] = d[i] /\ j < i)}
           Places == 0..(n - 1)
           rank == [i \in D |-> Cardinality(Before(i))]
<1>1. IsFiniteSet(Places) /\ Cardinality(Places) = n
  <2>1. 0 \in Int /\ n - 1 \in Int OBVIOUS
  <2>2. IsFiniteSet(Places) /\ Cardinality(Places) = IF 0 > n - 1 THEN 0 ELSE n - 1 - 0 + 1
    BY <2>1, FS_Interval
  <2> QED BY <2>2
<1>2. ASSUME NEW i \in D
      PROVE  Before(i) \in SUBSET D /\ Before(i) # D /\ IsFiniteSet(Before(i))
  <2>1. Before(i) \in SUBSET D /\ i \notin Before(i)
    <3>1. d[i] \in Int /\ i \in Int OBVIOUS
    <3> QED BY <3>1
  <2> HIDE DEF Before
  <2> QED BY <2>1, FS_Subset, Zenon
<1>3. ASSUME NEW i \in D
      PROVE  Cardinality(Before(i)) \in Places
  <2> HIDE DEF Before
  <2>1. Cardinality(Before(i)) \in Nat BY <1>2, FS_CardinalityType, Zenon
  <2>2. Cardinality(Before(i)) <= n /\ Cardinality(Before(i)) # n
    BY <1>2, FS_Subset
  <2> QED BY <2>1, <2>2
<1>4. ASSUME NEW i \in D, NEW j \in D, i \in Before(j)
      PROVE  Cardinality(Before(i)) < Cardinality(Before(j))
  <2>1. Before(i) \in SUBSET Before(j)
    <3> SUFFICES ASSUME NEW x \in D, d[x] < d[i] \/ (d[x] = d[i] /\ x < i)
                 PROVE  d[x] < d[j] \/ (d[x] = d[j] /\ x < j)
      OBVIOUS
    <3>1. d[x] \in Int /\ d[i] \in Int /\ d[j] \in Int /\ x \in Int /\ i \in Int /\ j \in Int
      OBVIOUS
    <3>2. d[i] < d[j] \/ (d[i] = d[j] /\ i < j) BY <1>4
    <3> QED BY <3>1, <3>2
  <2>2. i \notin Before(i)
    <3>1. d[i] \in Int /\ i \in Int OBVIOUS
    <3> QED BY <3>1
  <2> HIDE DEF Before
  <2>3. Before(i) # Before(j) BY <1>4, <2>2
  <2>4. /\ Cardinality(Before(i)) <= Cardinality(Before(j))
        /\ Cardinality(Before(i)) # Cardinality(Before(j))
    BY <1>2, <2>1, <2>3, FS_Subset, Zenon
  <2>5. Cardinality(Before(i)) \in Nat /\ Cardinality(Before(j)) \in Nat BY <1>3
  <2> QED BY <2>4, <2>5
<1>5. ASSUME NEW i \in D, NEW j \in D, i # j
      PROVE  i \in Before(j) \/ j \in Before(i)
  <2>1. d[i] \in Int /\ d[j] \in Int /\ i \in Int /\ j \in Int OBVIOUS
  <2> QED BY <1>5, <2>1
<1>11. \A i, j \in D : d[i] < d[j] \/ (d[i] = d[j] /\ i < j) => i \in Before(j) OBVIOUS
<1> HIDE DEF Before
<1>6. rank \in Injection(D, Places)
  <2>1. rank \in [D -> Places] BY <1>3
  <2>2. \A i, j \in D : rank[i] = rank[j] => i = j
    <3> SUFFICES ASSUME NEW i \in D, NEW j \in D, rank[i] = rank[j], i # j PROVE FALSE
      OBVIOUS
    <3>1. Cardinality(Before(i)) \in Nat /\ Cardinality(Before(j)) \in Nat BY <1>3
    <3> QED BY <1>4, <1>5, <3>1
  <2> HIDE DEF rank
  <2> QED BY <2>1, <2>2 DEF Injection, IsInjective
<1> HIDE DEF Places
<1>7. rank \in Surjection(D, Places)
  <2> HIDE DEF rank
  <2> QED BY <1>1, <1>6, FS_Injection, Zenon
<1>9. ASSUME NEW k \in 1..n PROVE \E i \in D : Cardinality(Before(i)) = k - 1
  <2>1. k - 1 \in Places BY DEF Places
  <2>2. PICK i \in D : rank[i] = k - 1
    <3> HIDE DEF rank
    <3> QED BY <1>7, <2>1 DEF Surjection
  <2> QED BY <2>2
<1>10. \A i, j \in D : d[i] < d[j] \/ (d[i] = d[j] /\ i < j) =>
          Cardinality(Before(i)) < Cardinality(Before(j))
  BY <1>4, <1>11, Zenon
<1> QED BY <1>9, <1>10, Zenon DEF Before
\* The ring gives every observation a hash, a token and a position.
LEMMA AtType ==
  ASSUME RingInv, NEW i \in 0..(len - 1)
  PROVE  At(i) \in Observations
<1>1. PICK c \in Nat \ {0} : c = Capacity BY DraftingAssumption
<1>2. PICK n \in Nat : n = Len(hist) BY DEF RingInv, RingGood
<1>3. len = IF n < c THEN n ELSE c BY <1>1, <1>2 DEF RingInv, RingGood
<1>4. At(i) = hist[Len(hist) - len + i + 1] BY PlaceIsOrdered DEF RingInv
<1>5. n - len + i + 1 \in 1..n BY <1>3
<1> QED BY <1>2, <1>4, <1>5 DEF RingInv, RingGood

LEMMA LenType == ASSUME RingInv PROVE len \in Nat /\ Len(hist) \in Nat /\ len <= Len(hist)
<1>1. Capacity \in Nat \ {0} BY DraftingAssumption
<1>2. Len(hist) \in Nat BY DEF RingInv, RingGood
<1> QED BY <1>1, <1>2 DEF RingInv, RingGood

LEMMA DistancesType ==
  ASSUME RingInv, NEW h \in SUBSET (1..NumBits), NEW i \in 0..(len - 1)
  PROVE  Distance(h, At(i).hash) \in Nat
<1>1. At(i).hash \in SUBSET (1..NumBits) BY AtType DEF Observations
<1> QED BY <1>1, DistanceType, Zenon

\* find_similar_positions finds positions that were observed.
LEMMA FoundPositions ==
  ASSUME RingInv, NEW h \in SUBSET (1..NumBits), NEW n \in Nat
  PROVE  \E m \in Nat : /\ DOMAIN FindSimilar(h, n) = 1..m
                        /\ \A k \in 1..m : FindSimilar(h, n)[k] \in Nat
<1>1. len \in Nat BY LenType
<1>2. CASE len < 2
  <2>1. PICK m \in Nat : m = 0 OBVIOUS
  <2>2. FindSimilar(h, n) = <<>> BY <1>2 DEF FindSimilar
  <2>3. DOMAIN FindSimilar(h, n) = 1..m /\ \A k \in 1..m : FALSE BY <2>1, <2>2
  <2> QED BY <2>3
<1>3. CASE ~ (len < 2)
  <2>1. PICK m : m = Min({n, len}) OBVIOUS
  <2>2. m = IF n <= len THEN n ELSE len
    <3>1. n \in Int /\ len \in Int BY <1>1
    <3> QED BY <2>1, <3>1, MinOfPair
  <2>3. m \in Nat /\ m <= len BY <1>1, <2>2
  <2>4. FindSimilar(h, n) =
          [k \in 1..m |-> At(CHOOSE i \in 0..(len - 1) : Rank(h, i) = k - 1).pos]
    BY <1>3, <2>1 DEF FindSimilar
  <2> DEFINE d == [i \in 0..(len - 1) |-> Distance(h, At(i).hash)]
  <2>5. d \in [0..(len - 1) -> Nat] BY DistancesType
  <2>6. ASSUME NEW i \in 0..(len - 1)
        PROVE  Rank(h, i) =
                 Cardinality({j \in 0..(len - 1) : d[j] < d[i] \/ (d[j] = d[i] /\ j < i)})
    <3>1. {j \in 0..(len - 1) : Nearer(h, j, i)} =
            {j \in 0..(len - 1) : d[j] < d[i] \/ (d[j] = d[i] /\ j < i)}
      BY DEF Nearer
    <3> QED BY <3>1 DEF Rank
  <2>7. ASSUME NEW k \in 1..m PROVE FindSimilar(h, n)[k] \in Nat
    <3>1. k \in 1..len BY <1>1, <2>3
    <3> HIDE DEF d
    <3>5. PICK m1 \in Nat : m1 = len BY <1>1
    <3>6. PICK D : D = 0..(len - 1) OBVIOUS
    <3>7. D \in SUBSET Int /\ IsFiniteSet(D) /\ Cardinality(D) = m1
      <4>1. 0 \in Int /\ len - 1 \in Int BY <1>1
      <4>2. IsFiniteSet(D) /\ Cardinality(D) = IF 0 > len - 1 THEN 0 ELSE len - 1 - 0 + 1
        BY <3>6, <4>1, FS_Interval
      <4> QED BY <1>1, <3>5, <3>6, <4>2
    <3>8. d \in [D -> Int] BY <2>5, <3>6
    <3>9. \E i \in D : Cardinality({j \in D : d[j] < d[i] \/ (d[j] = d[i] /\ j < i)}) = k - 1
      BY <3>1, <3>5, <3>7, <3>8, RanksTaken
    <3>2. \E i \in 0..(len - 1) :
             Cardinality({j \in 0..(len - 1) : d[j] < d[i] \/ (d[j] = d[i] /\ j < i)}) = k - 1
      BY <3>6, <3>9
    <3>3. \E i \in 0..(len - 1) : Rank(h, i) = k - 1 BY <2>6, <3>2, Zenon
    <3>4. PICK i \in 0..(len - 1) : i = CHOOSE j \in 0..(len - 1) : Rank(h, j) = k - 1
      BY <3>3, Zenon
    <3>10. FindSimilar(h, n)[k] = At(i).pos BY <2>4, <3>4
    <3>11. At(i).pos \in Nat BY AtType DEF Observations
    <3> QED BY <3>10, <3>11
  <2>8. DOMAIN FindSimilar(h, n) = 1..m BY <2>4
  <2> QED BY <2>3, <2>7, <2>8
<1> QED BY <1>2, <1>3

\* draft compares every observation that has followers: there is a first nearest one.
LEMMA BestIsNearest ==
  ASSUME RingInv, NEW h \in SUBSET (1..NumBits), SearchLen \in Nat \ {0}
  PROVE  /\ Best(h) \in 0..(SearchLen - 1)
         /\ \A j \in 0..(SearchLen - 1) : Distance(h, At(Best(h)).hash) <= Distance(h, At(j).hash)
<1> DEFINE D == 0..(SearchLen - 1)
           d == [i \in D |-> Distance(h, At(i).hash)]
           IsBest(i) == /\ \A j \in D : Distance(h, At(i).hash) <= Distance(h, At(j).hash)
                        /\ \A j \in 0..(i - 1) : Distance(h, At(i).hash) < Distance(h, At(j).hash)
<1>1. D \subseteq 0..(len - 1)
  <2>1. len \in Nat BY LenType
  <2>2. DraftLength \in Nat BY DraftingAssumption
  <2> QED BY <2>1, <2>2 DEF SearchLen
<1>2. d \in [D -> Nat] BY <1>1, DistancesType
<1>3. \A i \in D : d[i] = Distance(h, At(i).hash) OBVIOUS
<1> HIDE DEF d
<1>4. PICK v \in {d[i] : i \in D} : \A w \in {d[i] : i \in D} : v <= w
  <2>1. {d[i] : i \in D} \subseteq Nat BY <1>2
  <2>2. 0 \in D OBVIOUS
  <2>3. {d[i] : i \in D} # {} BY <2>2
  <2> QED BY <2>1, <2>3, LeastNumber
<1>5. PICK b \in {i \in D : d[i] = v} : \A i \in {j \in D : d[j] = v} : b <= i
  <2>1. {i \in D : d[i] = v} \subseteq Nat /\ {i \in D : d[i] = v} # {} BY <1>4
  <2> QED BY <2>1, LeastNumber
<1>6. b \in D /\ d[b] = v BY <1>5
<1>7. ASSUME NEW j \in D PROVE Distance(h, At(b).hash) <= Distance(h, At(j).hash)
  BY <1>3, <1>4, <1>6
<1>8. ASSUME NEW j \in 0..(b - 1) PROVE Distance(h, At(b).hash) < Distance(h, At(j).hash)
  <2>1. j \in D /\ ~ (b <= j) BY <1>6
  <2>2. d[j] # v BY <1>5, <2>1
  <2>3. v <= d[j] /\ d[j] \in Nat /\ v \in Nat BY <1>2, <1>4, <1>6, <2>1
  <2> QED BY <1>3, <1>6, <2>1, <2>2, <2>3
<1>9. IsBest(b) BY <1>7, <1>8
<1>10. Best(h) = CHOOSE i \in D : IsBest(i) BY DEF Best
<1>11. Best(h) \in D /\ IsBest(Best(h))
  <2> HIDE DEF D, IsBest
  <2> QED BY <1>6, <1>9, <1>10, Zenon
<1> QED BY <1>11

LEMMA ConfidenceNone ==
  ASSUME NEW d \in Nat
  PROVE  Confidence(d) = 0 <=> d > NumBits \div 2
<1>1. PICK n \in Nat : n = NumBits BY DraftingAssumption
<1>2. PICK t, f : t = 2 /\ f = 4 OBVIOUS
<1>3. t \in Nat \ {0} /\ f \in Nat \ {0} BY <1>2
<1>4. PICK q \in Nat, r \in 0..(t - 1) : q = n \div t /\ r = n % t BY <1>3, DivMod
<1>5. PICK u \in Nat, v \in 0..(f - 1) : u = n \div f /\ v = n % f BY <1>3, DivMod
<1>6. n = t * q + r /\ n = f * u + v BY <1>3, <1>4, <1>5, DivMod
<1>7. n = 2 * q + r /\ n = 4 * u + v /\ r \in 0..1 /\ v \in 0..3 BY <1>2, <1>4, <1>5, <1>6
<1>8. u <= q BY <1>7
<1>9. q = NumBits \div 2 /\ u = NumBits \div 4 BY <1>1, <1>2, <1>4, <1>5
<1>10. CASE d <= u
  <2>1. Confidence(d) # 0 BY <1>9, <1>10 DEF Confidence
  <2> QED BY <1>8, <1>9, <1>10, <2>1
<1>11. CASE d > u /\ d <= q
  <2>1. Confidence(d) = 10 BY <1>9, <1>11 DEF Confidence
  <2> QED BY <1>9, <1>11, <2>1
<1>12. CASE d > q
  <2>1. Confidence(d) = 0 BY <1>8, <1>9, <1>12 DEF Confidence
  <2> QED BY <1>9, <1>12, <2>1
<1> QED BY <1>10, <1>11, <1>12

LEMMA DraftOf ==
  ASSUME RingInv, NEW h \in SUBSET (1..NumBits)
  PROVE  LET d == Draft(h)
             followed == (Len(hist) - len + 1) .. (Len(hist) - DraftLength)
         IN  /\ (d = <<>>) <=> \A m \in followed : Distance(h, hist[m].hash) > NumBits \div 2
             /\ d /= <<>> => \E m \in followed :
                   /\ Len(d) = DraftLength
                   /\ \A j \in 1..DraftLength : d[j].token = hist[m + j].token
                   /\ \A k \in followed : Distance(h, hist[m].hash) <= Distance(h, hist[k].hash)
<1>1. PICK N \in Nat, l \in Nat : N = Len(hist) /\ l = len /\ l <= N BY LenType
<1>2. PICK L \in Nat \ {0} : L = DraftLength BY DraftingAssumption
<1>3. PICK d : d = Draft(h) OBVIOUS
<1> DEFINE F == (N - l + 1)..(N - L)
<1>4. \A i \in 0..(l - 1) : At(i) = hist[N - l + i + 1] BY <1>1, PlaceIsOrdered DEF RingInv
<1>5. CASE l < L + 1
  <2>1. d = <<>> BY <1>1, <1>2, <1>3, <1>5 DEF Draft
  <2>2. F = {} BY <1>5
  <2> QED BY <1>1, <1>2, <1>3, <2>1, <2>2
<1>6. CASE ~ (l < L + 1)
  <2>1. SearchLen = l - L /\ l - L \in Nat \ {0} BY <1>1, <1>2, <1>6 DEF SearchLen
  <2>2. PICK b \in 0..(l - L - 1) :
          /\ b = Best(h)
          /\ \A j \in 0..(l - L - 1) : Distance(h, At(b).hash) <= Distance(h, At(j).hash)
    BY <2>1, BestIsNearest
  <2>3. PICK m : m = N - l + b + 1 OBVIOUS
  <2>4. m \in F BY <1>1, <1>6, <2>2, <2>3
  <2>5. At(b) = hist[m] BY <1>1, <1>2, <1>4, <2>2, <2>3
  <2>6. ASSUME NEW k \in F PROVE Distance(h, hist[m].hash) <= Distance(h, hist[k].hash)
    <3>1. PICK j : j = k - N + l - 1 OBVIOUS
    <3>2. j \in 0..(l - L - 1) /\ j \in 0..(l - 1) /\ N - l + j + 1 = k BY <1>1, <1>2, <3>1
    <3>3. At(j) = hist[k] BY <1>4, <3>2
    <3> QED BY <2>2, <2>5, <3>2, <3>3
  <2>7. PICK v \in Nat : v = Distance(h, hist[m].hash)
    <3>1. b \in 0..(len - 1) BY <1>1, <1>2, <2>2
    <3> QED BY <2>5, <3>1, DistancesType
  <2>8. \A k \in F : Distance(h, hist[k].hash) \in Nat
    <3> SUFFICES ASSUME NEW k \in F PROVE Distance(h, hist[k].hash) \in Nat OBVIOUS
    <3>1. PICK j : j = k - N + l - 1 OBVIOUS
    <3>2. j \in 0..(l - 1) /\ N - l + j + 1 = k BY <1>1, <1>2, <3>1
    <3>3. At(j) = hist[k] BY <1>4, <3>2
    <3> QED BY <1>1, <3>2, <3>3, DistancesType
  <2>9. NumBits \div 2 \in Int BY DraftingAssumption
  <2>10. CASE Confidence(v) = 0
    <3>1. d = <<>> BY <1>3, <2>2, <2>5, <2>7, <2>10 DEF Draft
    <3>2. v > NumBits \div 2 BY <2>10, ConfidenceNone
    <3>3. \A k \in F : Distance(h, hist[k].hash) > NumBits \div 2
      BY <2>6, <2>7, <2>8, <2>9, <3>2
    <3> HIDE DEF F
    <3> QED BY <1>1, <1>2, <1>3, <3>1, <3>3 DEF F
  <2>11. CASE Confidence(v) # 0
    <3>1. ~ (v > NumBits \div 2) BY <2>11, ConfidenceNone
    <3>2. {k \in 1..DraftLength : Best(h) + k < len} = 1..L BY <1>1, <1>2, <2>2
    <3>3. Cardinality(1..L) = L
      <4>1. PICK o \in Int : o = 1 OBVIOUS
      <4>2. Cardinality(o..L) = IF o > L THEN 0 ELSE L - o + 1 BY <4>1, FS_Interval
      <4> QED BY <4>1, <4>2
    <3>4. d = [j \in 1..L |-> [token |-> At(b + j).token, conf |-> Confidence(v)]]
      BY <1>1, <1>2, <1>3, <1>6, <2>2, <2>5, <2>7, <2>11, <3>2, <3>3 DEF Draft
    <3>5. DOMAIN d = 1..L BY <3>4
    <3>6. Len(d) = L BY <3>5
    <3>7. d # <<>> BY <3>6
    <3>8. ASSUME NEW j \in 1..L PROVE d[j].token = hist[m + j].token
      <4>1. b + j \in 0..(l - 1) /\ N - l + (b + j) + 1 = m + j BY <1>1, <1>2, <2>2, <2>3
      <4>2. At(b + j) = hist[m + j] BY <1>4, <4>1
      <4> QED BY <3>4, <4>2
    <3>9. \E k \in F : ~ (Distance(h, hist[k].hash) > NumBits \div 2) BY <2>4, <2>7, <3>1
    <3> HIDE DEF F
    <3>10. \E k \in F : /\ Len(d) = L
                        /\ \A j \in 1..L : d[j].token = hist[k + j].token
                        /\ \A i \in F : Distance(h, hist[k].hash) <= Distance(h, hist[i].hash)
      BY <2>4, <2>6, <3>6, <3>8
    <3> QED BY <1>1, <1>2, <1>3, <3>7, <3>9, <3>10, ZenonT(40) DEF F
  <2> QED BY <2>10, <2>11
<1> QED BY <1>5, <1>6

LEMMA DraftImplies == RingInv => RingIsHistory /\ DraftFollowsMatch
<1> SUFFICES ASSUME RingInv PROVE RingIsHistory /\ DraftFollowsMatch OBVIOUS
<1>1. RingIsHistory
  <2>1. Len(hist) \in Int /\ Capacity \in Int BY DraftingAssumption, LenType
  <2>2. Min({Len(hist), Capacity}) = IF Len(hist) <= Capacity THEN Len(hist) ELSE Capacity
    BY <2>1, MinOfPair
  <2>3. len = Min({Len(hist), Capacity}) BY <2>1, <2>2 DEF RingInv, RingGood
  <2> QED BY <2>3, PlaceIsOrdered DEF RingIsHistory, RingInv
<1>2. \A h \in Hashes : h \in SUBSET (1..NumBits) BY DraftingAssumption
<1>3. DraftFollowsMatch BY <1>2, DraftOf, Zenon DEF DraftFollowsMatch
<1> QED BY <1>1, <1>3

----------------------------------------------------------------------------
(* The positions attended to and the pages fetched ahead *)

\* Sequences of positions up to p, each once.
Spread(p) == {s \in Seq(0..p) : \A i, j \in 1..Len(s) : s[i] = s[j] => i = j}

LEMMA AddNewKeeps ==
  ASSUME NEW p \in Nat, NEW acc \in Spread(p), NEW x \in 0..p
  PROVE  AddNew(acc, x) \in Spread(p)
<1>1. PICK n \in Nat : n = Len(acc) BY DEF Spread
<1>2. acc \in Seq(0..p) /\ \A i, j \in 1..n : acc[i] = acc[j] => i = j BY <1>1 DEF Spread
<1>3. CASE Contains(acc, x) BY <1>3 DEF AddNew
<1>4. CASE ~ Contains(acc, x)
  <2>1. \A i \in 1..n : acc[i] # x BY <1>1, <1>4 DEF Contains
  <2>2. PICK a : a = Append(acc, x) OBVIOUS
  <2>3. /\ a \in Seq(0..p) /\ Len(a) = n + 1 /\ a[n + 1] = x
        /\ \A i \in 1..n : a[i] = acc[i]
    BY <1>1, <1>2, <2>2
  <2>4. ASSUME NEW i \in 1..(n + 1), NEW j \in 1..(n + 1), a[i] = a[j] PROVE i = j
    <3>1. CASE i = n + 1 /\ j = n + 1 BY <3>1
    <3>2. CASE i = n + 1 /\ j # n + 1
      <4>1. j \in 1..n BY <3>2
      <4> QED BY <2>1, <2>3, <2>4, <3>2, <4>1
    <3>3. CASE i # n + 1 /\ j = n + 1
      <4>1. i \in 1..n BY <3>3
      <4> QED BY <2>1, <2>3, <2>4, <3>3, <4>1
    <3>4. CASE i # n + 1 /\ j # n + 1
      <4>1. i \in 1..n /\ j \in 1..n BY <3>4
      <4> QED BY <1>2, <2>3, <2>4, <4>1
    <3> QED BY <3>1, <3>2, <3>3, <3>4
  <2>5. a \in Spread(p) BY <2>3, <2>4 DEF Spread
  <2> QED BY <1>4, <2>2, <2>5 DEF AddNew
<1> QED BY <1>3, <1>4

\* The sentinels end before the window begins, and the window with the newest
\* position.
LEMMA SentinelsAndWindow ==
  ASSUME NEW p \in Nat, NEW start \in 0..p, NEW c \in Nat, c <= start \div Stride
  PROVE  [i \in 1..c |-> Stride * (i - 1)] \o [i \in 1..(p + 1 - start) |-> start + i - 1]
            \in Spread(p)
<1>1. PICK S \in Nat \ {0} : S = Stride BY DraftingAssumption
<1>2. PICK q \in Nat, r \in Nat : q = start \div S /\ start = S * q + r
  <2>1. PICK n \in Nat : n = start OBVIOUS
  <2>2. PICK q \in Nat, r \in 0..(S - 1) : q = n \div S /\ r = n % S BY DivMod
  <2>3. n = S * q + r BY <2>2, DivMod
  <2> QED BY <2>1, <2>2, <2>3
<1>3. c <= q BY <1>1, <1>2
<1>4. PICK a : a = [i \in 1..c |-> S * (i - 1)] OBVIOUS
<1>5. PICK b : b = [i \in 1..(p + 1 - start) |-> start + i - 1] OBVIOUS
<1>6. PICK w \in Nat : w = p + 1 - start
  <2>1. p + 1 - start \in Nat OBVIOUS
  <2> QED BY <2>1
<1>7. ASSUME NEW i \in 1..c PROVE a[i] \in 0..p /\ a[i] < start
  <2>1. PICK k \in Nat : q = (i - 1) + 1 + k
    <3>1. q - i \in Nat /\ q = (i - 1) + 1 + (q - i) BY <1>3
    <3> QED BY <3>1
  <2>2. PICK j \in Nat : j = i - 1
    <3>1. i - 1 \in Nat OBVIOUS
    <3> QED BY <3>1
  <2>3. PICK y \in Nat : y = S * j BY <2>2
  <2>4. PICK z \in Nat : z = S * k OBVIOUS
  <2>5. q = j + 1 + k BY <2>1, <2>2
  <2>6. S * q = y + S + z BY <2>3, <2>4, <2>5
  <2>7. y < start BY <1>2, <2>6
  <2>8. a[i] = y BY <1>4, <2>2, <2>3
  <2> QED BY <2>7, <2>8
<1>8. ASSUME NEW i \in 1..c, NEW j \in 1..c, a[i] = a[j] PROVE i = j
  <2>1. PICK u \in Int, v \in Int : u = i - 1 /\ v = j - 1 OBVIOUS
  <2>2. S * u = S * v BY <1>4, <1>8, <2>1
  <2>3. ASSUME u < v PROVE FALSE
    <3>1. PICK k \in Nat : v = u + 1 + k
      <4>1. v - u - 1 \in Nat /\ v = u + 1 + (v - u - 1) BY <2>3
      <4> QED BY <4>1
    <3>2. PICK x \in Int : x = S * u OBVIOUS
    <3>3. PICK z \in Nat : z = S * k OBVIOUS
    <3>4. S * v = x + S + z BY <3>1, <3>2, <3>3
    <3> QED BY <2>2, <3>2, <3>4
  <2>4. ASSUME v < u PROVE FALSE
    <3>1. PICK k \in Nat : u = v + 1 + k
      <4>1. u - v - 1 \in Nat /\ u = v + 1 + (u - v - 1) BY <2>4
      <4> QED BY <4>1
    <3>2. PICK x \in Int : x = S * v OBVIOUS
    <3>3. PICK z \in Nat : z = S * k OBVIOUS
    <3>4. S * u = x + S + z BY <3>1, <3>2, <3>3
    <3> QED BY <2>2, <3>2, <3>4
  <2> QED BY <2>1, <2>3, <2>4
<1>9. a \in Seq(0..p) /\ Len(a) = c
  <2>1. a = [i \in 1..c |-> a[i]] BY <1>4
  <2>2. a \in [1..c -> 0..p] BY <1>7, <2>1
  <2> QED BY <2>2
<1>10. ASSUME NEW i \in 1..w PROVE b[i] \in 0..p /\ b[i] >= start /\ b[i] = start + i - 1
  BY <1>5, <1>6
<1>11. b \in Seq(0..p) /\ Len(b) = w
  <2>1. b = [i \in 1..w |-> b[i]] BY <1>5, <1>6
  <2>2. b \in [1..w -> 0..p] BY <1>10, <2>1
  <2> QED BY <2>2
<1>12. PICK s : s = a \o b OBVIOUS
<1>13. /\ s \in Seq(0..p) /\ Len(s) = c + w
       /\ \A i \in 1..c : s[i] = a[i]
       /\ \A i \in (c + 1)..(c + w) : s[i] = b[i - c]
  <2> HIDE DEF Spread
  <2>1. /\ s \in Seq(0..p) /\ Len(s) = Len(a) + Len(b)
        /\ \A i \in 1..(Len(a) + Len(b)) :
              s[i] = IF i <= Len(a) THEN a[i] ELSE b[i - Len(a)]
    BY <1>9, <1>11, <1>12, ConcatProperties, Zenon
  <2>2. \A i \in 1..(c + w) : s[i] = IF i <= c THEN a[i] ELSE b[i - c]
    BY <1>9, <1>11, <2>1, Zenon
  <2>3. Len(s) = c + w BY <1>9, <1>11, <2>1, Zenon
  <2>4. ASSUME NEW i \in 1..c PROVE s[i] = a[i]
    <3>1. i \in 1..(c + w) /\ i <= c OBVIOUS
    <3> QED BY <2>2, <3>1, Zenon
  <2>5. ASSUME NEW i \in (c + 1)..(c + w) PROVE s[i] = b[i - c]
    <3>1. i \in 1..(c + w) /\ ~ (i <= c) OBVIOUS
    <3> QED BY <2>2, <3>1, Zenon
  <2> QED BY <2>1, <2>3, <2>4, <2>5, Zenon
<1>14. ASSUME NEW i \in 1..(c + w), NEW j \in 1..(c + w), s[i] = s[j] PROVE i = j
  <2>1. CASE i <= c /\ j <= c BY <1>8, <1>13, <1>14, <2>1
  <2>2. CASE i <= c /\ j > c
    <3>1. i \in 1..c /\ j - c \in 1..w /\ j \in (c + 1)..(c + w) BY <2>2
    <3>2. s[i] = a[i] /\ s[j] = b[j - c] BY <1>13, <3>1
    <3>3. PICK x \in Nat : x = a[i] /\ x < start BY <1>7, <3>1
    <3>4. PICK y \in Nat : y = b[j - c] /\ y >= start BY <1>10, <3>1
    <3>5. x = y BY <1>14, <3>2, <3>3, <3>4
    <3> QED BY <3>3, <3>4, <3>5
  <2>3. CASE i > c /\ j <= c
    <3>1. j \in 1..c /\ i - c \in 1..w /\ i \in (c + 1)..(c + w) BY <2>3
    <3>2. s[j] = a[j] /\ s[i] = b[i - c] BY <1>13, <3>1
    <3>3. PICK x \in Nat : x = a[j] /\ x < start BY <1>7, <3>1
    <3>4. PICK y \in Nat : y = b[i - c] /\ y >= start BY <1>10, <3>1
    <3>5. x = y BY <1>14, <3>2, <3>3, <3>4
    <3> QED BY <3>3, <3>4, <3>5
  <2>4. CASE i > c /\ j > c
    <3>1. /\ i - c \in 1..w /\ i \in (c + 1)..(c + w)
          /\ j - c \in 1..w /\ j \in (c + 1)..(c + w)
      BY <2>4
    <3>2. s[i] = b[i - c] /\ s[j] = b[j - c] BY <1>13, <3>1
    <3>3. PICK x \in Int : x = b[i - c] /\ x = start + (i - c) - 1 BY <1>10, <3>1
    <3>4. PICK y \in Int : y = b[j - c] /\ y = start + (j - c) - 1 BY <1>10, <3>1
    <3>5. x = y BY <1>14, <3>2, <3>3, <3>4
    <3> QED BY <3>3, <3>4, <3>5
  <2> QED BY <2>1, <2>2, <2>3, <2>4
<1>15. s \in Spread(p) BY <1>13, <1>14 DEF Spread
<1> QED BY <1>1, <1>4, <1>5, <1>12, <1>15

\* The candidates that are added have been written and are not there yet.
LEMMA AttendedSpread ==
  ASSUME NEW p \in Nat, NEW candidates, NEW m \in Nat, DOMAIN candidates = 1..m,
         \A k \in 1..m : candidates[k] \in Nat
  PROVE  FuguPositions(candidates, p) \in Spread(p)
<1>1. PICK W \in Nat \ {0} : W = Window BY DraftingAssumption
<1>2. PICK start : start = IF p > Window THEN p - Window + 1 ELSE 0 OBVIOUS
<1>3. start \in 0..p BY <1>1, <1>2
<1>4. start \div Stride \in Nat
  <2>1. start \in Nat /\ Stride \in Nat \ {0} BY <1>3, DraftingAssumption
  <2> QED BY <2>1, DivMod
<1>5. PICK c : c = Min({start \div Stride, 128}) OBVIOUS
<1>6. c = IF start \div Stride <= 128 THEN start \div Stride ELSE 128
  <2>1. PICK k \in Int : k = 128 OBVIOUS
  <2>2. start \div Stride \in Int BY <1>4
  <2>3. Min({start \div Stride, k}) = IF start \div Stride <= k THEN start \div Stride ELSE k
    BY <2>2, MinOfPair
  <2> QED BY <1>5, <2>1, <2>3
<1>7. c \in Nat /\ c <= start \div Stride BY <1>4, <1>6
<1>8. PICK base : base = [i \in 1..c |-> Stride * (i - 1)]
                           \o [i \in 1..(p + 1 - start) |-> start + i - 1]
  OBVIOUS
<1>9. base \in Spread(p) BY <1>3, <1>7, <1>8, SentinelsAndWindow
<1>10. FuguPositions(candidates, p) = FoldLeft(LAMBDA acc, dp : Attend(acc, dp, p), base, candidates)
  BY <1>2, <1>5, <1>8 DEF FuguPositions
<1>11. PICK g : g = (CHOOSE f : FoldOn("candidate", p, base, f, candidates, m)) OBVIOUS
<1>12. FoldOn("candidate", p, base, g, candidates, m) BY <1>11, FoldExists, Zenon
<1>13. FuguPositions(candidates, p) = g[1..m]
  <2>1. FoldLeft(LAMBDA acc, dp : Attend(acc, dp, p), base, candidates)
          = (CHOOSE f : FoldOn("candidate", p, base, f, candidates, m))[1..m]
    BY CandidatesIsChosen
  <2> QED BY <1>10, <1>11, <2>1
<1>14. ASSUME NEW acc \in Spread(p), NEW i \in 1..m
       PROVE  Folded("candidate", p, acc, candidates[i]) \in Spread(p)
  <2>1. Folded("candidate", p, acc, candidates[i]) = Attend(acc, candidates[i], p) BY DEF Folded
  <2>2. candidates[i] <= p => candidates[i] \in 0..p OBVIOUS
  <2>3. Attend(acc, candidates[i], p) \in Spread(p) BY <2>2, AddNewKeeps DEF Attend, Selectable
  <2> QED BY <2>1, <2>3
<1>15. g[1..m] \in Spread(p) BY <1>9, <1>12, <1>14, FoldKeeps, Zenon
<1> QED BY <1>13, <1>15

LEMMA SpreadSize ==
  ASSUME NEW p \in Nat, NEW s \in Spread(p)
  PROVE  (\A i \in DOMAIN s : s[i] <= p) /\ Cardinality(Range(s)) = Len(s)
<1>1. PICK n \in Nat : n = Len(s) BY DEF Spread
<1>2. /\ DOMAIN s = 1..n /\ s \in [1..n -> 0..p]
      /\ \A i, j \in 1..n : s[i] = s[j] => i = j
  BY <1>1 DEF Spread
<1>3. \A i \in DOMAIN s : s[i] <= p BY <1>2
<1>4. Range(s) = {s[i] : i \in 1..n} BY <1>2 DEF Range
<1>5. s \in Injection(1..n, Range(s)) BY <1>2, <1>4 DEF Injection, IsInjective
<1>6. s \in Surjection(1..n, Range(s)) BY <1>2, <1>4 DEF Surjection
<1>7. IsFiniteSet(1..n) /\ Cardinality(1..n) = n
  <2>1. PICK o \in Int : o = 1 OBVIOUS
  <2>2. IsFiniteSet(o..n) /\ Cardinality(o..n) = IF o > n THEN 0 ELSE n - o + 1
    BY FS_Interval
  <2> QED BY <2>1, <2>2
<1>8. Cardinality(Range(s)) = n BY <1>5, <1>6, <1>7, FS_Surjection
<1> QED BY <1>1, <1>3, <1>8

LEMMA AttendImplies == RingInv /\ pos \in Nat => AttendsWrittenOnce
<1> SUFFICES ASSUME RingInv, pos \in Nat, NEW h \in Hashes
             PROVE  LET s == FuguPositions(FindSimilar(h, Candidates), pos) IN
                    /\ \A i \in DOMAIN s : s[i] <= pos
                    /\ Cardinality(Range(s)) = Len(s)
  BY DEF AttendsWrittenOnce
<1>1. h \in SUBSET (1..NumBits) /\ Candidates \in Nat BY DraftingAssumption
<1>2. PICK m \in Nat : /\ DOMAIN FindSimilar(h, Candidates) = 1..m
                       /\ \A k \in 1..m : FindSimilar(h, Candidates)[k] \in Nat
  BY <1>1, FoundPositions, Zenon
<1>3. FuguPositions(FindSimilar(h, Candidates), pos) \in Spread(pos)
  BY <1>2, AttendedSpread, Zenon
<1> QED BY <1>3, SpreadSize, Zenon

LEMMA PageOrder ==
  ASSUME NEW a \in Nat, NEW b \in Nat, a <= b
  PROVE  PageId(a) \in Nat /\ PageId(b) \in Nat /\ PageId(a) <= PageId(b)
<1>1. PICK T \in Nat \ {0} : T = PageTokens BY DraftingAssumption
<1>2. PICK q \in Nat, r \in 0..(T - 1) : q = a \div T /\ r = a % T BY DivMod
<1>3. PICK u \in Nat, v \in 0..(T - 1) : u = b \div T /\ v = b % T BY DivMod
<1>4. a = T * q + r /\ b = T * u + v BY <1>2, <1>3, DivMod
<1>5. ASSUME u < q PROVE FALSE
  <2>1. PICK k \in Nat : q = u + 1 + k
    <3>1. q - u - 1 \in Nat /\ q = u + 1 + (q - u - 1) BY <1>5
    <3> QED BY <3>1
  <2>2. PICK x \in Nat : x = T * u OBVIOUS
  <2>3. PICK z \in Nat : z = T * k OBVIOUS
  <2>4. T * q = x + T + z BY <2>1, <2>2, <2>3
  <2> QED BY <1>4, <2>2, <2>4
<1> QED BY <1>1, <1>2, <1>3, <1>5 DEF PageId

\* The pages around a match end with the page of the step.
LEMMA AroundType ==
  ASSUME NEW p \in Nat, NEW m \in Nat
  PROVE  \E n \in Nat : /\ DOMAIN PagesAround(m, p) = 1..n
                        /\ \A i \in 1..n : PagesAround(m, p)[i] \in 0..PageId(p)
<1>1. Lookback \in Nat /\ Lookahead \in Nat BY DraftingAssumption
<1>2. PICK e \in Nat : e = Min({m + Lookahead, p}) /\ e <= p
  <2>1. m + Lookahead \in Int /\ p \in Int BY <1>1
  <2>2. Min({m + Lookahead, p}) = IF m + Lookahead <= p THEN m + Lookahead ELSE p
    BY <2>1, MinOfPair
  <2> QED BY <1>1, <2>2
<1>3. PICK last \in Nat : last = LastPredicted(m, p) /\ last <= PageId(p)
  BY <1>2, PageOrder DEF LastPredicted
<1>4. PICK f \in Nat : f = IF m > Lookback THEN m - Lookback ELSE 0
  <2>1. (IF m > Lookback THEN m - Lookback ELSE 0) \in Nat BY <1>1
  <2> QED BY <2>1
<1>5. PICK start \in Nat : start = PageId(f) BY PageOrder
<1>6. PagesAround(m, p) = [i \in 1..(last + 1 - start) |-> start + i - 1]
  BY <1>3, <1>4, <1>5 DEF PagesAround
<1>7. PICK n \in Nat : n = IF last + 1 >= start THEN last + 1 - start ELSE 0
  <2>1. (IF last + 1 >= start THEN last + 1 - start ELSE 0) \in Nat OBVIOUS
  <2> QED BY <2>1
<1>8. 1..(last + 1 - start) = 1..n BY <1>7
<1>9. ASSUME NEW i \in 1..n PROVE PagesAround(m, p)[i] \in 0..PageId(p)
  <2>1. PagesAround(m, p)[i] = start + i - 1 BY <1>6, <1>8
  <2>2. PageId(p) \in Nat BY PageOrder
  <2> QED BY <1>3, <1>7, <2>1, <2>2
<1> QED BY <1>6, <1>8, <1>9

LEMMA AddPagesKeeps ==
  ASSUME NEW p \in Nat, NEW m \in Nat, NEW acc \in Spread(PageId(p))
  PROVE  AddPages(acc, m, p) \in Spread(PageId(p))
<1>1. CASE ~ (m < p /\ p - m >= TooNear) BY <1>1 DEF AddPages
<1>2. CASE m < p /\ p - m >= TooNear
  <2>1. PICK P \in Nat : P = PageId(p) BY PageOrder
  <2>2. PICK s : s = PagesAround(m, p) OBVIOUS
  <2>3. PICK n \in Nat : DOMAIN s = 1..n /\ \A i \in 1..n : s[i] \in 0..P
    BY <2>1, <2>2, AroundType
  <2>4. AddPages(acc, m, p) = FoldLeft(AddNew, acc, s) BY <1>2, <2>2 DEF AddPages
  <2>5. PICK g : g = (CHOOSE f : FoldOn("page", 0, acc, f, s, n)) OBVIOUS
  <2>6. FoldOn("page", 0, acc, g, s, n) BY <2>5, FoldExists, Zenon
  <2>7. FoldLeft(AddNew, acc, s) = (CHOOSE f : FoldOn("page", 0, acc, f, s, n))[1..n]
    BY <2>3, PagesIsChosen
  <2>8. AddPages(acc, m, p) = g[1..n] BY <2>4, <2>5, <2>7
  <2>9. ASSUME NEW a \in Spread(P), NEW i \in 1..n
        PROVE  Folded("page", 0, a, s[i]) \in Spread(P)
    <3>1. Folded("page", 0, a, s[i]) = AddNew(a, s[i]) BY DEF Folded
    <3> QED BY <2>3, <3>1, AddNewKeeps
  <2>10. acc \in Spread(P) BY <2>1
  <2>11. g[1..n] \in Spread(P) BY <2>6, <2>9, <2>10, FoldKeeps, Zenon
  <2> QED BY <2>1, <2>8, <2>11
<1> QED BY <1>1, <1>2

LEMMA PredictedType ==
  ASSUME RingInv, NEW h \in SUBSET (1..NumBits), NEW p \in Nat
  PROVE  /\ PredictColdPages(h, p) \subseteq 0..PageId(p)
         /\ IsFiniteSet(PredictColdPages(h, p))
         /\ Cardinality(PredictColdPages(h, p)) <= MaxPages
<1>1. Matches \in Nat /\ MaxPages \in Nat BY DraftingAssumption
<1>2. PICK P \in Nat : P = PageId(p) BY PageOrder
<1>3. PICK s : s = FindSimilar(h, Matches) OBVIOUS
<1>4. PICK n \in Nat : DOMAIN s = 1..n /\ \A k \in 1..n : s[k] \in Nat
  BY <1>1, <1>3, FoundPositions
<1>5. PICK base : base = <<>> OBVIOUS
<1>6. PICK g : g = (CHOOSE f : FoldOn("match", p, base, f, s, n)) OBVIOUS
<1>7. FoldOn("match", p, base, g, s, n) BY <1>6, FoldExists, Zenon
<1>8. PICK found : found = FoldLeft(LAMBDA acc, m : AddPages(acc, m, p), base, s) OBVIOUS
<1>9. found = g[1..n]
  <2>1. FoldLeft(LAMBDA acc, m : AddPages(acc, m, p), base, s)
          = (CHOOSE f : FoldOn("match", p, base, f, s, n))[1..n]
    BY <1>4, MatchesIsChosen
  <2> QED BY <1>6, <1>8, <2>1
<1>10. ASSUME NEW acc \in Spread(P), NEW i \in 1..n
       PROVE  Folded("match", p, acc, s[i]) \in Spread(P)
  <2>1. Folded("match", p, acc, s[i]) = AddPages(acc, s[i], p) BY DEF Folded
  <2> QED BY <1>2, <1>4, <2>1, AddPagesKeeps
<1>11. base \in Spread(P) BY <1>5 DEF Spread
<1>12. found \in Spread(P) BY <1>7, <1>9, <1>10, <1>11, FoldKeeps, Zenon
<1>13. PICK l \in Nat : l = Len(found) BY <1>12 DEF Spread
<1>14. PICK k \in Nat : k = Min({MaxPages, Len(found)}) /\ k <= l /\ k <= MaxPages
  <2>1. MaxPages \in Int /\ l \in Int BY <1>1
  <2>2. Min({MaxPages, l}) = IF MaxPages <= l THEN MaxPages ELSE l BY <2>1, MinOfPair
  <2> QED BY <1>1, <1>13, <2>2
<1>15. PICK u : u = SubSeq(found, 1, k) OBVIOUS
<1>16. u = [i \in 1..k |-> found[i]] BY <1>13, <1>14, <1>15
<1>17. \A i \in 1..l : found[i] \in 0..P BY <1>12, <1>13 DEF Spread
<1>18. \A i \in 1..k : u[i] \in 0..P BY <1>14, <1>16, <1>17
<1>19. PredictColdPages(h, p) = Range(u)
  BY <1>3, <1>5, <1>8, <1>14, <1>15 DEF PredictColdPages
<1>20. Range(u) = {u[i] : i \in 1..k} /\ u \in [1..k -> Range(u)] BY <1>16 DEF Range
<1>21. u \in Surjection(1..k, Range(u)) BY <1>20 DEF Surjection
<1>22. IsFiniteSet(1..k) /\ Cardinality(1..k) = k
  <2>1. PICK o \in Int : o = 1 OBVIOUS
  <2>2. IsFiniteSet(o..k) /\ Cardinality(o..k) = IF o > k THEN 0 ELSE k - o + 1
    BY FS_Interval
  <2> QED BY <2>1, <2>2
<1>23. IsFiniteSet(Range(u)) /\ Cardinality(Range(u)) <= k
  BY <1>21, <1>22, FS_Surjection
<1>24. Cardinality(Range(u)) \in Nat BY <1>23, FS_CardinalityType
<1>25. Range(u) \subseteq 0..P BY <1>18, <1>20
<1> QED BY <1>1, <1>2, <1>14, <1>19, <1>23, <1>24, <1>25

PredictedInv ==
  predicted \subseteq 0..PageId(pos) /\ Cardinality(predicted) <= MaxPages

\* The draft model: its ring, its file, where the decode loop stands, what a crash
\* may lose and what is fetched ahead.
DraftIInv == RingInv /\ FileInv /\ StepInv /\ SavedInv /\ PredictedInv

LEMMA PredictStep ==
  ASSUME RingInv, FileInv, StepInv, SavedInv, Predict
  PROVE  DraftIInv'
<1>1. /\ pc = "predict" /\ pc' = "sample" /\ pos' = pos + 1
      /\ predicted' = PredictColdPages(Last(hist).hash, pos)
      /\ UNCHANGED <<ring, head, len, count, file, tmp, hist, unsaved>>
  BY DEF Predict
<1>2. RingInv' /\ FileInv' BY <1>1 DEF RingInv, FileInv
<1>3. StepInv' BY <1>1 DEF StepInv
<1>4. SavedInv' BY <1>1 DEF SavedInv, Filed, SinceSaved, Saving, Uncounted
<1>5. PICK h \in SUBSET (1..NumBits) : h = Last(hist).hash
  <2>1. PICK n \in Nat : n = Len(hist) BY LenType
  <2>2. n \in 1..n BY <1>1, <2>1 DEF StepInv
  <2>3. hist[n] \in Observations BY <2>1, <2>2 DEF RingInv, RingGood
  <2>4. Last(hist) = hist[n] BY <2>1 DEF Last
  <2> QED BY <2>3, <2>4 DEF Observations
<1>6. PICK p \in Nat : p = pos BY DEF StepInv
<1>7. /\ predicted' \subseteq 0..PageId(p) /\ Cardinality(predicted') <= MaxPages
  BY <1>1, <1>5, <1>6, PredictedType
<1>8. PICK u \in Nat, v \in Nat : u = PageId(p) /\ v = PageId(p + 1) /\ u <= v
  BY PageOrder
<1>9. PageId(pos)' = v BY <1>1, <1>6, <1>8 DEF PageId
<1>10. predicted' \subseteq 0..v BY <1>7, <1>8
<1>11. PredictedInv' BY <1>7, <1>9, <1>10 DEF PredictedInv
<1> QED BY <1>2, <1>3, <1>4, <1>11 DEF DraftIInv

\* Nothing is predicted at the start of a generation.
LEMMA NothingPredicted == {} \subseteq 0..PageId(pos) /\ Cardinality({}) <= MaxPages
<1>1. MaxPages \in Nat BY DraftingAssumption
<1>2. Cardinality({}) = 0 BY FS_EmptySet
<1> QED BY <1>1, <1>2

LEMMA DraftStep ==
  ASSUME DraftIInv, DraftingNext \/ UNCHANGED draftVars
  PROVE  DraftIInv'
<1> USE DEF DraftIInv
<1>1. ASSUME UNCHANGED <<predicted, pos>> PROVE PredictedInv'
  BY <1>1 DEF PredictedInv, PageId
<1>2. ASSUME NEW h \in Hashes, NEW said \in Tokens, SampleAndObserve(h, said)
      PROVE  DraftIInv'
  <2>1. UNCHANGED <<predicted, pos>> BY <1>2 DEF SampleAndObserve
  <2> QED BY <1>1, <1>2, <2>1, ObserveStep
<1>3. CASE SaveCreate \/ SaveWrite \/ SaveRename \/ SaveFails
  <2>1. UNCHANGED <<predicted, pos>>
    BY <1>3 DEF SaveCreate, SaveWrite, SaveRename, SaveFails
  <2> QED BY <1>1, <1>3, <2>1, SaveStep
<1>4. CASE Predict BY <1>4, PredictStep
<1>5. CASE StartGeneration
  <2>1. predicted' = {} BY <1>5 DEF StartGeneration
  <2>2. PredictedInv'
    <3>1. MaxPages \in Nat BY DraftingAssumption
    <3>2. Cardinality({}) = 0 BY FS_EmptySet
    <3> QED BY <2>1, <3>1, <3>2 DEF PredictedInv
  <2> QED BY <1>5, <2>2, LoadStep
<1>6. CASE UNCHANGED draftVars
  BY <1>1, <1>6
     DEF draftVars, RingInv, FileInv, StepInv, SavedInv, Filed, SinceSaved, Saving, Uncounted
<1>7. ASSUME NEW h \in Hashes, NEW said \in Tokens, PrefillObserve(h, said)
      PROVE  DraftIInv'
  <2>1. predicted' = predicted /\ pos' = pos + 1 BY <1>7 DEF PrefillObserve
  <2>2. PICK p \in Nat : p = pos BY DEF StepInv
  <2>3. PICK u \in Nat, v \in Nat : u = PageId(p) /\ v = PageId(p + 1) /\ u <= v
    BY PageOrder
  <2>4. PageId(pos)' = v BY <2>1, <2>2, <2>3 DEF PageId
  <2>5. predicted \subseteq 0..u BY <2>2, <2>3 DEF PredictedInv
  <2>6. predicted \subseteq 0..v BY <2>3, <2>5
  <2>7. PredictedInv' BY <2>1, <2>4, <2>6 DEF PredictedInv
  <2> QED BY <1>7, <2>7, PrefillObserveStep
<1> QED BY <1>2, <1>3, <1>4, <1>5, <1>6, <1>7 DEF DraftingNext

LEMMA DraftStart == DraftingInit => DraftIInv
<1> SUFFICES ASSUME DraftingInit PROVE DraftIInv OBVIOUS
<1>1. PredictedInv BY NothingPredicted DEF DraftingInit, PredictedInv
<1> QED BY <1>1, DraftingStart DEF DraftIInv

LEMMA DraftIInvImplies == DraftIInv => DraftInv
<1> SUFFICES ASSUME DraftIInv PROVE DraftInv OBVIOUS
<1> USE DEF DraftIInv
<1>1. RingIsHistory /\ DraftFollowsMatch BY DraftImplies
<1>2. AttendsWrittenOnce BY AttendImplies DEF StepInv
<1>3. PredictedPagesWritten
  <2>1. PageId(pos) \in Nat BY PageOrder DEF StepInv
  <2> QED BY <2>1 DEF PredictedInv, PredictedPagesWritten
<1>4. FileIsSnapshot
  <2>1. file.kind /= "partial" BY DEF FileInv, Absent
  <2>2. ASSUME file.kind = "whole" PROVE file.len = Min({Len(file.hist), Capacity})
    <3>1. RingGood(file.ring, file.head, file.len, file.hist) BY <2>2 DEF FileInv, Absent
    <3>2. PICK n \in Nat, c \in Nat : n = Len(file.hist) /\ c = Capacity
      BY <3>1, DraftingAssumption DEF RingGood
    <3>3. Min({n, c}) = IF n <= c THEN n ELSE c
      <4>1. n \in Int /\ c \in Int OBVIOUS
      <4> QED BY <4>1, MinOfPair
    <3>4. file.len = IF n < c THEN n ELSE c BY <3>1, <3>2 DEF RingGood
    <3> QED BY <3>2, <3>3, <3>4
  <2>3. ASSUME ~ unsaved
        PROVE  Len(hist) <= SaveEvery + 1 + (IF file.kind = "whole" THEN Len(file.hist) ELSE 0)
    <3>1. PICK b \in Nat \ {0} : b = SaveEvery BY DraftingAssumption
    <3>2. PICK k \in Nat : k = count BY DEF StepInv
    <3>3. PICK v \in 0..(b - 1) : v = k % b BY SuccessorMod
    <3>4. PICK f \in Nat : f = Filed BY DEF FileInv, Filed, RingGood, Absent
    <3>5. SinceSaved = b \/ SinceSaved = v BY <3>1, <3>2, <3>3 DEF SinceSaved
    <3>6. Uncounted \in {0, 1} BY DEF Uncounted
    <3>7. Len(hist) \in Nat /\ Len(hist) <= f + SinceSaved + Uncounted
      BY <2>3, <3>4, LenType DEF SavedInv
    <3>8. Len(hist) <= b + 1 + f BY <3>5, <3>6, <3>7
    <3> QED BY <3>1, <3>4, <3>8 DEF Filed
  <2> QED BY <2>1, <2>2, <2>3 DEF FileIsSnapshot
<1> QED BY <1>1, <1>2, <1>3, <1>4 DEF DraftInv

----------------------------------------------------------------------------
(* The logit cache and the counters of speculation *)

\* How many insertions ago the slot i of a cache in use was filled.
Age(i) == IF i < lcHead THEN lcHead - 1 - i ELSE lcHead + LcCapacity - 1 - i

CacheTyped ==
  /\ inserts \in Seq([hash : LcHashes, token : LcTokens])
  /\ cleared \in 0..Len(inserts)
  /\ lcLen \in 0..LcCapacity /\ lcHead \in 0..(LcCapacity - 1)
  /\ DOMAIN entries = 0..(LcCapacity - 1)

\* The slots are filled in turn from the first; each holds the youngest insertion
\* that it was given.
CacheFilled ==
  /\ lcLen < LcCapacity => lcHead = lcLen /\ lcLen = Len(inserts) - cleared
  /\ lcLen = LcCapacity => lcLen <= Len(inserts) - cleared
  /\ \A i \in 0..(lcLen - 1) :
        LET n == Len(inserts) - Age(i)
        IN  entries[i] = [hash |-> inserts[n].hash, token |-> inserts[n].token, logits |-> n]

CountersTyped ==
  /\ returned \in Nat
  /\ stats \in [steps : Nat, drafts : Nat, accepted : Nat, rejectedSteps : Nat,
                draftAccepted : Nat, draftRejected : Nat]

SpeculationIInv == CacheTyped /\ CacheFilled /\ CountersTyped /\ SpeculationAccounted

LEMMA MinOfNumbers ==
  ASSUME NEW T, T \subseteq Nat, T # {}
  PROVE  Min(T) \in T /\ \A x \in T : Min(T) <= x
<1> DEFINE IsMin(x) == x \in T /\ \A y \in T : x <= y
<1>1. \E x : IsMin(x) BY LeastNumber
<1>2. Min(T) = CHOOSE x : IsMin(x) BY DEF Min
<1>3. IsMin(Min(T))
  <2> HIDE DEF IsMin
  <2> QED BY <1>1, <1>2
<1> QED BY <1>3

\* The slots in use hold the insertions since the last clear, as many as fit.
LEMMA AgeType ==
  ASSUME CacheTyped, CacheFilled, NEW i \in 0..(lcLen - 1)
  PROVE  /\ Age(i) \in 0..(lcLen - 1)
         /\ lcLen <= Len(inserts) - cleared
         /\ Len(inserts) - Age(i) \in (cleared + 1)..Len(inserts)
         /\ Len(inserts) - Age(i) \in 1..Len(inserts)
<1>1. PICK N \in Nat : N = Len(inserts) BY DEF CacheTyped
<1>2. LcCapacity \in Nat \ {0} BY SpeculationAssumption
<1>3. /\ cleared \in 0..N /\ lcLen \in 0..LcCapacity /\ lcHead \in 0..(LcCapacity - 1)
  BY <1>1 DEF CacheTyped
<1>4. /\ lcLen < LcCapacity => lcHead = lcLen /\ lcLen = N - cleared
      /\ lcLen = LcCapacity => lcLen <= N - cleared
  BY <1>1 DEF CacheFilled
<1>5. Age(i) \in 0..(lcLen - 1) /\ lcLen <= N - cleared
  BY <1>2, <1>3, <1>4 DEF Age
<1>6. PICK a : a = Age(i) OBVIOUS
<1>7. N - a \in (cleared + 1)..N /\ N - a \in 1..N BY <1>1, <1>3, <1>5, <1>6
<1> QED BY <1>1, <1>5, <1>6, <1>7

LEMMA SlotOfAge ==
  ASSUME CacheTyped, CacheFilled, NEW a \in 0..(lcLen - 1)
  PROVE  \E i \in 0..(lcLen - 1) : Age(i) = a
<1>1. LcCapacity \in Nat \ {0} BY SpeculationAssumption
<1>2. lcLen \in 0..LcCapacity /\ lcHead \in 0..(LcCapacity - 1) BY DEF CacheTyped
<1>3. lcLen < LcCapacity => lcHead = lcLen BY DEF CacheFilled
<1>4. CASE a < lcHead
  <2>1. lcHead - 1 - a \in 0..(lcLen - 1) BY <1>1, <1>2, <1>3, <1>4
  <2>2. Age(lcHead - 1 - a) = a BY <1>1, <1>2, <1>4 DEF Age
  <2> QED BY <2>1, <2>2
<1>5. CASE ~ (a < lcHead)
  <2>1. lcLen = LcCapacity BY <1>1, <1>2, <1>3, <1>5
  <2>2. lcHead + LcCapacity - 1 - a \in 0..(lcLen - 1) BY <1>1, <1>2, <1>5, <2>1
  <2>3. Age(lcHead + LcCapacity - 1 - a) = a BY <1>1, <1>2, <1>5, <2>1 DEF Age
  <2> QED BY <2>2, <2>3
<1> QED BY <1>4, <1>5

LEMMA CacheImplies == CacheTyped /\ CacheFilled => HitsAreCurrent
<1> SUFFICES ASSUME CacheTyped, CacheFilled, NEW hash \in LcHashes, NEW token \in LcTokens
             PROVE  LET hit == Lookup(hash, token)
                        recent == {n \in (cleared + 1) .. Len(inserts) :
                                     n + LcCapacity > Len(inserts)
                                     /\ inserts[n] = [hash |-> hash, token |-> token]}
                    IN  /\ hit /= 0 => hit > cleared /\ inserts[hit] = [hash |-> hash, token |-> token]
                        /\ hit = 0 <=> recent = {}
  BY Zenon DEF HitsAreCurrent
<1> DEFINE hits == {i \in 0..(lcLen - 1) : entries[i].hash = hash /\ entries[i].token = token
                                            /\ entries[i].logits /= 0}
           hit == Lookup(hash, token)
           recent == {n \in (cleared + 1) .. Len(inserts) :
                        n + LcCapacity > Len(inserts)
                        /\ inserts[n] = [hash |-> hash, token |-> token]}
<1>0. /\ Len(inserts) \in Nat /\ LcCapacity \in Nat \ {0} /\ lcLen \in 0..LcCapacity
      /\ cleared \in Nat
      /\ \A n \in 1..Len(inserts) : inserts[n] \in [hash : LcHashes, token : LcTokens]
  BY SpeculationAssumption DEF CacheTyped
<1>1. hit = IF hits = {} THEN 0 ELSE entries[Min(hits)].logits BY DEF Lookup
<1>2. ASSUME hits # {}
      PROVE  hit > cleared /\ inserts[hit] = [hash |-> hash, token |-> token] /\ hit \in recent
  <2>1. hits \subseteq Nat BY <1>0
  <2>2. PICK i \in hits : i = Min(hits) BY <1>2, <2>1, MinOfNumbers
  <2>3. i \in 0..(lcLen - 1) /\ entries[i].hash = hash /\ entries[i].token = token OBVIOUS
  <2>4. PICK n : n = Len(inserts) - Age(i) OBVIOUS
  <2>5. entries[i] = [hash |-> inserts[n].hash, token |-> inserts[n].token, logits |-> n]
    BY <2>3, <2>4 DEF CacheFilled
  <2>6. Age(i) \in 0..(lcLen - 1) /\ n \in (cleared + 1)..Len(inserts) /\ n \in 1..Len(inserts)
    BY <2>3, <2>4, AgeType
  <2>7. hit = n BY <1>1, <1>2, <2>2, <2>5
  <2>8. inserts[n] = [hash |-> hash, token |-> token] BY <1>0, <2>3, <2>5, <2>6
  <2>9. n + LcCapacity > Len(inserts) BY <1>0, <2>4, <2>6
  <2>10. n > cleared BY <1>0, <2>6
  <2> HIDE DEF hits, hit
  <2> QED BY <2>6, <2>7, <2>8, <2>9, <2>10
<1>3. ASSUME NEW n \in recent PROVE hits # {}
  <2>1. n \in (cleared + 1)..Len(inserts) /\ n + LcCapacity > Len(inserts)
        /\ inserts[n] = [hash |-> hash, token |-> token]
    OBVIOUS
  <2>2. Len(inserts) - n \in 0..(lcLen - 1)
    <3>1. lcLen < LcCapacity => lcLen = Len(inserts) - cleared BY DEF CacheFilled
    <3> QED BY <1>0, <2>1, <3>1
  <2>3. PICK i \in 0..(lcLen - 1) : Age(i) = Len(inserts) - n BY <2>2, SlotOfAge
  <2>4. Len(inserts) - Age(i) = n BY <1>0, <2>1, <2>3
  <2>5. entries[i] = [hash |-> inserts[n].hash, token |-> inserts[n].token, logits |-> n]
    BY <2>3, <2>4 DEF CacheFilled
  <2>6. n /= 0 BY <1>0, <2>1
  <2> QED BY <2>1, <2>3, <2>5, <2>6
<1>4. hits = {} => hit = 0 BY <1>1
<1>5. hits # {} => hit # 0 BY <1>0, <1>2
<1> HIDE DEF hits, hit, recent
<1>6. hit /= 0 => hit > cleared /\ inserts[hit] = [hash |-> hash, token |-> token]
  BY <1>2, <1>4
<1>7. hit = 0 <=> recent = {} BY <1>2, <1>3, <1>4, <1>5
<1> QED BY <1>6, <1>7 DEF hit, recent

LEMMA InsertStep ==
  ASSUME CacheTyped, CacheFilled, NEW hash \in LcHashes, NEW token \in LcTokens,
         Insert(hash, token)
  PROVE  CacheTyped' /\ CacheFilled'
<1>1. PICK N \in Nat : N = Len(inserts) BY DEF CacheTyped
<1>2. LcCapacity \in Nat \ {0} BY SpeculationAssumption
<1>3. /\ cleared \in 0..N /\ lcLen \in 0..LcCapacity /\ lcHead \in 0..(LcCapacity - 1)
  BY <1>1 DEF CacheTyped
<1>4. /\ lcLen < LcCapacity => lcHead = lcLen /\ lcLen = N - cleared
      /\ lcLen = LcCapacity => lcLen <= N - cleared
  BY <1>1 DEF CacheFilled
<1>5. lcHead' = IF lcHead + 1 = LcCapacity THEN 0 ELSE lcHead + 1
  <2>1. lcHead' = (lcHead + 1) % LcCapacity BY DEF Insert
  <2>2. PICK x \in Nat, c \in Nat \ {0} : x = lcHead + 1 /\ c = LcCapacity /\ x < c + c
    BY <1>2, <1>3
  <2>3. x % c = IF x < c THEN x ELSE x - c BY <2>2, WrapsOnce, Zenon
  <2> QED BY <1>2, <1>3, <2>1, <2>2, <2>3
<1>6. lcLen' = IF lcLen + 1 <= LcCapacity THEN lcLen + 1 ELSE LcCapacity
  <2>1. lcLen' = Min({lcLen + 1, LcCapacity}) BY DEF Insert
  <2>2. lcLen + 1 \in Int /\ LcCapacity \in Int BY <1>2, <1>3
  <2> QED BY <2>1, <2>2, MinOfPair
<1>7. PICK e : e = [hash |-> hash, token |-> token] OBVIOUS
<1>8. e \in [hash : LcHashes, token : LcTokens] BY <1>7
<1>9. /\ inserts' = Append(inserts, e) /\ cleared' = cleared
      /\ entries' = [entries EXCEPT ![lcHead] =
                        [hash |-> hash, token |-> token, logits |-> N + 1]]
  BY <1>1, <1>7 DEF Insert
<1>10. /\ Len(inserts') = N + 1 /\ inserts'[N + 1] = e
       /\ \A n \in 1..N : inserts'[n] = inserts[n]
       /\ inserts' \in Seq([hash : LcHashes, token : LcTokens])
  BY <1>1, <1>8, <1>9 DEF CacheTyped
<1>11. DOMAIN entries' = 0..(LcCapacity - 1) BY <1>9 DEF CacheTyped
<1>12. CacheTyped'
  <2>1. cleared' \in 0..(N + 1) BY <1>3, <1>9
  <2>2. lcLen' \in 0..LcCapacity BY <1>2, <1>3, <1>6
  <2>3. lcHead' \in 0..(LcCapacity - 1) BY <1>2, <1>3, <1>5
  <2> QED BY <1>10, <1>11, <2>1, <2>2, <2>3 DEF CacheTyped
<1>13. ASSUME NEW i \in 0..(lcLen' - 1)
       PROVE  LET n == Len(inserts') - (IF i < lcHead' THEN lcHead' - 1 - i
                                        ELSE lcHead' + LcCapacity - 1 - i)
              IN  entries'[i] = [hash |-> inserts'[n].hash, token |-> inserts'[n].token,
                                 logits |-> n]
  <2> DEFINE age == IF i < lcHead' THEN lcHead' - 1 - i ELSE lcHead' + LcCapacity - 1 - i
             n == Len(inserts') - age
  <2>1. CASE i = lcHead
    <3>1. age = 0 BY <1>2, <1>3, <1>5, <2>1
    <3>2. n = N + 1 BY <1>10, <3>1
    <3>3. entries'[i] = [hash |-> hash, token |-> token, logits |-> N + 1]
      BY <1>3, <1>9, <2>1 DEF CacheTyped
    <3> HIDE DEF n
    <3>4. inserts'[n].hash = hash /\ inserts'[n].token = token BY <1>7, <1>10, <3>2
    <3> QED BY <3>2, <3>3, <3>4 DEF n
  <2>2. CASE i # lcHead
    <3>1. i \in 0..(lcLen - 1) BY <1>2, <1>3, <1>4, <1>6, <2>2
    <3>2. age = Age(i) + 1 BY <1>2, <1>3, <1>4, <1>5, <2>2, <3>1 DEF Age
    <3>3. Age(i) \in 0..(lcLen - 1) /\ N - Age(i) \in 1..N BY <1>1, <3>1, AgeType
    <3>4. n = N - Age(i) BY <1>1, <1>3, <1>10, <3>2, <3>3
    <3> HIDE DEF n
    <3>5. entries[i] = [hash |-> inserts[n].hash, token |-> inserts[n].token, logits |-> n]
      BY <1>1, <3>1, <3>4 DEF CacheFilled
    <3>6. entries'[i] = entries[i] BY <1>9, <2>2, <1>3, <3>1 DEF CacheTyped
    <3>7. inserts'[n] = inserts[n] BY <1>10, <3>3, <3>4
    <3> QED BY <3>5, <3>6, <3>7 DEF n
  <2> QED BY <2>1, <2>2
<1>14. LcCapacity' = LcCapacity OBVIOUS
<1>15. /\ lcLen' < LcCapacity => lcHead' = lcLen' /\ lcLen' = Len(inserts') - cleared'
       /\ lcLen' = LcCapacity => lcLen' <= Len(inserts') - cleared'
  BY <1>2, <1>3, <1>4, <1>5, <1>6, <1>9, <1>10
<1> QED BY <1>12, <1>13, <1>15 DEF CacheFilled, Age

LEMMA ClearStep ==
  ASSUME CacheTyped, CacheFilled, Clear
  PROVE  CacheTyped' /\ CacheFilled'
<1>1. LcCapacity \in Nat \ {0} BY SpeculationAssumption
<1>2. /\ lcHead' = 0 /\ lcLen' = 0 /\ cleared' = Len(inserts)
      /\ inserts' = inserts /\ entries' = entries
  BY DEF Clear, AfterClear
<1>3. Len(inserts) \in Nat BY DEF CacheTyped
<1>4. CacheTyped' BY <1>1, <1>2, <1>3 DEF CacheTyped
<1>5. \A i \in 0..(lcLen' - 1) : FALSE BY <1>2
<1>6. CacheFilled' BY <1>1, <1>2, <1>3, <1>5 DEF CacheFilled
<1> QED BY <1>4, <1>6

\* Of a sequence that goes on as far as its first token that is not accepted, at
\* most one is not.
LEMMA CountOfOne ==
  ASSUME NEW n \in Nat, NEW s \in [1..n -> {"accept", "reject", "zero"}],
         NEW m, \A i \in 1..n : s[i] # "accept" => i = m
  PROVE  /\ Count(s, "accept") \in Nat
         /\ Count(s, "zero") \in {0, 1} /\ Count(s, "reject") \in {0, 1}
         /\ Count(s, "zero") = 0 \/ Count(s, "reject") = 0
<1> DEFINE At1(w) == {i \in DOMAIN s : s[i] = w}
<1>1. IsFiniteSet(1..n) BY FS_Interval
<1>2. At1("accept") \subseteq 1..n OBVIOUS
<1>3. Cardinality(At1("accept")) \in Nat BY <1>1, <1>2, FS_Subset, FS_CardinalityType
<1>4. ASSUME NEW w \in {"zero", "reject"}
      PROVE  At1(w) = {} \/ At1(w) = {m}
  BY <1>4
<1>5. Cardinality({}) = 0 /\ Cardinality({m}) = 1 BY FS_EmptySet, FS_Singleton
<1>6. At1("zero") = {} \/ At1("reject") = {} BY <1>4
<1> QED BY <1>3, <1>4, <1>5, <1>6 DEF Count

LEMMA ExaminedCounts ==
  ASSUME NEW n \in Nat, NEW outcome \in [1..n -> {"accept", "reject", "zero"}]
  PROVE  LET seen == Examined(outcome) IN
         /\ Len(seen) \in Nat
         /\ Count(seen, "accept") \in Nat
         /\ Count(seen, "zero") \in {0, 1} /\ Count(seen, "reject") \in {0, 1}
         /\ Count(seen, "zero") = 0 \/ Count(seen, "reject") = 0
<1> DEFINE ends == {i \in DOMAIN outcome : outcome[i] /= "accept"}
<1>1. CASE ends = {}
  <2>1. Examined(outcome) = outcome BY <1>1 DEF Examined
  <2>2. outcome \in Seq({"accept", "reject", "zero"}) BY SeqDef
  <2>3. Len(outcome) \in Nat BY <2>2
  <2>4. \A i \in 1..n : outcome[i] # "accept" => i = n BY <1>1
  <2> QED BY <2>1, <2>3, <2>4, CountOfOne
<1>2. CASE ends # {}
  <2>1. ends \subseteq Nat OBVIOUS
  <2>2. PICK m \in ends : m = Min(ends) /\ \A x \in ends : m <= x
    BY <1>2, <2>1, MinOfNumbers
  <2>3. m \in 1..n OBVIOUS
  <2>4. Examined(outcome) = SubSeq(outcome, 1, m) BY <1>2, <2>2 DEF Examined
  <2>5. PICK s : s = SubSeq(outcome, 1, m) OBVIOUS
  <2>6. outcome \in Seq({"accept", "reject", "zero"}) /\ Len(outcome) = n BY SeqDef
  <2>7. Len(s) = m /\ DOMAIN s = 1..m /\ \A i \in 1..m : s[i] = outcome[i]
    BY <2>3, <2>5, <2>6
  <2>10. s = [i \in 1..m |-> outcome[i]] BY <2>3, <2>5, <2>6
  <2>11. s \in [1..m -> {"accept", "reject", "zero"}] BY <2>3, <2>10
  <2>8. \A i \in 1..m : s[i] # "accept" => i = m BY <2>2, <2>3, <2>7
  <2>9. m \in Nat BY <2>3
  <2>12. /\ Count(s, "accept") \in Nat
         /\ Count(s, "zero") \in {0, 1} /\ Count(s, "reject") \in {0, 1}
         /\ Count(s, "zero") = 0 \/ Count(s, "reject") = 0
    BY <2>8, <2>9, <2>11, CountOfOne, Zenon
  <2> QED BY <2>4, <2>5, <2>7, <2>9, <2>12
<1> QED BY <1>1, <1>2

LEMMA SpeculateStep ==
  ASSUME CountersTyped, SpeculationAccounted, NEW n \in Nat,
         NEW outcome \in [1..n -> {"accept", "reject", "zero"}], Speculate(outcome)
  PROVE  CountersTyped' /\ SpeculationAccounted'
<1>1. PICK k \in Nat : k = Len(Examined(outcome)) BY ExaminedCounts
<1>2. PICK a \in Nat : a = Count(Examined(outcome), "accept") BY ExaminedCounts
<1>3. PICK z \in {0, 1} : z = Count(Examined(outcome), "zero") BY ExaminedCounts
<1>4. PICK r \in {0, 1} : r = Count(Examined(outcome), "reject") BY ExaminedCounts
<1>5. z = 0 \/ r = 0 BY <1>3, <1>4, ExaminedCounts
<1>6. /\ stats' = [steps |-> stats.steps + 1, drafts |-> stats.drafts + k,
                   accepted |-> stats.accepted + 1 + a,
                   rejectedSteps |-> stats.rejectedSteps + z + r,
                   draftAccepted |-> stats.draftAccepted + a,
                   draftRejected |-> stats.draftRejected + r]
      /\ returned' = returned + 1 + a + r
  BY <1>1, <1>2, <1>3, <1>4 DEF Speculate
<1>7. PICK t \in Nat, d \in Nat, c \in Nat, x \in Nat, p \in Nat, q \in Nat :
        /\ stats.steps = t /\ stats.drafts = d /\ stats.accepted = c
        /\ stats.rejectedSteps = x /\ stats.draftAccepted = p /\ stats.draftRejected = q
  BY DEF CountersTyped
<1>8. returned \in Nat /\ x <= t /\ returned = c + q /\ c = t + p
  BY <1>7 DEF CountersTyped, SpeculationAccounted
<1>9. /\ t + 1 \in Nat /\ d + k \in Nat /\ c + 1 + a \in Nat /\ x + z + r \in Nat
      /\ p + a \in Nat /\ q + r \in Nat
  OBVIOUS
<1>10. stats' = [steps |-> t + 1, drafts |-> d + k, accepted |-> c + 1 + a,
                 rejectedSteps |-> x + z + r, draftAccepted |-> p + a,
                 draftRejected |-> q + r]
  BY <1>6, <1>7
<1>11. /\ stats'.steps = t + 1 /\ stats'.accepted = c + 1 + a
       /\ stats'.rejectedSteps = x + z + r /\ stats'.draftAccepted = p + a
       /\ stats'.draftRejected = q + r
  BY <1>10
<1>12. returned' = c + q + 1 + a + r BY <1>6, <1>8
<1>13. CountersTyped' BY <1>9, <1>10, <1>12 DEF CountersTyped
<1>14. /\ x + z + r <= t + 1 /\ c + q + 1 + a + r = (c + 1 + a) + (q + r)
       /\ c + 1 + a = (t + 1) + (p + a)
  BY <1>5, <1>8
<1>15. SpeculationAccounted' BY <1>11, <1>12, <1>14 DEF SpeculationAccounted
<1> QED BY <1>13, <1>15

LEMMA SpeculationStart == SpeculationInit => SpeculationIInv
<1> SUFFICES ASSUME SpeculationInit PROVE SpeculationIInv OBVIOUS
<1>1. LcCapacity \in Nat \ {0} BY SpeculationAssumption
<1>2. CacheTyped BY <1>1 DEF SpeculationInit, CacheTyped
<1>3. CacheFilled BY <1>1 DEF SpeculationInit, CacheFilled
<1>4. CountersTyped /\ SpeculationAccounted
  BY DEF SpeculationInit, CountersTyped, SpeculationAccounted
<1> QED BY <1>2, <1>3, <1>4 DEF SpeculationIInv

LEMMA SpeculationStep ==
  ASSUME SpeculationIInv, (CacheNext \/ SpeculateNext) \/ UNCHANGED specVars
  PROVE  SpeculationIInv'
<1> USE DEF SpeculationIInv
<1>1. ASSUME UNCHANGED <<stats, returned>>
      PROVE  CountersTyped' /\ SpeculationAccounted'
  BY <1>1 DEF CountersTyped, SpeculationAccounted
<1>2. ASSUME UNCHANGED <<entries, lcHead, lcLen, inserts, cleared>>
      PROVE  CacheTyped' /\ CacheFilled'
  BY <1>2 DEF CacheTyped, CacheFilled, Age
<1>3. ASSUME NEW hash \in LcHashes, NEW token \in LcTokens, Insert(hash, token)
      PROVE  SpeculationIInv'
  <2>1. UNCHANGED <<stats, returned>> BY <1>3 DEF Insert
  <2>2. CacheTyped' /\ CacheFilled' BY <1>3, InsertStep
  <2> QED BY <1>1, <2>1, <2>2
<1>4. CASE Clear
  <2>1. UNCHANGED <<stats, returned>> BY <1>4 DEF Clear
  <2>2. CacheTyped' /\ CacheFilled' BY <1>4, ClearStep
  <2> QED BY <1>1, <2>1, <2>2
<1>5. ASSUME NEW n \in 0..MaxDraft, NEW outcome \in [1..n -> {"accept", "reject", "zero"}],
             Speculate(outcome)
      PROVE  SpeculationIInv'
  <2>1. UNCHANGED <<entries, lcHead, lcLen, inserts, cleared>> BY <1>5 DEF Speculate
  <2>2. n \in Nat BY SpeculationAssumption
  <2>3. CountersTyped' /\ SpeculationAccounted' BY <1>5, <2>2, SpeculateStep
  <2> QED BY <1>2, <2>1, <2>3
<1>6. CASE UNCHANGED specVars BY <1>1, <1>2, <1>6 DEF specVars
<1> QED BY <1>3, <1>4, <1>5, <1>6 DEF CacheNext, SpeculateNext

\* However generations, saves, crashes and loads follow one another: what is drafted
\* are the tokens that followed the nearest observation, attention reads positions
\* this generation has written, each once, no page is fetched ahead that it has not
\* reached, the file is whole and, unless a save failed, at most SaveEvery counted
\* observations and one uncounted behind; a hit of the logit cache brings logits
\* inserted for that pair after the last clear, of a pair inserted twice possibly the
\* older ones; and the counters of speculation add up to the tokens it has returned.
THEOREM DecoderKeepsTrack == DsparkSpec => []DsparkInv
<1> DEFINE IInv == DraftIInv /\ SpeculationIInv
<1>1. DraftingInit /\ SpeculationInit => IInv BY DraftStart, SpeculationStart
<1>2. IInv /\ [DsparkNext]_<<draftVars, specVars>> => IInv'
  <2> SUFFICES ASSUME DraftIInv, SpeculationIInv, [DsparkNext]_<<draftVars, specVars>>
               PROVE  DraftIInv' /\ SpeculationIInv'
    OBVIOUS
  <2>1. CASE DraftingNext /\ UNCHANGED specVars BY <2>1, DraftStep, SpeculationStep
  <2>2. CASE (CacheNext \/ SpeculateNext) /\ UNCHANGED draftVars
    BY <2>2, DraftStep, SpeculationStep
  <2>3. CASE UNCHANGED <<draftVars, specVars>>
    <3>1. UNCHANGED draftVars /\ UNCHANGED specVars BY <2>3
    <3> QED BY <3>1, DraftStep, SpeculationStep
  <2> QED BY <2>1, <2>2, <2>3 DEF DsparkNext
<1>3. IInv => DsparkInv
  BY DraftIInvImplies, CacheImplies, Zenon DEF SpeculationIInv, SpeculationInv, DsparkInv
<1> HIDE DEF IInv
<1> QED BY <1>1, <1>2, <1>3, PTL DEF DsparkSpec

-----------------------------------------------------------------------------
(* The sampler: masses of tokens                                           *)

LEMMA MassIsChosen ==
  ASSUME NEW w, NEW s, NEW n \in Nat, DOMAIN s = 1..n
  PROVE  Mass(w, s) = (CHOOSE f : FoldOn("mass", w, 0, f, s, n))[1..n]
<1> DEFINE Fold(g) == g = [t \in SUBSET (1..n) |-> IF t = {} THEN 0
                                     ELSE g[t \ {Max(t)}] + w[s[Max(t)]]]
<1>1. Mass(w, s) = (CHOOSE g : Fold(g))[1..n]
  BY DEF Mass, FoldLeft, MapThenFoldSet
<1>2. \A acc, x : Folded("mass", w, acc, x) = acc + w[x] BY DEF Folded
<1>3. \A g : FoldOn("mass", w, 0, g, s, n) <=> Fold(g) BY <1>2 DEF FoldOn
<1> HIDE DEF Fold
<1>4. (CHOOSE f : FoldOn("mass", w, 0, f, s, n)) = (CHOOSE g : Fold(g))
  BY <1>3, Zenon
<1> QED BY <1>1, <1>4

\* What P sums up of the weights a is never less for more of them.
LEMMA SumsGrow ==
  ASSUME NEW v \in Nat, NEW a \in [1..v -> Nat], NEW P, P[0] = 0,
         \A i \in 1..v : P[i] = P[i - 1] + a[i]
  PROVE  /\ \A i \in 0..v : P[i] \in Nat
         /\ \A i, j \in 0..v : i <= j => P[i] <= P[j]
<1>1. \A i \in 0..v : P[i] \in Nat
  <2> DEFINE T == {k \in 0..v : P[k] \notin Nat}
  <2> SUFFICES ASSUME T # {} PROVE FALSE OBVIOUS
  <2>1. T \subseteq Nat OBVIOUS
  <2>2. PICK k \in T : \A j \in T : k <= j BY <2>1, LeastNumber
  <2>3. k # 0 BY <2>2
  <2>4. k - 1 \in 0..v /\ k \in 1..v /\ k - 1 \notin T BY <2>2, <2>3
  <2>5. P[k - 1] \in Nat /\ a[k] \in Nat BY <2>4
  <2>6. P[k] = P[k - 1] + a[k] BY <2>4
  <2> QED BY <2>2, <2>5, <2>6
<1>2. ASSUME NEW i \in 0..v, NEW j \in 0..v, i <= j PROVE P[i] <= P[j]
  <2> DEFINE T == {k \in 0..v : i <= k /\ ~ (P[i] <= P[k])}
  <2> SUFFICES ASSUME T # {} PROVE FALSE BY <1>2
  <2>1. T \subseteq Nat OBVIOUS
  <2>2. PICK k \in T : \A m \in T : k <= m BY <2>1, LeastNumber
  <2>3. k # i BY <1>1, <2>2
  <2>4. k - 1 \in 0..v /\ k \in 1..v /\ i <= k - 1 /\ k - 1 \notin T BY <2>2, <2>3
  <2>5. P[i] <= P[k - 1] BY <2>4
  <2>6. P[k] = P[k - 1] + a[k] /\ a[k] \in Nat BY <2>4
  <2>7. P[i] \in Nat /\ P[k - 1] \in Nat BY <1>1, <2>4
  <2> QED BY <2>2, <2>5, <2>6, <2>7
<1> QED BY <1>1, <1>2

\* The masses of the first tokens of a sequence of v.
PrefixMass(P, w, v, s) ==
  /\ P[0] = 0
  /\ \A i \in 1..v : P[i] = P[i - 1] + w[s[i]]
  /\ \A i \in 0..v : \A u : DOMAIN u = 1..i /\ (\A j \in 1..i : u[j] = s[j]) =>
        Mass(w, u) = P[i]

LEMMA PrefixMasses ==
  ASSUME NEW w, NEW v \in Nat, NEW s, DOMAIN s = 1..v
  PROVE  \E P : PrefixMass(P, w, v, s)
<1>1. PICK g : FoldOn("mass", w, 0, g, s, v) BY FoldExists
<1> DEFINE P == [i \in 0..v |-> g[1..i]]
<1>2. P[0] = 0
  <2>1. 1..0 = {} /\ 1..0 \in SUBSET (1..v) OBVIOUS
  <2>2. g[1..0] = 0 BY <1>1, <2>1, Zenon DEF FoldOn
  <2> QED BY <2>2
<1>3. ASSUME NEW i \in 1..v PROVE P[i] = P[i - 1] + w[s[i]]
  <2>1. 1..i \in SUBSET (1..v) /\ 1..i # {} /\ (1..i) \ {i} = 1..(i - 1) /\ i \in 1..i /\ i \in Nat
    OBVIOUS
  <2>2. Max(1..i) = i BY <2>1, MaxIsLast
  <2>3. g[1..i] = Folded("mass", w, g[1..(i - 1)], s[i]) BY <1>1, <2>1, <2>2, Zenon DEF FoldOn
  <2>4. g[1..i] = g[1..(i - 1)] + w[s[i]] BY <2>3 DEF Folded
  <2>5. i - 1 \in 0..v /\ i \in 0..v OBVIOUS
  <2> QED BY <2>4, <2>5
<1>4. ASSUME NEW i \in 0..v, NEW u, DOMAIN u = 1..i, \A j \in 1..i : u[j] = s[j]
      PROVE  Mass(w, u) = P[i]
  <2>1. i \in Nat /\ i <= v OBVIOUS
  <2>2. Mass(w, u) = (CHOOSE f : FoldOn("mass", w, 0, f, u, i))[1..i]
    BY <1>4, <2>1, MassIsChosen
  <2>3. PICK h : h = (CHOOSE f : FoldOn("mass", w, 0, f, u, i)) OBVIOUS
  <2>4. FoldOn("mass", w, 0, h, u, i) BY <2>1, <2>3, FoldExists, Zenon
  <2>5. h[1..i] = g[1..i] BY <1>1, <1>4, <2>1, <2>4, FoldsAgree
  <2> QED BY <2>2, <2>3, <2>5
<1> HIDE DEF P
<1>5. PrefixMass(P, w, v, s) BY <1>2, <1>3, <1>4 DEF PrefixMass
<1> QED BY <1>5

\* What SumOver adds up, told by its prefixes.
LEMMA SumOverPrefixes ==
  ASSUME NEW w, NEW S
  PROVE  \E P : /\ P[0] = 0
                /\ \A i \in TokenIds : P[i] = P[i - 1] + (IF i \in S THEN w[i] ELSE 0)
                /\ SumOver(w, S) = P[Vocabulary]
<1>1. PICK v \in Nat : v = Vocabulary BY SamplerAssumption
<1>2. PICK a : a = [t \in TokenIds |-> IF t \in S THEN w[t] ELSE 0] OBVIOUS
<1>3. PICK id : id = [i \in TokenIds |-> i] OBVIOUS
<1>4. DOMAIN id = 1..v /\ \A i \in 1..v : id[i] = i BY <1>1, <1>3 DEF TokenIds
<1>10. PICK P : PrefixMass(P, a, v, id) BY <1>4, PrefixMasses
<1>5. /\ P[0] = 0
      /\ \A i \in 1..v : P[i] = P[i - 1] + a[id[i]]
      /\ \A i \in 0..v : \A u : DOMAIN u = 1..i /\ (\A j \in 1..i : u[j] = id[j]) =>
            Mass(a, u) = P[i]
  BY <1>10 DEF PrefixMass
<1>6. v \in 0..v BY <1>1
<1>7. Mass(a, id) = P[v] BY <1>4, <1>5, <1>6
<1>8. SumOver(w, S) = P[v] BY <1>2, <1>3, <1>7 DEF SumOver
<1>9. \A i \in TokenIds : P[i] = P[i - 1] + (IF i \in S THEN w[i] ELSE 0)
  BY <1>1, <1>2, <1>4, <1>5 DEF TokenIds
<1> QED BY <1>1, <1>5, <1>8, <1>9

LEMMA SumOverNothing ==
  ASSUME NEW w
  PROVE  SumOver(w, {}) = 0
<1>1. PICK v \in Nat : v = Vocabulary BY SamplerAssumption
<1>2. PICK P : /\ P[0] = 0
               /\ \A i \in TokenIds : P[i] = P[i - 1] + (IF i \in {} THEN w[i] ELSE 0)
               /\ SumOver(w, {}) = P[Vocabulary]
  BY SumOverPrefixes
<1>3. \A i \in 1..v : P[i] = P[i - 1] + 0 BY <1>1, <1>2 DEF TokenIds
<1> DEFINE T == {k \in 0..v : P[k] # 0}
<1>4. ASSUME T # {} PROVE FALSE
  <2>1. T \subseteq Nat OBVIOUS
  <2>2. PICK k \in T : \A j \in T : k <= j BY <1>4, <2>1, LeastNumber
  <2>3. k # 0 BY <1>2, <2>2
  <2>4. k - 1 \in 0..v /\ k \in 1..v /\ k - 1 \notin T BY <2>2, <2>3
  <2>5. P[k - 1] = 0 BY <2>4
  <2>6. P[k] = P[k - 1] + 0 BY <1>3, <2>4
  <2> QED BY <2>2, <2>5, <2>6
<1>5. v \in 0..v /\ v \notin T BY <1>1, <1>4
<1>6. P[v] = 0 BY <1>5
<1> QED BY <1>1, <1>2, <1>6

LEMMA SumOverOneMore ==
  ASSUME NEW w \in [TokenIds -> Nat], NEW S, NEW x \in TokenIds, x \notin S
  PROVE  SumOver(w, S \cup {x}) = SumOver(w, S) + w[x]
<1>1. PICK v \in Nat : v = Vocabulary BY SamplerAssumption
<1>2. PICK P : /\ P[0] = 0
               /\ \A i \in TokenIds : P[i] = P[i - 1] + (IF i \in S THEN w[i] ELSE 0)
               /\ SumOver(w, S) = P[Vocabulary]
  BY SumOverPrefixes
<1>3. PICK R : R = S \cup {x} OBVIOUS
<1>4. PICK Q : /\ Q[0] = 0
               /\ \A i \in TokenIds : Q[i] = Q[i - 1] + (IF i \in R THEN w[i] ELSE 0)
               /\ SumOver(w, R) = Q[Vocabulary]
  BY SumOverPrefixes
<1>5. PICK a : a = [i \in 1..v |-> IF i \in S THEN w[i] ELSE 0] OBVIOUS
<1>6. a \in [1..v -> Nat] /\ \A i \in 1..v : P[i] = P[i - 1] + a[i]
  BY <1>1, <1>2, <1>5 DEF TokenIds
<1>7. \A i \in 0..v : P[i] \in Nat BY <1>2, <1>6, SumsGrow
<1>8. x \in 1..v /\ w[x] \in Nat BY <1>1 DEF TokenIds
<1>9. \A i \in 1..v : Q[i] = Q[i - 1] + (IF i = x THEN w[x] ELSE a[i])
  BY <1>1, <1>3, <1>4, <1>5, <1>6 DEF TokenIds
<1> DEFINE T == {k \in 0..v : Q[k] # P[k] + (IF x <= k THEN w[x] ELSE 0)}
<1>10. ASSUME T # {} PROVE FALSE
  <2>1. T \subseteq Nat OBVIOUS
  <2>2. PICK k \in T : \A j \in T : k <= j BY <1>10, <2>1, LeastNumber
  <2>3. k # 0 BY <1>2, <1>4, <1>8, <2>2
  <2>4. k - 1 \in 0..v /\ k \in 1..v /\ k - 1 \notin T BY <2>2, <2>3
  <2>5. Q[k - 1] = P[k - 1] + (IF x <= k - 1 THEN w[x] ELSE 0) BY <2>4
  <2>6. P[k] = P[k - 1] + a[k] /\ a[k] \in Nat /\ P[k - 1] \in Nat BY <1>6, <1>7, <2>4
  <2>7. Q[k] = Q[k - 1] + (IF k = x THEN w[x] ELSE a[k]) BY <1>9, <2>4
  <2>8. k = x => a[k] = 0 BY <1>5, <2>4
  <2>9. Q[k] = P[k] + (IF x <= k THEN w[x] ELSE 0) BY <1>8, <2>4, <2>5, <2>6, <2>7, <2>8
  <2> QED BY <2>2, <2>9
<1>11. v \in 0..v /\ v \notin T /\ x <= v BY <1>1, <1>8, <1>10
<1>12. Q[v] = P[v] + w[x] BY <1>11
<1> QED BY <1>1, <1>2, <1>3, <1>4, <1>12

\* P adds up the weights of the tokens a sequence places, which has none twice.
Placed(w, v, s, P) ==
  /\ w \in [TokenIds -> Nat] /\ v \in Nat /\ s \in [1..v -> TokenIds]
  /\ \A i, j \in 1..v : s[i] = s[j] => i = j
  /\ P[0] = 0 /\ \A i \in 1..v : P[i] = P[i - 1] + w[s[i]]
AddsUp(w, v, s, P) == \A m \in 0..v : SumOver(w, {s[j] : j \in 1..m}) = P[m]

\* The tokens at the first places of a sequence that has none twice.
LEMMA SumOfPrefix ==
  ASSUME NEW w, NEW v, NEW s, NEW P, Placed(w, v, s, P)
  PROVE  AddsUp(w, v, s, P)
<1>0. /\ w \in [TokenIds -> Nat] /\ v \in Nat /\ s \in [1..v -> TokenIds]
      /\ \A i, j \in 1..v : s[i] = s[j] => i = j
      /\ P[0] = 0 /\ \A i \in 1..v : P[i] = P[i - 1] + w[s[i]]
  BY DEF Placed
<1> USE <1>0
<1> DEFINE Upto(k) == {s[j] : j \in 1..k}
           T == {k \in 0..v : SumOver(w, Upto(k)) # P[k]}
<1> SUFFICES ASSUME T # {} PROVE FALSE BY DEF AddsUp
<1>1. T \subseteq Nat OBVIOUS
<1>2. PICK k \in T : \A j \in T : k <= j BY <1>1, LeastNumber
<1>3. k # 0
  <2> SUFFICES ASSUME k = 0 PROVE FALSE OBVIOUS
  <2>1. Upto(k) = {} OBVIOUS
  <2>2. SumOver(w, Upto(k)) = 0 BY <2>1, SumOverNothing
  <2> QED BY <1>2, <2>2
<1>4. k - 1 \in 0..v /\ k \in 1..v /\ k \in Int BY <1>2, <1>3
<1>11. k - 1 \notin T
  <2> HIDE DEF T
  <2> QED BY <1>2, <1>4
<1>5. SumOver(w, Upto(k - 1)) = P[k - 1] BY <1>4, <1>11
<1>6. Upto(k) = Upto(k - 1) \cup {s[k]}
  <2>1. \A j : j \in 1..k <=> (j \in 1..(k - 1) \/ j = k) BY <1>4
  <2> QED BY <2>1
<1>7. s[k] \notin Upto(k - 1)
  <2> SUFFICES ASSUME NEW j \in 1..(k - 1), s[j] = s[k] PROVE FALSE OBVIOUS
  <2>1. j \in 1..v /\ j # k BY <1>4
  <2> QED BY <1>4, <2>1
<1>8. s[k] \in TokenIds BY <1>4
<1> HIDE DEF Upto
<1>9. SumOver(w, Upto(k)) = SumOver(w, Upto(k - 1)) + w[s[k]]
  <2> HIDE <1>0
  <2>1. w \in [TokenIds -> Nat] BY <1>0
  <2>2. SumOver(w, Upto(k - 1) \cup {s[k]}) = SumOver(w, Upto(k - 1)) + w[s[k]]
    BY <1>7, <1>8, <2>1, SumOverOneMore, Zenon
  <2> QED BY <1>6, <2>2
<1>10. SumOver(w, Upto(k)) = P[k] BY <1>4, <1>5, <1>9
<1> QED BY <1>2, <1>10

-----------------------------------------------------------------------------
(* The sampler: the order of the tokens, the cut and the fallback          *)

LEMMA MaxOfNumbers ==
  ASSUME NEW n \in Nat, NEW S, S \subseteq 1..n, S # {}
  PROVE  Max(S) \in S
<1> DEFINE T == {n - x : x \in S}
<1>1. T \subseteq Nat /\ T # {}
  <2>1. \A x \in S : n - x \in Nat OBVIOUS
  <2> QED BY <2>1
<1>2. PICK k \in T : \A j \in T : k <= j BY <1>1, LeastNumber
<1>3. PICK x \in S : k = n - x BY <1>2
<1>4. \A y \in S : x >= y
  <2> SUFFICES ASSUME NEW y \in S PROVE x >= y OBVIOUS
  <2>1. n - y \in T OBVIOUS
  <2>2. k <= n - y BY <1>2, <2>1
  <2>3. x \in Nat /\ y \in Nat OBVIOUS
  <2> QED BY <1>3, <2>2, <2>3
<1>5. \E z \in S : \A y \in S : z >= y BY <1>4
<1> QED BY <1>5, Zenon DEF Max

\* The order of the tokens has each token once, and the weights never rise along it.
LEMMA RankedSorted ==
  ASSUME NEW w \in [TokenIds -> Nat]
  PROVE  /\ Ranked(w) \in [TokenIds -> TokenIds]
         /\ \A i, j \in TokenIds : Ranked(w)[i] = Ranked(w)[j] => i = j
         /\ \A t \in TokenIds : \E i \in TokenIds : Ranked(w)[i] = t
         /\ \A i, j \in TokenIds : i <= j => w[Ranked(w)[j]] <= w[Ranked(w)[i]]
<1>1. PICK v \in Nat : v = Vocabulary BY SamplerAssumption
<1>2. PICK D : D = TokenIds OBVIOUS
<1>3. D = 1..v BY <1>1, <1>2 DEF TokenIds
<1>4. D \in SUBSET Int /\ IsFiniteSet(D) /\ Cardinality(D) = v
  <2>1. 1 \in Int /\ v \in Int BY <1>1
  <2>2. IsFiniteSet(D) /\ Cardinality(D) = IF 1 > v THEN 0 ELSE v - 1 + 1
    BY <1>3, <2>1, FS_Interval
  <2> QED BY <1>1, <1>3, <2>2
<1>5. PICK d : d = [t \in D |-> 0 - w[t]] OBVIOUS
<1>6. d \in [D -> Int] BY <1>2, <1>5
<1> DEFINE Above(t) == {u \in D : d[u] < d[t] \/ (d[u] = d[t] /\ u < t)}
<1>7. /\ \A k \in 1..v : \E t \in D : Cardinality(Above(t)) = k - 1
      /\ \A t, u \in D : d[t] < d[u] \/ (d[t] = d[u] /\ t < u) =>
            Cardinality(Above(t)) < Cardinality(Above(u))
  BY <1>1, <1>4, <1>6, RanksTaken
<1>8. ASSUME NEW t \in D PROVE {u \in TokenIds : Outranks(w, u, t)} = Above(t)
  <2>1. ASSUME NEW u \in D
        PROVE  Outranks(w, u, t) <=> d[u] < d[t] \/ (d[u] = d[t] /\ u < t)
    <3>1. w[u] \in Nat /\ w[t] \in Nat /\ d[u] = 0 - w[u] /\ d[t] = 0 - w[t] BY <1>2, <1>5
    <3> QED BY <3>1 DEF Outranks
  <2> QED BY <1>2, <2>1
<1> DEFINE s == Ranked(w)
<1>9. s = [i \in D |-> CHOOSE t \in D : Cardinality({u \in TokenIds : Outranks(w, u, t)}) = i - 1]
  BY <1>2 DEF Ranked
<1> HIDE DEF Above, s
<1>10. ASSUME NEW i \in D PROVE s[i] \in D /\ Cardinality(Above(s[i])) = i - 1
  <2>1. \E t \in D : Cardinality({u \in TokenIds : Outranks(w, u, t)}) = i - 1
    BY <1>3, <1>7, <1>8
  <2>2. s[i] = CHOOSE t \in D : Cardinality({u \in TokenIds : Outranks(w, u, t)}) = i - 1
    BY <1>9
  <2>3. s[i] \in D /\ Cardinality({u \in TokenIds : Outranks(w, u, s[i])}) = i - 1
    BY <2>1, <2>2, Zenon
  <2> QED BY <1>8, <2>3
<1>11. s \in [D -> D]
  <2>1. DOMAIN s = D /\ s = [i \in D |-> s[i]] BY <1>9
  <2> QED BY <1>10, <2>1
<1>12. \A i, j \in D : s[i] = s[j] => i = j
  <2> SUFFICES ASSUME NEW i \in D, NEW j \in D, s[i] = s[j] PROVE i = j OBVIOUS
  <2>1. i - 1 = j - 1 BY <1>10
  <2> QED BY <1>3, <2>1
<1>13. s \in Surjection(D, D)
  <2>1. s \in Injection(D, D) BY <1>11, <1>12 DEF Injection, IsInjective
  <2> QED BY <1>4, <2>1, FS_Injection, Zenon
<1>14. \A t \in D : \E i \in D : s[i] = t BY <1>13 DEF Surjection
<1>15. ASSUME NEW i \in D, NEW j \in D, i <= j PROVE w[s[j]] <= w[s[i]]
  <2> SUFFICES ASSUME ~ (w[s[j]] <= w[s[i]]) PROVE FALSE OBVIOUS
  <2>1. s[i] \in D /\ s[j] \in D BY <1>10
  <2>2. w[s[i]] \in Nat /\ w[s[j]] \in Nat BY <1>2, <2>1
  <2>3. d[s[j]] < d[s[i]] BY <1>5, <2>1, <2>2
  <2>4. Cardinality(Above(s[j])) < Cardinality(Above(s[i])) BY <1>7, <2>1, <2>3
  <2>5. j - 1 < i - 1 BY <1>10, <2>4
  <2> QED BY <1>3, <1>15, <2>5
<1> QED BY <1>2, <1>11, <1>12, <1>14, <1>15 DEF s

\* The tokens heavier than one are those of the first places.
LEMMA HeavierFirst ==
  ASSUME NEW w \in [TokenIds -> Nat], \A t \in TokenIds : w[t] # Nan, NEW i \in TokenIds
  PROVE  \E m \in Nat : /\ m < i
                        /\ Heavier(w, Ranked(w)[i]) = {Ranked(w)[j] : j \in 1..m}
<1>1. PICK v \in Nat : v = Vocabulary BY SamplerAssumption
<1>2. PICK s : s = Ranked(w) OBVIOUS
<1>3. TokenIds = 1..v BY <1>1 DEF TokenIds
<1>4. /\ s \in [1..v -> 1..v]
      /\ \A t \in 1..v : \E j \in 1..v : s[j] = t
      /\ \A j, k \in 1..v : j <= k => w[s[k]] <= w[s[j]]
  <2>1. /\ Ranked(w) \in [TokenIds -> TokenIds]
        /\ \A t \in TokenIds : \E j \in TokenIds : Ranked(w)[j] = t
        /\ \A j, k \in TokenIds : j <= k => w[Ranked(w)[k]] <= w[Ranked(w)[j]]
    BY RankedSorted, Zenon
  <2> QED BY <1>2, <1>3, <2>1
<1>5. \A j \in 1..v : w[s[j]] \in Nat BY <1>3, <1>4
<1> DEFINE T == {j \in 1..v : ~ (w[s[j]] > w[s[i]])}
<1>6. T \subseteq Nat /\ i \in T BY <1>3, <1>5
<1>7. PICK n \in T : \A j \in T : n <= j BY <1>6, LeastNumber
<1>8. n \in 1..v /\ n <= i /\ n - 1 \in Nat /\ n - 1 < i BY <1>3, <1>6, <1>7
<1>9. ASSUME NEW j \in 1..v PROVE w[s[j]] > w[s[i]] <=> j \in 1..(n - 1)
  <2>1. CASE j < n
    <3>1. j \notin T BY <1>7, <1>8, <2>1
    <3> QED BY <1>8, <2>1, <3>1
  <2>2. CASE ~ (j < n)
    <3>1. w[s[j]] <= w[s[n]] BY <1>4, <1>8, <2>2
    <3>2. w[s[n]] <= w[s[i]] BY <1>3, <1>5, <1>7, <1>8
    <3>3. ~ (w[s[j]] > w[s[i]]) BY <1>3, <1>5, <1>8, <3>1, <3>2
    <3> QED BY <1>8, <2>2, <3>3
  <2> QED BY <2>1, <2>2
<1>10. Heavier(w, s[i]) = {u \in 1..v : w[u] > w[s[i]]} BY <1>3 DEF Heavier
<1>11. {u \in 1..v : w[u] > w[s[i]]} = {s[j] : j \in 1..(n - 1)}
  <2>1. ASSUME NEW u \in 1..v, w[u] > w[s[i]] PROVE \E j \in 1..(n - 1) : u = s[j]
    BY <1>4, <1>9, <2>1
  <2>2. ASSUME NEW j \in 1..(n - 1) PROVE s[j] \in 1..v /\ w[s[j]] > w[s[i]]
    <3>1. j \in 1..v BY <1>8
    <3> QED BY <1>4, <1>9, <3>1
  <2> DEFINE L == {u \in 1..v : w[u] > w[s[i]]}
             R == {s[j] : j \in 1..(n - 1)}
  <2>3. L \subseteq R BY <2>1, Zenon
  <2>4. R \subseteq L BY <2>2, Zenon
  <2> QED BY <2>3, <2>4, Zenon
<1> QED BY <1>2, <1>8, <1>10, <1>11

\* The fallback is a heaviest token, if one has a weight.
LEMMA FallbackIsHeaviest ==
  ASSUME NEW w \in [TokenIds -> Weights \cup {Nan}]
  PROVE  /\ Fallback(w) \in TokenIds
         /\ \/ \A t \in TokenIds : w[t] \in {0, Nan}
            \/ /\ w[Fallback(w)] \notin {0, Nan}
               /\ \A t \in TokenIds : w[t] # Nan => w[t] <= w[Fallback(w)]
<1>1. PICK v \in Nat \ {0} : v = Vocabulary BY SamplerAssumption
<1>2. TokenIds = 1..v BY <1>1 DEF TokenIds
<1>3. \A t \in TokenIds : w[t] \in Nat /\ w[t] <= Nan
  <2>1. \A x \in Weights : x \in Nat /\ x < Nan BY SamplerAssumption
  <2>2. \A t \in TokenIds : w[t] \in Weights \/ w[t] = Nan OBVIOUS
  <2>3. Nan \in Nat BY SamplerAssumption
  <2> QED BY <2>1, <2>2, <2>3
<1> DEFINE finite == {t \in TokenIds : w[t] \notin {0, Nan}}
           largest == {t \in finite : \A u \in finite : w[u] <= w[t]}
<1>4. Fallback(w) = IF finite = {} THEN 1 ELSE Max(largest) BY DEF Fallback
<1>5. CASE finite = {}
  <2>1. Fallback(w) = 1 BY <1>4, <1>5
  <2>2. \A t \in TokenIds : w[t] \in {0, Nan} BY <1>5
  <2> QED BY <1>1, <1>2, <2>1, <2>2
<1>6. CASE finite # {}
  <2> DEFINE T == {Nan - w[t] : t \in finite}
  <2>1. T \subseteq Nat /\ T # {}
    <3>1. \A t \in finite : Nan - w[t] \in Nat BY <1>3, SamplerAssumption
    <3> HIDE DEF finite
    <3> QED BY <1>6, <3>1, Zenon
  <2>2. PICK k \in T : \A j \in T : k <= j BY <2>1, LeastNumber
  <2>3. PICK t \in finite : k = Nan - w[t] BY <2>2, Zenon
  <2>4. ASSUME NEW u \in finite PROVE w[u] <= w[t]
    <3>1. Nan - w[u] \in T OBVIOUS
    <3>2. k <= Nan - w[u] BY <2>2, <3>1
    <3> QED BY <1>3, <2>3, <3>2, SamplerAssumption
  <2>5. largest \subseteq 1..v /\ largest # {} BY <1>2, <2>4
  <2>6. Max(largest) \in largest BY <1>1, <2>5, MaxOfNumbers
  <2>7. Fallback(w) \in largest BY <1>4, <1>6, <2>6
  <2>8. ASSUME NEW u \in TokenIds, w[u] # Nan PROVE w[u] <= w[Fallback(w)]
    <3>1. CASE u \in finite BY <2>7, <3>1
    <3>2. CASE u \notin finite
      <4>1. w[u] = 0 BY <2>8, <3>2
      <4>2. w[Fallback(w)] \in Nat BY <1>3, <2>7
      <4> QED BY <4>1, <4>2
    <3> QED BY <3>1, <3>2
  <2> QED BY <2>7, <2>8
<1> QED BY <1>5, <1>6

\* For a request without a NaN whose weights are not all 0: the sums of the weights
\* in the order of the tokens, and where Top-K and Top-P cut it.
Cuts(r, P, k, c) ==
  /\ P[0] = 0
  /\ \A i \in TokenIds : P[i] = P[i - 1] + r.w[Ranked(r.w)[i]]
  /\ k \in TokenIds /\ c \in 1..k
  /\ r.k > 0 => k <= r.k
  /\ Mass(r.w, TopK(r)) = P[k]
  /\ Mass(r.w, Kept(r)) = P[c]
  /\ \A i \in 1..c : Kept(r)[i] = Ranked(r.w)[i]
  /\ DOMAIN Kept(r) = 1..c
  /\ r.p \in 1..(PDenominator - 1) =>
        /\ \A m \in 1..(c - 1) : P[m] * PDenominator < r.p * P[k]
        /\ P[c] * PDenominator >= r.p * P[k]
  /\ r.p >= PDenominator => c = k

\* A larger factor, and a product of positive numbers.
LEMMA TimesMonotone ==
  ASSUME NEW a \in Nat, NEW b \in Nat, NEW c \in Nat, b <= c
  PROVE  a * b \in Nat /\ a * c \in Nat /\ a * b <= a * c
<1>1. PICK e \in Nat : c = b + e
  <2>1. c - b \in Nat /\ c = b + (c - b) OBVIOUS
  <2> QED BY <2>1
<1>2. a * c = a * b + a * e /\ a * e \in Nat /\ a * b \in Nat BY <1>1
<1> QED BY <1>2

LEMMA CutsExist ==
  ASSUME NEW r \in [w : [TokenIds -> Nat], k : TopKs, p : TopPs]
  PROVE  \E P, k, c : Cuts(r, P, k, c)
<1>1. PICK v \in Nat \ {0} : v = Vocabulary BY SamplerAssumption
<1>2. TokenIds = 1..v BY <1>1 DEF TokenIds
<1>3. PICK w : w = r.w OBVIOUS
<1>4. w \in [1..v -> Nat] BY <1>2, <1>3
<1>5. PICK s : s = Ranked(w) OBVIOUS
<1>6. s \in [1..v -> 1..v]
  <2>1. Ranked(w) \in [TokenIds -> TokenIds] BY <1>2, <1>4, RankedSorted, Zenon
  <2> QED BY <1>2, <1>5, <2>1
<1>7. PICK P : PrefixMass(P, w, v, s)
  <2>1. DOMAIN s = 1..v /\ v \in Nat BY <1>6
  <2> QED BY <2>1, PrefixMasses
<1>8. /\ P[0] = 0
      /\ \A i \in 1..v : P[i] = P[i - 1] + w[s[i]]
      /\ \A i \in 0..v : \A u : DOMAIN u = 1..i /\ (\A j \in 1..i : u[j] = s[j]) =>
            Mass(w, u) = P[i]
  BY <1>7 DEF PrefixMass
<1>9. \A i \in 0..v : P[i] \in Nat
  <2>1. PICK a : a = [i \in 1..v |-> w[s[i]]] OBVIOUS
  <2>2. a \in [1..v -> Nat] /\ \A i \in 1..v : P[i] = P[i - 1] + a[i] BY <1>4, <1>6, <1>8, <2>1
  <2>3. v \in Nat OBVIOUS
  <2> QED BY <1>8, <2>2, <2>3, SumsGrow
<1>10. r.k \in Nat /\ r.p \in Nat
  <2>1. r.k \in TopKs /\ r.p \in TopPs OBVIOUS
  <2> QED BY <2>1, SamplerAssumption
<1>11. PICK k : k = IF r.k > 0 /\ r.k < Vocabulary THEN r.k ELSE Vocabulary OBVIOUS
<1>12. k \in 1..v /\ (r.k > 0 => k <= r.k) BY <1>1, <1>10, <1>11
<1>13. PICK t : t = TopK(r) OBVIOUS
<1>14. t = [i \in 1..k |-> s[i]]
  <2>1. t = SubSeq(s, 1, k) BY <1>3, <1>5, <1>11, <1>13 DEF TopK
  <2>2. s \in Seq(1..v) /\ Len(s) = v BY <1>6
  <2> QED BY <1>12, <2>1, <2>2
<1>15. Len(t) = k /\ DOMAIN t = 1..k /\ \A i \in 1..k : t[i] = s[i] BY <1>12, <1>14
<1>16. Mass(w, t) = P[k] BY <1>8, <1>12, <1>15
<1>17. ASSUME NEW i \in 1..k
       PROVE  /\ SubSeq(t, 1, i) = [j \in 1..i |-> s[j]]
              /\ Mass(w, SubSeq(t, 1, i)) = P[i]
  <2>1. SubSeq(t, 1, i) = [j \in 1..i |-> s[j]]
    <3>1. t \in Seq(1..v) BY <1>6, <1>12, <1>14
    <3> QED BY <1>15, <3>1
  <2>2. i \in 0..v BY <1>12
  <2>3. DOMAIN SubSeq(t, 1, i) = 1..i /\ \A j \in 1..i : SubSeq(t, 1, i)[j] = s[j] BY <2>1
  <2> QED BY <1>8, <2>1, <2>2, <2>3
<1>18. PICK d \in Nat \ {0} : d = PDenominator BY SamplerAssumption
<1> DEFINE reach == {i \in DOMAIN t : Mass(r.w, SubSeq(t, 1, i)) * PDenominator >= r.p * Mass(r.w, t)}
           reached == {i \in 1..k : P[i] * d >= r.p * P[k]}
<1>19. reach = reached
  <2>1. \A i \in 1..k : Mass(r.w, SubSeq(t, 1, i)) * PDenominator >= r.p * Mass(r.w, t)
                          <=> P[i] * d >= r.p * P[k]
    BY <1>3, <1>16, <1>17, <1>18, Zenon
  <2> QED BY <1>15, <2>1, Zenon
<1>20. PICK c : c = Cutoff(r, t) OBVIOUS
<1>21. c = IF r.p > 0 /\ r.p < PDenominator /\ reach /= {} THEN Min(reach) ELSE Len(t)
  BY <1>20 DEF Cutoff
<1> HIDE DEF reach, reached
<1>22. c = IF r.p > 0 /\ r.p < d /\ reached /= {} THEN Min(reached) ELSE k
  BY <1>15, <1>18, <1>19, <1>21
<1>23. reached \subseteq 1..k BY DEF reached
<1>24. ASSUME reached # {} PROVE Min(reached) \in reached /\ \A i \in reached : Min(reached) <= i
  <2>1. reached \subseteq Nat BY <1>12, <1>23
  <2>2. \E i \in reached : \A j \in reached : i <= j BY <1>24, <2>1, LeastNumber
  <2> QED BY <2>2, Zenon DEF Min
<1>25. c \in 1..k
  <2>1. k \in 1..k BY <1>12
  <2>2. reached # {} => Min(reached) \in 1..k BY <1>23, <1>24
  <2> QED BY <1>22, <2>1, <2>2, Zenon
<1>26. Kept(r) = SubSeq(t, 1, c) BY <1>13, <1>20 DEF Kept
<1>27. /\ Mass(w, Kept(r)) = P[c] /\ DOMAIN Kept(r) = 1..c
       /\ \A i \in 1..c : Kept(r)[i] = s[i]
  BY <1>17, <1>25, <1>26
<1>28. r.p >= d => c = k BY <1>10, <1>22
<1>29. ASSUME r.p \in 1..(d - 1)
       PROVE  /\ \A m \in 1..(c - 1) : P[m] * d < r.p * P[k]
              /\ P[c] * d >= r.p * P[k]
  <2>1. \A i \in 0..v : P[i] * d \in Nat /\ r.p * P[i] \in Nat BY <1>9, <1>10
  <2>2. \A i \in 1..k : i \notin reached => P[i] * d < r.p * P[k]
    <3>1. ASSUME NEW i \in 1..k, i \notin reached PROVE P[i] * d < r.p * P[k]
      <4>1. i \in 0..v /\ k \in 0..v BY <1>12
      <4>2. ~ (P[i] * d >= r.p * P[k]) BY <3>1 DEF reached
      <4> QED BY <2>1, <4>1, <4>2
    <3> QED BY <3>1
  <2>3. reached # {}
    <3> SUFFICES ASSUME reached = {} PROVE FALSE OBVIOUS
    <3>1. k \in 1..k /\ k \in 0..v BY <1>12
    <3>2. P[k] * d < r.p * P[k] BY <2>2, <3>1
    <3>3. r.p \in Nat /\ d \in Nat /\ r.p <= d /\ P[k] \in Nat BY <1>9, <1>10, <1>29, <3>1
    <3>4. P[k] * r.p <= P[k] * d BY <3>3, TimesMonotone
    <3> QED BY <3>2, <3>3, <3>4
  <2>4. c = Min(reached) BY <1>10, <1>22, <1>29, <2>3
  <2>5. c \in reached /\ \A i \in reached : c <= i BY <1>24, <2>3, <2>4
  <2>6. P[c] * d >= r.p * P[k] BY <2>5 DEF reached
  <2>7. ASSUME NEW m \in 1..(c - 1) PROVE P[m] * d < r.p * P[k]
    <3>1. m \in 1..k /\ ~ (c <= m) BY <1>12, <1>25
    <3>2. m \notin reached BY <2>5, <3>1
    <3> QED BY <2>2, <3>1, <3>2
  <2> QED BY <2>6, <2>7
<1>30. Cuts(r, P, k, c)
  <2>1. \A i \in TokenIds : P[i] = P[i - 1] + r.w[Ranked(r.w)[i]] BY <1>2, <1>3, <1>5, <1>8
  <2>2. Mass(r.w, TopK(r)) = P[k] /\ Mass(r.w, Kept(r)) = P[c] BY <1>3, <1>13, <1>16, <1>27
  <2>3. \A i \in 1..c : Kept(r)[i] = Ranked(r.w)[i] BY <1>3, <1>5, <1>27
  <2>4. k \in TokenIds /\ (r.k > 0 => k <= r.k) BY <1>2, <1>12
  <2>5. r.p \in 1..(PDenominator - 1) =>
          /\ \A m \in 1..(c - 1) : P[m] * PDenominator < r.p * P[k]
          /\ P[c] * PDenominator >= r.p * P[k]
    BY <1>18, <1>29, Zenon
  <2>6. r.p >= PDenominator => c = k BY <1>18, <1>28
  <2> QED BY <1>8, <1>25, <1>27, <2>1, <2>2, <2>3, <2>4, <2>5, <2>6 DEF Cuts
<1> QED BY <1>30

\* The weight of a token that can be returned, and of those before it.
LEMMA CutMasses ==
  ASSUME NEW r \in [w : [TokenIds -> Nat], k : TopKs, p : TopPs], NEW P, NEW k, NEW c,
         Cuts(r, P, k, c)
  PROVE  /\ \A i \in 0..Vocabulary : P[i] \in Nat
         /\ \A i, j \in 0..Vocabulary : i <= j => P[i] <= P[j]
         /\ \A m \in 0..Vocabulary : SumOver(r.w, {Ranked(r.w)[j] : j \in 1..m}) = P[m]
<1>1. PICK v \in Nat \ {0} : v = Vocabulary BY SamplerAssumption
<1>2. TokenIds = 1..v BY <1>1 DEF TokenIds
<1>3. PICK w : w = r.w OBVIOUS
<1>4. w \in [TokenIds -> Nat] BY <1>3
<1>5. PICK s : s = Ranked(w) OBVIOUS
<1>6. /\ Ranked(w) \in [TokenIds -> TokenIds]
      /\ \A i, j \in TokenIds : Ranked(w)[i] = Ranked(w)[j] => i = j
  BY <1>4, RankedSorted, Zenon
<1>7. s \in [1..v -> TokenIds] /\ \A i, j \in 1..v : s[i] = s[j] => i = j
  BY <1>2, <1>5, <1>6
<1>8. P[0] = 0 /\ \A i \in 1..v : P[i] = P[i - 1] + w[s[i]] BY <1>2, <1>3, <1>5 DEF Cuts
<1>9. PICK a : a = [i \in 1..v |-> w[s[i]]] OBVIOUS
<1>10. a \in [1..v -> Nat] /\ \A i \in 1..v : P[i] = P[i - 1] + a[i] BY <1>4, <1>7, <1>8, <1>9
<1>11. v \in Nat OBVIOUS
<1>12. /\ \A i \in 0..v : P[i] \in Nat
       /\ \A i, j \in 0..v : i <= j => P[i] <= P[j]
  BY <1>8, <1>10, <1>11, SumsGrow
<1>13. ASSUME NEW m \in 0..v PROVE SumOver(w, {s[j] : j \in 1..m}) = P[m]
  <2>1. Placed(w, v, s, P) BY <1>4, <1>7, <1>8, <1>11 DEF Placed
  <2>2. AddsUp(w, v, s, P) BY <2>1, SumOfPrefix, Zenon
  <2> QED BY <2>2 DEF AddsUp
<1> QED BY <1>1, <1>3, <1>5, <1>12, <1>13

\* What SamplesNucleus says of a token t that a request r is answered with.
Nucleus(r, t) ==
  /\ r.k > 0 => Cardinality(Heavier(r.w, t)) < r.k
  /\ r.p > 0 => SumOver(r.w, Heavier(r.w, t)) * PDenominator < r.p * Mass(r.w, TopK(r))
  /\ r.p \in 1..PDenominator => Mass(r.w, Kept(r)) * PDenominator >= r.p * Mass(r.w, TopK(r))

LEMMA OutcomeInNucleus ==
  ASSUME NEW r \in [w : [TokenIds -> Weights \cup {Nan}], k : TopKs, p : TopPs],
         ~ Broken(r.w), NEW t \in Outcomes(r)
  PROVE  Nucleus(r, t)
<1>1. PICK v \in Nat \ {0} : v = Vocabulary BY SamplerAssumption
<1>2. TokenIds = 1..v BY <1>1 DEF TokenIds
<1>3. PICK w : w = r.w OBVIOUS
<1>4. PICK d \in Nat \ {0} : d = PDenominator BY SamplerAssumption
<1>5. r.k \in Nat /\ r.p \in Nat
  <2>1. r.k \in TopKs /\ r.p \in TopPs OBVIOUS
  <2> QED BY <2>1, SamplerAssumption
<1>6. /\ w \in [TokenIds -> Nat]
      /\ \A u \in TokenIds : w[u] # Nan
      /\ \E u \in TokenIds : w[u] > 0
  <2>1. w \in [TokenIds -> Weights \cup {Nan}] BY <1>3
  <2>2. \A u \in TokenIds : w[u] # Nan BY <1>3 DEF Broken
  <2>3. \A x \in Weights : x \in Nat BY SamplerAssumption
  <2>4. w \in [TokenIds -> Nat] BY <2>1, <2>2, <2>3
  <2>5. \E u \in TokenIds : w[u] # 0 BY <1>3 DEF Broken
  <2> QED BY <2>2, <2>4, <2>5
<1>7. r \in [w : [TokenIds -> Nat], k : TopKs, p : TopPs]
  <2>1. r = [w |-> w, k |-> r.k, p |-> r.p] BY <1>3
  <2>2. r.k \in TopKs /\ r.p \in TopPs OBVIOUS
  <2> QED BY <1>6, <2>1, <2>2
<1>8. PICK P, k, c : Cuts(r, P, k, c) BY <1>7, CutsExist
<1>9. /\ \A i \in 0..v : P[i] \in Nat
      /\ \A i, j \in 0..v : i <= j => P[i] <= P[j]
      /\ \A m \in 0..v : SumOver(w, {Ranked(w)[j] : j \in 1..m}) = P[m]
  BY <1>1, <1>3, <1>7, <1>8, CutMasses
<1>10. PICK s : s = Ranked(w) OBVIOUS
<1>11. /\ s \in [1..v -> 1..v]
       /\ \A u \in 1..v : \E j \in 1..v : s[j] = u
       /\ \A i, j \in 1..v : i <= j => w[s[j]] <= w[s[i]]
  <2>1. /\ Ranked(w) \in [TokenIds -> TokenIds]
        /\ \A u \in TokenIds : \E j \in TokenIds : Ranked(w)[j] = u
        /\ \A i, j \in TokenIds : i <= j => w[Ranked(w)[j]] <= w[Ranked(w)[i]]
    BY <1>6, RankedSorted, Zenon
  <2> QED BY <1>2, <1>10, <2>1
<1>12. /\ P[0] = 0
       /\ \A i \in 1..v : P[i] = P[i - 1] + w[s[i]]
       /\ k \in 1..v /\ c \in 1..k
       /\ r.k > 0 => k <= r.k
       /\ Mass(w, TopK(r)) = P[k] /\ Mass(w, Kept(r)) = P[c]
       /\ \A i \in 1..c : Kept(r)[i] = s[i]
       /\ DOMAIN Kept(r) = 1..c
  BY <1>2, <1>3, <1>8, <1>10 DEF Cuts
<1>13. /\ r.p \in 1..(d - 1) => /\ \A m \in 1..(c - 1) : P[m] * d < r.p * P[k]
                                /\ P[c] * d >= r.p * P[k]
       /\ r.p >= d => c = k
  BY <1>4, <1>8, Zenon DEF Cuts
<1>14. P[k] \in Nat \ {0}
  <2>1. PICK u \in 1..v : w[u] > 0 BY <1>2, <1>6
  <2>2. PICK j \in 1..v : s[j] = u BY <1>11
  <2>3. 1 \in 1..v /\ w[s[j]] <= w[s[1]] BY <1>11
  <2>4. w[s[1]] \in Nat /\ w[u] \in Nat BY <1>2, <1>6, <1>11, <2>3
  <2>5. P[1] = P[0] + w[s[1]] BY <1>12, <2>3
  <2>6. P[1] <= P[k] BY <1>9, <1>12, <2>3
  <2>7. P[k] \in Nat BY <1>9, <1>12
  <2> QED BY <1>12, <2>1, <2>2, <2>3, <2>4, <2>5, <2>6, <2>7
<1>15. r.p > 0 => 0 < r.p * P[k]
  <2>1. PICK x \in Nat \ {0} : x = P[k] BY <1>14
  <2>2. \A y \in Nat \ {0} : 1 * x <= y * x
    <3>1. ASSUME NEW y \in Nat \ {0} PROVE x * 1 <= x * y BY TimesMonotone
    <3> QED BY <3>1
  <2> QED BY <1>5, <2>1, <2>2
\* The heavier tokens are those at the first m places, and fewer than are kept.
<1>16. PICK m \in 0..(k - 1) :
          /\ Heavier(w, t) = {s[j] : j \in 1..m}
          /\ m = 0 \/ (m < c /\ P[m] < P[c])
  <2>1. CASE t = Fallback(w)
    <3>1. w[t] \notin {0, Nan} /\ \A u \in TokenIds : w[u] # Nan => w[u] <= w[t]
      <4>1. w \in [TokenIds -> Weights \cup {Nan}] BY <1>3
      <4>2. ~ \A u \in TokenIds : w[u] \in {0, Nan} BY <1>6
      <4> QED BY <2>1, <4>1, <4>2, FallbackIsHeaviest
    <3>2. t \in TokenIds
      <4>1. w \in [TokenIds -> Weights \cup {Nan}] BY <1>3
      <4> QED BY <2>1, <4>1, FallbackIsHeaviest
    <3>3. Heavier(w, t) = {} BY <1>6, <3>1, <3>2 DEF Heavier
    <3>4. PICK m : m = 0 OBVIOUS
    <3>5. {s[j] : j \in 1..m} = {} /\ m \in 0..(k - 1) BY <1>12, <3>4
    <3> QED BY <3>3, <3>4, <3>5
  <2>2. CASE t # Fallback(w)
    <3>1. t \in Range(Kept(r)) /\ w[t] > 0 BY <1>3, <2>2 DEF Outcomes
    <3>2. PICK i \in 1..c : t = s[i] BY <1>12, <3>1 DEF Range
    <3>3. i \in 1..v BY <1>12
    <3>4. PICK m \in Nat : m < i /\ Heavier(w, s[i]) = {s[j] : j \in 1..m}
      <4>1. i \in TokenIds BY <1>2, <3>3
      <4>2. \E m \in Nat : m < i /\ Heavier(w, Ranked(w)[i]) = {Ranked(w)[j] : j \in 1..m}
        BY <1>6, <4>1, HeavierFirst, Zenon
      <4>3. Ranked(w) = s BY <1>10
      <4> QED BY <4>2, <4>3
    <3>5. P[i] = P[i - 1] + w[s[i]] BY <1>12, <3>3
    <3>6. m \in 0..v /\ i - 1 \in 0..v /\ i \in 0..v /\ c \in 0..v /\ m <= i - 1 /\ i <= c
      BY <1>12, <3>3, <3>4
    <3>7. P[m] <= P[i - 1] /\ P[i] <= P[c] BY <1>9, <3>6
    <3>8. P[m] \in Nat /\ P[i - 1] \in Nat /\ P[i] \in Nat /\ P[c] \in Nat BY <1>9, <3>6
    <3>9. w[s[i]] \in Nat /\ w[s[i]] > 0 BY <1>2, <1>6, <1>11, <3>1, <3>2, <3>3
    <3>10. P[m] < P[c] BY <3>5, <3>7, <3>8, <3>9
    <3>11. m < c /\ m \in 0..(k - 1) BY <1>12, <3>4, <3>6
    <3> QED BY <3>2, <3>4, <3>10, <3>11
  <2> QED BY <2>1, <2>2
<1>17. r.k > 0 => Cardinality(Heavier(w, t)) < r.k
  <2>1. PICK S : S = 1..m OBVIOUS
  <2>2. IsFiniteSet(S) /\ Cardinality(S) = m
    <3>1. 1 \in Int /\ m \in Int /\ m >= 0 OBVIOUS
    <3>2. IsFiniteSet(S) /\ Cardinality(S) = IF 1 > m THEN 0 ELSE m - 1 + 1
      BY <2>1, <3>1, FS_Interval
    <3> QED BY <3>1, <3>2
  <2>3. PICK f : f = [j \in S |-> s[j]] OBVIOUS
  <2>4. f \in Surjection(S, Heavier(w, t)) BY <1>16, <2>1, <2>3 DEF Surjection
  <2>5. Cardinality(Heavier(w, t)) <= Cardinality(S) BY <2>2, <2>4, FS_Surjection
  <2>6. Cardinality(Heavier(w, t)) \in Nat
    <3>1. IsFiniteSet(Heavier(w, t)) BY <2>2, <2>4, FS_Surjection
    <3> QED BY <3>1, FS_CardinalityType
  <2> QED BY <1>5, <1>12, <2>2, <2>5, <2>6
<1>18. SumOver(w, Heavier(w, t)) = P[m]
  <2>1. m \in 0..v BY <1>12
  <2> QED BY <1>9, <1>10, <1>16, <2>1
<1>19. m \in 0..v /\ c \in 0..v /\ k \in 0..v /\ P[m] \in Nat /\ P[c] \in Nat BY <1>9, <1>12
<1>20. r.p > 0 => P[m] * d < r.p * P[k]
  <2>1. CASE m = 0 BY <1>12, <1>15, <2>1
  <2>2. CASE m # 0 /\ r.p \in 1..(d - 1)
    <3>1. m \in 1..(c - 1) BY <1>12, <1>16, <2>2
    <3> QED BY <1>13, <2>2, <3>1
  <2>3. CASE m # 0 /\ r.p >= d
    <3>1. P[m] < P[k] BY <1>13, <1>16, <2>3
    <3>2. P[m] * d + d <= P[k] * d BY <1>14, <1>19, <3>1, TimesLess
    <3>3. P[k] * d <= P[k] * r.p BY <1>5, <1>14, <2>3, TimesMonotone
    <3>4. P[m] * d \in Nat /\ P[k] * d \in Nat /\ P[k] * r.p = r.p * P[k]
      BY <1>5, <1>14, <1>19
    <3>5. r.p * P[k] \in Nat BY <1>5, <1>14
    <3> QED BY <3>2, <3>3, <3>4, <3>5
  <2> QED BY <1>5, <2>1, <2>2, <2>3
<1>21. r.p \in 1..d => P[c] * d >= r.p * P[k]
  <2>1. CASE r.p \in 1..(d - 1) BY <1>13, <2>1
  <2>2. CASE r.p = d
    <3>1. c = k BY <1>13, <2>2
    <3>2. P[k] * d = d * P[k] /\ P[k] * d \in Nat BY <1>14
    <3> QED BY <2>2, <3>1, <3>2
  <2> QED BY <1>5, <2>1, <2>2
<1> QED BY <1>3, <1>4, <1>12, <1>17, <1>18, <1>20, <1>21, Zenon DEF Nucleus

\* A call keeps its request; what it returned is one of the request's outcomes.
SamplerIInv ==
  /\ request \in [w : [TokenIds -> Weights \cup {Nan}], k : TopKs, p : TopPs]
  /\ sampled # 0 => sampled \in Outcomes(request)

LEMMA SamplerStart == SamplerInit => SamplerIInv
BY DEF SamplerInit, SamplerIInv

LEMMA SamplerStep == SamplerIInv /\ [Sample]_samplerVars => SamplerIInv'
<1> SUFFICES ASSUME SamplerIInv, [Sample]_samplerVars PROVE SamplerIInv' OBVIOUS
<1>1. CASE Sample
  <2>1. request' = request /\ sampled' \in Outcomes(request) BY <1>1 DEF Sample
  <2>2. Outcomes(request') = Outcomes(request) BY <2>1
  <2> QED BY <2>1, <2>2, Zenon DEF SamplerIInv
<1>2. CASE UNCHANGED samplerVars
  <2>1. request' = request /\ sampled' = sampled BY <1>2 DEF samplerVars
  <2> QED BY <2>1, Zenon DEF SamplerIInv
<1> QED BY <1>1, <1>2

LEMMA SamplerIInvImplies == SamplerIInv => SamplesNucleus
<1> SUFFICES ASSUME SamplerIInv, sampled # 0
             PROVE  LET w == request.w  k == request.k  p == request.p IN
                    /\ \/ w[sampled] \notin {0, Nan}
                       \/ \A t \in TokenIds : w[t] \in {0, Nan}
                    /\ ~ Broken(w) =>
                        /\ k > 0 => Cardinality(Heavier(w, sampled)) < k
                        /\ p > 0 => SumOver(w, Heavier(w, sampled)) * PDenominator
                                      < p * Mass(w, TopK(request))
                        /\ p \in 1..PDenominator =>
                             Mass(w, Kept(request)) * PDenominator >= p * Mass(w, TopK(request))
  BY DEF SamplesNucleus
<1>1. PICK r \in [w : [TokenIds -> Weights \cup {Nan}], k : TopKs, p : TopPs] : r = request
  BY DEF SamplerIInv
<1>2. PICK t \in Outcomes(r) : t = sampled BY <1>1 DEF SamplerIInv
<1>3. ~ Broken(r.w) => Nucleus(r, t) BY OutcomeInNucleus
<1>4. r.w[t] \notin {0, Nan} \/ \A u \in TokenIds : r.w[u] \in {0, Nan}
  <2>1. r.w \in [TokenIds -> Weights \cup {Nan}] OBVIOUS
  <2>2. CASE t = Fallback(r.w) BY <2>1, <2>2, FallbackIsHeaviest
  <2>3. CASE t # Fallback(r.w)
    <3>1. ~ Broken(r.w) /\ r.w[t] > 0 /\ t \in Range(Kept(r)) BY <2>3 DEF Outcomes
    <3>2. CASE r.w[t] = 0 BY <3>1, <3>2
    <3>3. CASE r.w[t] = Nan /\ t \in TokenIds BY <3>1, <3>3 DEF Broken
    <3>4. t \in TokenIds
      <4>1. r \in [w : [TokenIds -> Nat], k : TopKs, p : TopPs]
        <5>1. \A x \in Weights \cup {Nan} : x \in Nat BY SamplerAssumption
        <5>2. r.w \in [TokenIds -> Nat] BY <5>1
        <5>3. r = [w |-> r.w, k |-> r.k, p |-> r.p] /\ r.k \in TopKs /\ r.p \in TopPs OBVIOUS
        <5> QED BY <5>2, <5>3
      <4>2. PICK P, k, c : Cuts(r, P, k, c) BY <4>1, CutsExist
      <4>3. PICK i \in 1..c : t = Ranked(r.w)[i] BY <3>1, <4>2 DEF Range, Cuts
      <4>4. i \in TokenIds BY <4>2, SamplerAssumption DEF Cuts, TokenIds
      <4>5. r.w \in [TokenIds -> Nat] BY <4>1
      <4>6. Ranked(r.w) \in [TokenIds -> TokenIds] BY <4>5, RankedSorted, Zenon
      <4> QED BY <4>3, <4>4, <4>6
    <3> QED BY <3>2, <3>3, <3>4
  <2> QED BY <2>2, <2>3
<1> QED BY <1>1, <1>2, <1>3, <1>4, Zenon DEF Nucleus

\* For any vocabulary, weights, top_k and top_p, whatever the ties, zeros and NaNs:
\* the token returned has a weight if any has, fewer than top_k tokens are heavier,
\* the heavier ones do not reach top_p, and the tokens kept do.
THEOREM SampledFromNucleus == SamplerSpec => []SamplesNucleus
<1> QED BY SamplerStart, SamplerStep, SamplerIInvImplies, PTL DEF SamplerSpec

-----------------------------------------------------------------------------
(* Loading a model: the tensors in the file and the experts' rows          *)

\* A number rounded up to a multiple.
LEMMA RoundUpRange ==
  ASSUME NEW n \in Nat, NEW a \in Nat \ {0}
  PROVE  RoundUp(n, a) \in n..(n + a - 1)
<1>1. PICK m \in Nat : m = n + a - 1 OBVIOUS
<1>2. PICK q \in Nat, r \in 0..(a - 1) : q = m \div a /\ r = m % a /\ m = a * q + r
  BY DivMod
<1>3. PICK x \in Int : x = a * q /\ x = q * a OBVIOUS
<1>4. RoundUp(n, a) = x BY <1>1, <1>2, <1>3 DEF RoundUp
<1> QED BY <1>1, <1>2, <1>3, <1>4

\* A tensor whose offset does not wrap starts behind the header.
LEMMA OffsetBehindHeader ==
  ASSUME NEW f, Opened(f), NEW t \in f.tensors
  PROVE  /\ AbsoluteOffset(f, t) \in Nat
         /\ OffsetsFit(f) => f.headerEnd <= AbsoluteOffset(f, t)
<1>1. f.headerEnd \in Nat /\ t.offset \in Nat BY DEF Opened
<1>2. Alignment \in Nat \ {0} /\ OffsetLimit \in Nat BY ModelFileAssumption
<1>3. RoundUp(f.headerEnd, Alignment) \in f.headerEnd..(f.headerEnd + Alignment - 1)
  BY <1>1, <1>2, RoundUpRange
<1>4. OffsetsFit(f) => t.offset + DataOffset(f) < OffsetLimit BY DEF OffsetsFit
<1> QED BY <1>1, <1>2, <1>3, <1>4 DEF AbsoluteOffset, DataOffset

\* The bytes of a tensor, if it is in the file.
LEMMA BytesOf ==
  ASSUME NEW f, Opened(f), NEW t \in f.tensors
  PROVE  TensorRawBytes(f, t) =
           IF InFile(f, t) THEN AbsoluteOffset(f, t)..(AbsoluteOffset(f, t) + t.nbytes - 1) ELSE {}
<1>1. AbsoluteOffset(f, t) \in Nat BY OffsetBehindHeader
<1>2. t.nbytes \in Nat BY DEF Opened
<1> QED BY <1>1, <1>2 DEF TensorRawBytes

\* tensor_raw_bytes hands out a tensor whole, inside the file, or nothing.
LEMMA TensorsInside == Opened(model) /\ OffsetsFit(model) => TensorsInFile
<1> SUFFICES ASSUME Opened(model), OffsetsFit(model), NEW t \in model.tensors
             PROVE  /\ TensorRawBytes(model, t) \subseteq model.headerEnd .. model.length - 1
                    /\ Cardinality(TensorRawBytes(model, t)) \in {0, t.nbytes}
  BY DEF TensorsInFile
<1>1. PICK o \in Nat : o = AbsoluteOffset(model, t) /\ model.headerEnd <= o BY OffsetBehindHeader
<1>2. PICK n \in Nat : n = t.nbytes BY DEF Opened
<1>3. model.headerEnd \in Nat /\ model.length \in Nat BY DEF Opened
<1>4. CASE InFile(model, t)
  <2>1. TensorRawBytes(model, t) = o..(o + n - 1) BY <1>1, <1>2, <1>4, BytesOf
  <2>2. o + n <= model.length BY <1>1, <1>2, <1>4 DEF InFile
  <2>3. Cardinality(o..(o + n - 1)) = n
    <3>1. PICK b \in Int : b = o + n - 1 OBVIOUS
    <3>2. Cardinality(o..b) = IF o > b THEN 0 ELSE b - o + 1 BY FS_Interval
    <3> QED BY <3>1, <3>2
  <2> QED BY <1>1, <1>2, <1>3, <2>1, <2>2, <2>3
<1>5. CASE ~ InFile(model, t)
  <2>1. TensorRawBytes(model, t) = {} BY <1>5, BytesOf
  <2> QED BY <2>1, FS_EmptySet
<1> QED BY <1>4, <1>5

\* resolve tries llama's key and then that of the file's own architecture.
LEMMA OwnKeysFound == OwnKeyFound
<1> SUFFICES ASSUME NEW field \in MetaFields, <<model.arch, field>> \in model.keys
             PROVE  Resolve(model, field) \in {<<model.arch, field>>, <<Archs[1], field>>} \cap model.keys
  BY DEF OwnKeyFound
<1>1. PICK n \in Nat : n = Len(Archs) - 1 BY ModelFileAssumption
<1>2. PICK t : t = IF model.arch = Archs[1] THEN [i \in 1..n |-> <<Archs[i + 1], field>>]
                                            ELSE <<<<model.arch, field>>>>
  OBVIOUS
<1>3. PICK S : S = {<<Archs[i + 1], field>> : i \in 0..n} \cup {<<model.arch, field>>} OBVIOUS
<1>4. PICK h : h = <<<<Archs[1], field>>>> OBVIOUS
<1>5. h \in Seq(S) /\ Len(h) = 1 /\ h[1] = <<Archs[1], field>>
  <2>1. <<Archs[0 + 1], field>> \in S /\ 0 + 1 = 1 BY <1>3
  <2> QED BY <1>4, <2>1
<1>6. t \in Seq(S) /\ (model.arch # Archs[1] => Len(t) = 1 /\ t[1] = <<model.arch, field>>)
  <2>1. CASE model.arch = Archs[1]
    <3>1. \A i \in 1..n : <<Archs[i + 1], field>> \in S BY <1>3
    <3>2. [i \in 1..n |-> <<Archs[i + 1], field>>] \in Seq(S) BY <3>1, IsASeq
    <3> QED BY <1>2, <2>1, <3>2
  <2>2. CASE model.arch # Archs[1]
    <3>1. <<model.arch, field>> \in S BY <1>3
    <3> QED BY <1>2, <2>2, <3>1
  <2> QED BY <2>1, <2>2
<1>7. PICK keys : keys = h \o t OBVIOUS
<1>8. KeyCandidates(model.arch, field) = keys
  BY <1>1, <1>2, <1>4, <1>7 DEF KeyCandidates
<1>9. PICK m \in Nat : m = Len(t) BY <1>6, LenProperties
<1>10. /\ keys \in Seq(S) /\ Len(keys) = 1 + m
       /\ \A i \in 1..(1 + m) : keys[i] = IF i <= 1 THEN h[i] ELSE t[i - 1]
  BY <1>5, <1>6, <1>7, <1>9, ConcatProperties
<1>11. DOMAIN keys = 1..(1 + m) BY <1>10, LenProperties
<1>12. keys[1] = <<Archs[1], field>> /\ (model.arch # Archs[1] => m = 1 /\ keys[2] = <<model.arch, field>>)
  BY <1>5, <1>6, <1>9, <1>10
<1>13. PICK found : found = {i \in DOMAIN keys : keys[i] \in model.keys} OBVIOUS
<1>14. found \subseteq Nat /\ found # {}
  <2>1. CASE model.arch = Archs[1] BY <1>11, <1>12, <1>13, <2>1
  <2>2. CASE model.arch # Archs[1] BY <1>11, <1>12, <1>13, <2>2
  <2> QED BY <1>11, <1>13, <2>1, <2>2
<1>15. Min(found) \in found /\ \A i \in found : Min(found) <= i
  BY <1>14, LeastNumber, Zenon DEF Min
<1>16. Resolve(model, field) = keys[Min(found)] BY <1>8, <1>13, <1>14 DEF Resolve
<1>17. PICK k : k = Min(found) OBVIOUS
<1>18. k \in 1..(1 + m) /\ keys[k] \in model.keys BY <1>11, <1>13, <1>15, <1>17
<1>19. CASE model.arch = Archs[1]
  <2>1. 1 \in found BY <1>11, <1>12, <1>13, <1>19
  <2>2. k = 1 BY <1>15, <1>17, <1>18, <2>1
  <2> QED BY <1>12, <1>16, <1>17, <1>18, <2>2
<1>20. CASE model.arch # Archs[1]
  <2>1. k = 1 \/ k = 2 BY <1>12, <1>18, <1>20
  <2> QED BY <1>12, <1>16, <1>17, <1>18, <1>20, <2>1
<1> QED BY <1>19, <1>20

\* Where the rows of an expert start and end.
Bounded(R, n, q) ==
  /\ q \in Nat /\ n * q \in Nat /\ n * q <= R
  /\ \A e \in 0..(n - 1) :
       /\ e * q \in Nat /\ ExpertEnd(R, n, e) \in Nat
       /\ e * q <= ExpertEnd(R, n, e) /\ ExpertEnd(R, n, e) <= R
       /\ ExpertRows(R, n, e) = (e * q)..(ExpertEnd(R, n, e) - 1)
       /\ e * q + q <= ExpertEnd(R, n, e)
       /\ e # n - 1 => ExpertEnd(R, n, e) = e * q + q

\* Where an expert's rows start and end.
LEMMA ExpertBounds ==
  ASSUME NEW R \in Nat \ {0}, NEW n \in Nat \ {0}, NEW q, q = R \div n
  PROVE  Bounded(R, n, q)
<1>1. PICK r : r = R % n OBVIOUS
<1>2. q \in Nat /\ r \in 0..(n - 1) /\ R = n * q + r BY <1>1, DivMod
<1>3. PICK x \in Nat : x = n * q BY <1>2
<1>4. ASSUME NEW e \in 0..(n - 1)
      PROVE  /\ e * q \in Nat /\ ExpertEnd(R, n, e) \in Nat
             /\ e * q <= ExpertEnd(R, n, e) /\ ExpertEnd(R, n, e) <= R
             /\ ExpertRows(R, n, e) = (e * q)..(ExpertEnd(R, n, e) - 1)
             /\ e * q + q <= ExpertEnd(R, n, e)
             /\ e # n - 1 => ExpertEnd(R, n, e) = e * q + q
  <2>1. e \in Nat /\ n \in Nat /\ e < n OBVIOUS
  <2>2. e * q \in Nat /\ e * q + q <= n * q BY <1>2, <2>1, TimesLess
  <2>3. PICK y \in Nat : y = e * q BY <2>2
  <2>4. (e + 1) * q = y + q
    <3>1. (e + 1) * q = e * q + q BY <1>2, <2>1
    <3> QED BY <2>3, <3>1
  <2>5. ExpertEnd(R, n, e) = IF e = n - 1 THEN R ELSE y + q
    BY <2>4 DEF ExpertEnd
  <2>6. y + q <= x /\ R = x + r BY <1>2, <1>3, <2>2, <2>3
  <2>7. ExpertRows(R, n, e) = y..(ExpertEnd(R, n, e) - 1) BY <2>3 DEF ExpertRows
  <2>8. PICK z : z = ExpertEnd(R, n, e) OBVIOUS
  <2>9. q \in Nat /\ r \in Nat /\ x \in Nat BY <1>2, <1>3
  <2>10. z = IF e = n - 1 THEN R ELSE y + q BY <2>5, <2>8
  <2>11. z \in Nat /\ y <= z /\ y + q <= z /\ z <= R /\ (e # n - 1 => z = y + q)
    BY <2>6, <2>9, <2>10
  <2> QED BY <2>3, <2>7, <2>8, <2>11
<1>5. x <= R BY <1>2, <1>3
<1> QED BY <1>2, <1>3, <1>4, <1>5 DEF Bounded

\* Every row belongs to an expert.
LEMMA ExpertsCover ==
  ASSUME NEW R \in Nat \ {0}, NEW n \in Nat \ {0}
  PROVE  /\ UNION {ExpertRows(R, n, e) : e \in 0 .. n - 1} = 0 .. R - 1
         /\ \A e, g \in 0 .. n - 1 : e # g => ExpertRows(R, n, e) \cap ExpertRows(R, n, g) = {}
<1>1. PICK q : q = R \div n OBVIOUS
<1>2. /\ q \in Nat /\ n * q \in Nat /\ n * q <= R
      /\ \A e \in 0..(n - 1) :
              /\ e * q \in Nat /\ ExpertEnd(R, n, e) \in Nat
              /\ e * q <= ExpertEnd(R, n, e) /\ ExpertEnd(R, n, e) <= R
              /\ ExpertRows(R, n, e) = (e * q)..(ExpertEnd(R, n, e) - 1)
              /\ e * q + q <= ExpertEnd(R, n, e)
              /\ e # n - 1 => ExpertEnd(R, n, e) = e * q + q
  <2>1. Bounded(R, n, q) BY <1>1, ExpertBounds, Zenon
  <2> QED BY <2>1 DEF Bounded
<1>3. ASSUME NEW e \in 0..(n - 1), NEW x \in ExpertRows(R, n, e) PROVE x \in 0..(R - 1)
  <2>1. PICK a \in Nat, b \in Nat : a = e * q /\ b = ExpertEnd(R, n, e) BY <1>2
  <2>2. b <= R /\ x \in a..(b - 1) BY <1>2, <2>1
  <2> QED BY <2>1, <2>2
<1>4. ASSUME NEW x \in 0..(R - 1) PROVE \E e \in 0..(n - 1) : x \in ExpertRows(R, n, e)
  <2>1. CASE x < n * q
    <3>1. x \in Nat OBVIOUS
    <3>2. PICK t \in 0..(n - 1) : t * q \in Nat /\ t * q <= x /\ x < t * q + q
      BY <1>2, <2>1, <3>1, RangesCover, Zenon
    <3>3. PICK a \in Nat, b \in Nat : a = t * q /\ b = ExpertEnd(R, n, t) BY <1>2
    <3>4. a <= x /\ x < a + q /\ a + q <= b /\ ExpertRows(R, n, t) = a..(b - 1) BY <1>2, <3>2, <3>3
    <3>5. x \in a..(b - 1) BY <1>2, <3>3, <3>4
    <3> QED BY <3>4, <3>5
  <2>2. CASE ~ (x < n * q)
    <3>1. PICK e \in 0..(n - 1) : e = n - 1 OBVIOUS
    <3>2. ExpertEnd(R, n, e) = R BY <3>1 DEF ExpertEnd
    <3>3. PICK a \in Nat : a = e * q BY <1>2
    <3>4. e < n /\ e \in Nat BY <3>1
    <3>5. e * q + q <= n * q BY <1>2, <3>4, TimesLess
    <3>6. PICK y \in Nat : y = n * q BY <1>2
    <3>7. a + q <= y /\ ~ (x < y) BY <2>2, <3>3, <3>5, <3>6
    <3>8. ExpertRows(R, n, e) = a..(R - 1) BY <1>2, <3>2, <3>3
    <3>9. x \in a..(R - 1) BY <1>2, <3>3, <3>6, <3>7
    <3> QED BY <3>8, <3>9
  <2> QED BY <2>1, <2>2
<1>5. ASSUME NEW e \in 0..(n - 1), NEW g \in 0..(n - 1), e < g, NEW x \in ExpertRows(R, n, e),
             x \in ExpertRows(R, n, g)
      PROVE  FALSE
  <2>1. e * q + q <= g * q BY <1>2, <1>5, TimesLess
  <2>2. PICK a \in Nat, b \in Nat : a = e * q /\ b = g * q BY <1>2
  <2>3. e # n - 1 BY <1>5
  <2>4. ExpertRows(R, n, e) = a..(a + q - 1) BY <1>2, <2>2, <2>3
  <2>5. ExpertRows(R, n, g) = b..(ExpertEnd(R, n, g) - 1) /\ ExpertEnd(R, n, g) \in Nat BY <1>2, <2>2
  <2>6. a + q <= b BY <2>1, <2>2
  <2>7. x \in a..(a + q - 1) BY <1>5, <2>4
  <2>8. x \in b..(ExpertEnd(R, n, g) - 1) BY <1>5, <2>5
  <2>9. x \in Int /\ x < a + q /\ b <= x BY <1>2, <2>5, <2>7, <2>8
  <2>10. q \in Nat /\ a \in Nat /\ b \in Nat BY <1>2, <2>2
  <2> QED BY <2>6, <2>9, <2>10
<1>6. \A e, g \in 0..(n - 1) : e < g => ExpertRows(R, n, e) \cap ExpertRows(R, n, g) = {}
  BY <1>5
<1>7. ASSUME NEW e \in 0..(n - 1), NEW g \in 0..(n - 1), e # g
      PROVE  ExpertRows(R, n, e) \cap ExpertRows(R, n, g) = {}
  <2>1. e < g \/ g < e BY <1>7
  <2> QED BY <1>6, <2>1
<1> QED BY <1>3, <1>4, <1>7

\* The bytes of a product of whole rows.
LEMMA ExpertBytesInside ==
  ASSUME NEW f, Opened(f), NEW t \in f.tensors, InFile(f, t),
         NEW R \in Nat \ {0}, NEW n \in Nat \ {0}, NEW e \in 0..(n - 1)
  PROVE  ExpertBytes(f, t, R, n, e) \subseteq TensorRawBytes(f, t)
<1>1. PICK o \in Nat : o = AbsoluteOffset(f, t) BY OffsetBehindHeader
<1>2. PICK b \in Nat : b = t.nbytes BY DEF Opened
<1>3. TensorRawBytes(f, t) = o..(o + b - 1) BY <1>1, <1>2, BytesOf
<1>4. PICK z : z = b \div R OBVIOUS
<1>5. z \in Nat /\ R * z <= b
  <2>1. PICK r : r = b % R OBVIOUS
  <2>2. z \in Nat /\ r \in 0..(R - 1) /\ b = R * z + r BY <1>4, <2>1, DivMod
  <2>3. PICK x \in Nat : x = R * z BY <2>2
  <2> QED BY <2>2, <2>3
<1>6. PICK q : q = R \div n OBVIOUS
<1>7. /\ e * q \in Nat /\ ExpertEnd(R, n, e) \in Nat
      /\ e * q <= ExpertEnd(R, n, e) /\ ExpertEnd(R, n, e) <= R
      /\ ExpertRows(R, n, e) = (e * q)..(ExpertEnd(R, n, e) - 1)
  <2>1. Bounded(R, n, q) BY <1>6, ExpertBounds, Zenon
  <2> QED BY <2>1 DEF Bounded
<1>8. PICK a \in Nat, d \in Nat : a = e * q /\ d = ExpertEnd(R, n, e) /\ a <= d /\ d <= R BY <1>7
<1>9. PICK c \in Nat : d = a + c
  <2>1. d - a \in Nat /\ d = a + (d - a) BY <1>8
  <2> QED BY <2>1
<1>10. Cardinality(ExpertRows(R, n, e)) = c
  <2>1. PICK u \in Int : u = d - 1 OBVIOUS
  <2>2. Cardinality(a..u) = IF a > u THEN 0 ELSE u - a + 1 BY FS_Interval
  <2> QED BY <1>7, <1>8, <1>9, <2>1, <2>2
<1>11. a * z + c * z = d * z /\ a * z \in Nat /\ c * z \in Nat BY <1>5, <1>9
<1>12. d * z <= R * z
  <2>1. CASE d = R BY <1>5, <2>1
  <2>2. CASE d # R
    <3>1. d < R BY <1>8, <2>2
    <3>2. d * z \in Nat /\ R * z \in Nat /\ d * z + z <= R * z BY <1>5, <3>1, TimesLess
    <3> QED BY <1>5, <3>2
  <2> QED BY <2>1, <2>2
<1>13. PICK x \in Nat, y \in Nat : x = a * z /\ y = c * z BY <1>11
<1>14. x + y <= b
  <2>1. PICK w \in Nat : w = R * z BY <1>5
  <2>2. x + y <= w /\ w <= b BY <1>5, <1>11, <1>12, <1>13, <2>1
  <2> QED BY <2>1, <2>2
<1>15. ExpertBytes(f, t, R, n, e) = (o + x)..(o + x + y - 1)
  BY <1>1, <1>2, <1>4, <1>6, <1>8, <1>10, <1>13 DEF ExpertBytes
<1> QED BY <1>3, <1>14, <1>15

\* The experts share out the rows, and prefetch_range asks for a tensor's bytes.
LEMMA ExpertsShare == Opened(model) => ExpertsShareRows
<1> SUFFICES ASSUME Opened(model) PROVE ExpertsShareRows OBVIOUS
<1>1. PICK R \in Nat \ {0} : R = model.ffnRows BY DEF Opened
<1>2. PICK n \in Nat \ {0} : n = model.experts BY DEF Opened
<1>3. ASSUME NEW hash \in 0 .. 2 * n, NEW t \in model.tensors, InFile(model, t)
      PROVE  Prefetched(model, t, R, n, PredictExpert(hash, n)) \subseteq TensorRawBytes(model, t)
  <2>1. PICK e : e = PredictExpert(hash, n) OBVIOUS
  <2>2. hash \in Nat OBVIOUS
  <2>3. e \in 0..(n - 1) BY <2>1, <2>2, DivMod DEF PredictExpert
  <2>4. ExpertBytes(model, t, R, n, e) \subseteq TensorRawBytes(model, t)
    BY <1>3, <2>3, ExpertBytesInside
  <2> QED BY <2>1, <2>4 DEF Prefetched
<1>4. /\ UNION {ExpertRows(R, n, e) : e \in 0 .. n - 1} = 0 .. R - 1
      /\ \A e, g \in 0 .. n - 1 : e # g => ExpertRows(R, n, e) \cap ExpertRows(R, n, g) = {}
  BY ExpertsCover
<1> QED BY <1>1, <1>2, <1>3, <1>4 DEF ExpertsShareRows

\* What a fold makes of each of the first elements.
FoldSteps(P, kind, p, base, s, n) ==
  /\ P[0] = base
  /\ \A i \in 1..n : P[i] = Folded(kind, p, P[i - 1], s[i])

LEMMA FoldPrefixes ==
  ASSUME NEW kind, NEW p, NEW base, NEW s, NEW n \in Nat, NEW g, FoldOn(kind, p, base, g, s, n)
  PROVE  \E P : FoldSteps(P, kind, p, base, s, n) /\ P[n] = g[1..n]
<1> DEFINE P == [i \in 0..n |-> g[1..i]]
<1>1. P[0] = base
  <2>1. 1..0 = {} /\ 1..0 \in SUBSET (1..n) OBVIOUS
  <2>2. g[1..0] = base BY <2>1, Zenon DEF FoldOn
  <2> QED BY <2>2
<1>2. ASSUME NEW i \in 1..n PROVE P[i] = Folded(kind, p, P[i - 1], s[i])
  <2>1. 1..i \in SUBSET (1..n) /\ 1..i # {} /\ (1..i) \ {i} = 1..(i - 1) /\ i \in 1..i /\ i \in Nat
    OBVIOUS
  <2>2. Max(1..i) = i BY <2>1, MaxIsLast
  <2>3. g[1..i] = Folded(kind, p, g[1..(i - 1)], s[i]) BY <2>1, <2>2, Zenon DEF FoldOn
  <2>4. i - 1 \in 0..n /\ i \in 0..n OBVIOUS
  <2>5. P[i] = g[1..i] /\ P[i - 1] = g[1..(i - 1)] BY <2>4
  <2> QED BY <2>3, <2>5
<1>3. P[n] = g[1..n] OBVIOUS
<1> HIDE DEF P
<1>4. FoldSteps(P, kind, p, base, s, n) BY <1>1, <1>2 DEF FoldSteps
<1> QED BY <1>3, <1>4

\* F holds the first elements of ss one after the other.
Flat(F, ss, n) == F[0] = <<>> /\ \A i \in 1..n : F[i] = F[i - 1] \o ss[i]

LEMMA FlatExists ==
  ASSUME NEW ss, NEW n \in Nat
  PROVE  \E F : Flat(F, ss, n)
<1>1. PICK g : FoldOn("concat", 0, <<>>, g, ss, n) BY FoldExists
<1>2. PICK P : FoldSteps(P, "concat", 0, <<>>, ss, n) BY <1>1, FoldPrefixes
<1>3. \A a, x : Folded("concat", 0, a, x) = a \o x BY DEF Folded
<1>4. Flat(P, ss, n) BY <1>2, <1>3, Zenon DEF FoldSteps, Flat
<1> QED BY <1>4

AllSeqs(S, n, ss) == \A i \in 1..n : ss[i] \in Seq(S)
Begins(u, ss, m) == Len(u) = m /\ (m = 0 => u = <<>>) /\ \A i \in 1..m : u[i] = ss[i]
HoldsAt(F, ss, i, m) ==
  /\ Len(F[i]) = Len(F[i - 1]) + Len(ss[i])
  /\ Len(F[i - 1]) \in Nat /\ Len(F[i]) \in Nat /\ Len(F[m]) \in Nat /\ Len(ss[i]) \in Nat
  /\ Len(F[i]) <= Len(F[m])
  /\ \A x \in 1..Len(ss[i]) : F[m][Len(F[i - 1]) + x] = ss[i][x]

LEMMA FlatType ==
  ASSUME NEW S, NEW n \in Nat, NEW ss, \A i \in 1..n : ss[i] \in Seq(S),
         NEW F, Flat(F, ss, n)
  PROVE  \A i \in 0..n : F[i] \in Seq(S)
<1> DEFINE T == {k \in 0..n : F[k] \notin Seq(S)}
<1> SUFFICES ASSUME T # {} PROVE FALSE OBVIOUS
<1>1. T \subseteq Nat OBVIOUS
<1>2. PICK k \in T : \A j \in T : k <= j BY <1>1, LeastNumber
<1>3. k # 0 BY <1>2, EmptySeq DEF Flat
<1>4. k - 1 \in 0..n /\ k \in 1..n /\ k - 1 \notin T BY <1>2, <1>3
<1>5. F[k - 1] \in Seq(S) BY <1>4
<1>6. F[k] = F[k - 1] \o ss[k] /\ ss[k] \in Seq(S) BY <1>4 DEF Flat
<1>7. F[k] \in Seq(S) BY <1>5, <1>6, ConcatProperties
<1> QED BY <1>2, <1>7

\* Where element x of ss[i] is found in what is flattened up to m.
LEMMA FlatHolds ==
  ASSUME NEW S, NEW n \in Nat, NEW ss, AllSeqs(S, n, ss),
         NEW F, Flat(F, ss, n), NEW i \in 1..n, NEW m \in i..n
  PROVE  HoldsAt(F, ss, i, m)
<1>0. \A j \in 1..n : ss[j] \in Seq(S) BY DEF AllSeqs
<1>1. \A j \in 0..n : F[j] \in Seq(S) /\ Len(F[j]) \in Nat BY <1>0, FlatType, LenProperties
<1>2. ASSUME NEW j \in 1..n
      PROVE  /\ Len(F[j]) = Len(F[j - 1]) + Len(ss[j])
             /\ Len(ss[j]) \in Nat
             /\ \A x \in 1..(Len(F[j - 1]) + Len(ss[j])) :
                  F[j][x] = IF x <= Len(F[j - 1]) THEN F[j - 1][x] ELSE ss[j][x - Len(F[j - 1])]
  <2>1. j - 1 \in 0..n OBVIOUS
  <2>2. F[j - 1] \in Seq(S) /\ ss[j] \in Seq(S) BY <1>0, <1>1, <2>1
  <2>3. F[j] = F[j - 1] \o ss[j] BY DEF Flat
  <2>4. Len(ss[j]) \in Nat BY <2>2, LenProperties
  <2>5. /\ Len(F[j - 1] \o ss[j]) = Len(F[j - 1]) + Len(ss[j])
        /\ \A x \in 1..(Len(F[j - 1]) + Len(ss[j])) :
             (F[j - 1] \o ss[j])[x] = IF x <= Len(F[j - 1]) THEN F[j - 1][x] ELSE ss[j][x - Len(F[j - 1])]
    BY <2>2, ConcatProperties, Zenon
  <2> QED BY <2>3, <2>4, <2>5
<1>3. i - 1 \in 0..n /\ i \in 0..n /\ m \in 0..n OBVIOUS
<1>4. PICK a \in Nat, b \in Nat : a = Len(F[i - 1]) /\ b = Len(ss[i]) BY <1>1, <1>2, <1>3
<1>5. Len(F[i]) = a + b BY <1>2, <1>4
<1> DEFINE Good(k) == a + b <= Len(F[k]) /\ \A x \in 1..b : F[k][a + x] = ss[i][x]
<1>6. Good(m)
  <2> DEFINE T == {k \in i..n : ~ Good(k)}
  <2>1. ASSUME T # {} PROVE FALSE
    <3>1. T \subseteq Nat OBVIOUS
    <3>2. PICK k \in T : \A j \in T : k <= j BY <2>1, <3>1, LeastNumber
    <3>3. Good(i)
      <4>1. \A x \in 1..b : a + x \in 1..(a + b) /\ ~ (a + x <= a) /\ a + x - a = x OBVIOUS
      <4>2. \A x \in 1..(a + b) : F[i][x] = IF x <= a THEN F[i - 1][x] ELSE ss[i][x - a]
        BY <1>2, <1>4
      <4>3. ASSUME NEW x \in 1..b PROVE F[i][a + x] = ss[i][x]
        <5>1. PICK y \in 1..(a + b) : y = a + x /\ ~ (y <= a) /\ y - a = x BY <4>1
        <5>2. F[i][y] = ss[i][y - a] BY <4>2, <5>1
        <5> QED BY <5>1, <5>2
      <4> QED BY <1>5, <4>3
    <3>4. k # i
      <4> HIDE DEF Good
      <4> QED BY <3>2, <3>3
    <3>5. k - 1 \in i..n /\ k \in 1..n /\ k - 1 \in 0..n /\ k - 1 < k
      <4> HIDE DEF Good
      <4> QED BY <3>2, <3>4
    <3>6. Good(k - 1)
      <4> HIDE DEF Good
      <4> QED BY <3>2, <3>5
    <3>7. PICK c \in Nat, d \in Nat : c = Len(F[k - 1]) /\ d = Len(ss[k]) BY <1>1, <1>2, <3>5
    <3>8. a + b <= c BY <3>6, <3>7
    <3>9. Len(F[k]) = c + d BY <1>2, <3>5, <3>7
    <3>10. ASSUME NEW x \in 1..b PROVE F[k][a + x] = ss[i][x]
      <4>1. a + x \in 1..(c + d) /\ a + x <= c BY <3>8
      <4>2. F[k][a + x] = F[k - 1][a + x] BY <1>2, <3>5, <3>7, <4>1
      <4> QED BY <3>6, <4>2
    <3>11. Good(k) BY <3>8, <3>9, <3>10
    <3> HIDE DEF Good
    <3> QED BY <3>2, <3>11
  <2> HIDE DEF Good
  <2>2. m \in i..n OBVIOUS
  <2> QED BY <2>1, <2>2
<1>7. Len(F[m]) \in Nat /\ Len(F[i]) \in Nat BY <1>1, <1>3
<1> QED BY <1>4, <1>5, <1>6, <1>7 DEF HoldsAt

\* FlattenSeq computes it.
FlattensTo(u, F, m) == FlattenSeq(u) = F[m]

LEMMA FlattenIs ==
  ASSUME NEW S, NEW n \in Nat, NEW ss, AllSeqs(S, n, ss),
         NEW F, Flat(F, ss, n), NEW m \in 0..n, NEW u, Begins(u, ss, m)
  PROVE  FlattensTo(u, F, m)
<1>0. /\ \A i \in 1..n : ss[i] \in Seq(S)
      /\ Len(u) = m /\ (m = 0 => u = <<>>) /\ \A i \in 1..m : u[i] = ss[i]
  BY DEF AllSeqs, Begins
<1> SUFFICES FlattenSeq(u) = F[m] BY DEF FlattensTo
<1>1. CASE m = 0 BY <1>0, <1>1 DEF FlattenSeq, Flat
<1>2. CASE m # 0
  <2> DEFINE Eq(f) == f = [i \in 1..m |-> IF i = 1 THEN u[i] ELSE f[i - 1] \o u[i]]
             f0 == [i \in 1..m |-> F[i]]
  <2>1. FlattenSeq(u) = (CHOOSE f : Eq(f))[m] BY <1>0, <1>2 DEF FlattenSeq
  <2>2. \A i \in 1..m : F[i] = F[i - 1] \o u[i]
    <3>1. ASSUME NEW i \in 1..m PROVE F[i] = F[i - 1] \o u[i]
      <4>1. i \in 1..n /\ u[i] = ss[i] BY <1>0
      <4> QED BY <4>1 DEF Flat
    <3> QED BY <3>1
  <2>3. F[1] = u[1]
    <3>1. 1 \in 1..m /\ 1 \in 1..n /\ 1 - 1 = 0 BY <1>2
    <3>2. F[1] = <<>> \o ss[1] BY <3>1 DEF Flat
    <3>3. ss[1] \in Seq(S) /\ u[1] = ss[1] BY <1>0, <3>1
    <3> QED BY <3>2, <3>3, ConcatEmptySeq
  <2>4. Eq(f0)
    <3>1. ASSUME NEW i \in 1..m PROVE F[i] = IF i = 1 THEN u[i] ELSE f0[i - 1] \o u[i]
      <4>1. CASE i = 1 BY <2>3, <4>1
      <4>2. CASE i # 1
        <5>1. i - 1 \in 1..m BY <4>2
        <5>2. f0[i - 1] = F[i - 1] BY <5>1
        <5> QED BY <2>2, <4>2, <5>2
      <4> QED BY <4>1, <4>2
    <3> QED BY <3>1
  <2>5. PICK f : f = (CHOOSE h : Eq(h)) OBVIOUS
  <2>6. Eq(f)
    <3> HIDE DEF Eq
    <3> QED BY <2>4, <2>5
  <2>7. f[m] = F[m]
    <3> DEFINE T == {k \in 1..m : f[k] # F[k]}
    <3>1. ASSUME T # {} PROVE FALSE
      <4>1. T \subseteq Nat OBVIOUS
      <4>2. PICK k \in T : \A j \in T : k <= j BY <3>1, <4>1, LeastNumber
      <4>3. f[k] = IF k = 1 THEN u[k] ELSE f[k - 1] \o u[k]
        <5>1. k \in 1..m BY <4>2
        <5> QED BY <2>6, <5>1
      <4>4. k # 1 BY <2>3, <4>2, <4>3
      <4>5. k - 1 \in 1..m /\ k \in 1..m /\ k - 1 \notin T BY <4>2, <4>4
      <4>6. f[k - 1] = F[k - 1] BY <4>5
      <4>7. f[k] = F[k] BY <2>2, <4>3, <4>4, <4>5, <4>6
      <4> QED BY <4>2, <4>7
    <3>2. m \in 1..m BY <1>2
    <3> QED BY <3>1, <3>2
  <2> HIDE DEF Eq
  <2> QED BY <2>1, <2>5, <2>7
<1> QED BY <1>1, <1>2

-----------------------------------------------------------------------------
(* Loading a model: the rings of the layers                                *)

\* The offsets, the ring and its length, told by what the tensors flatten to.
RingFacts(layer, F, n, L, N) ==
  /\ \A t \in 1..n : Offset(layer, t) = Len(F[t - 1])
  /\ \A i \in 0..n : F[i] \in Seq(Nat) /\ Len(F[i]) \in Nat
  /\ N \in L..(L + RingPadding - 1)
  /\ Ring(layer) = [i \in 1..N |-> IF i <= L THEN F[n][i] ELSE 0]
  /\ Ring(layer) \in Seq(Nat) /\ Len(Ring(layer)) = N

LEMMA RingOf ==
  ASSUME NEW layer \in [TensorNames -> Seq(Nat)], NEW F, NEW n \in Nat, n = 7, Flat(F, layer, n),
         NEW L, L = Len(F[n]), NEW N, N = RoundUp(L, RingPadding)
  PROVE  RingFacts(layer, F, n, L, N)
<1>1. layer \in Seq(Seq(Nat)) /\ Len(layer) = n /\ \A i \in 1..n : layer[i] \in Seq(Nat)
  <2>1. layer \in [1..n -> Seq(Nat)] BY DEF TensorNames
  <2>2. \A i \in 1..n : layer[i] \in Seq(Nat) BY <2>1
  <2>3. [i \in 1..n |-> layer[i]] \in Seq(Seq(Nat)) BY <2>2, IsASeq
  <2>4. layer = [i \in 1..n |-> layer[i]] BY <2>1
  <2>5. layer \in Seq(Seq(Nat)) BY <2>3, <2>4
  <2>6. DOMAIN layer = 1..n /\ DOMAIN layer = 1..Len(layer) /\ Len(layer) \in Nat
    BY <2>1, <2>5, LenProperties
  <2> QED BY <2>2, <2>5, <2>6
<1>2. \A i \in 0..n : F[i] \in Seq(Nat) /\ Len(F[i]) \in Nat BY <1>1, FlatType, LenProperties
<1>3. ASSUME NEW t \in 1..n PROVE Offset(layer, t) = Len(F[t - 1])
  <2>1. PICK u : u = SubSeq(layer, 1, t - 1) OBVIOUS
  <2>2. PICK m \in 0..n : m = t - 1 OBVIOUS
  <2>3. 1 \in Int /\ m \in Int OBVIOUS
  <2>4. \A i \in 1..m : layer[i] \in Seq(Nat) BY <1>1, <2>2
  <2>5. /\ Len(u) = (IF 1 <= m THEN m - 1 + 1 ELSE 0)
        /\ \A i \in 1..(m - 1 + 1) : u[i] = layer[1 + i - 1]
    BY <2>1, <2>2, <2>3, <2>4, SubSeqProperties
  <2>6. Len(u) = m /\ \A i \in 1..m : u[i] = layer[i] BY <2>5
  <2>7. m = 0 => u = <<>> BY <2>1, <2>2, SubSeqEmpty
  <2>9. AllSeqs(Nat, n, layer) BY <1>1 DEF AllSeqs
  <2>10. Begins(u, layer, m) BY <2>6, <2>7 DEF Begins
  <2>11. FlattensTo(u, F, m) BY <2>9, <2>10, FlattenIs, Zenon
  <2>8. FlattenSeq(u) = F[m] BY <2>11 DEF FlattensTo
  <2> QED BY <2>1, <2>2, <2>8 DEF Offset
<1>4. FlattenSeq(layer) = F[n]
  <2>1. n \in 0..n /\ n # 0 OBVIOUS
  <2>2. Begins(layer, layer, n) BY <1>1, <2>1 DEF Begins
  <2>3. AllSeqs(Nat, n, layer) BY <1>1 DEF AllSeqs
  <2>4. FlattensTo(layer, F, n) BY <2>1, <2>2, <2>3, FlattenIs, Zenon
  <2> QED BY <2>4 DEF FlattensTo
<1>5. L \in Nat BY <1>2
<1>6. N \in L..(L + RingPadding - 1) BY <1>5, ModelFileAssumption, RoundUpRange
<1>7. Ring(layer) = [i \in 1..N |-> IF i <= L THEN F[n][i] ELSE 0] BY <1>4 DEF Ring
<1>8. Ring(layer) \in Seq(Nat) /\ Len(Ring(layer)) = N
  <2>1. N \in Nat BY <1>5, <1>6, ModelFileAssumption
  <2>2. F[n] \in Seq(Nat) BY <1>2
  <2>3. \A i \in 1..N : (IF i <= L THEN F[n][i] ELSE 0) \in Nat BY <1>5, <2>1, <2>2, ElementOfSeq
  <2>4. [i \in 1..N |-> IF i <= L THEN F[n][i] ELSE 0] \in Seq(Nat) BY <2>1, <2>3, IsASeq
  <2> QED BY <1>7, <2>1, <2>4
<1> QED BY <1>2, <1>3, <1>6, <1>7, <1>8 DEF RingFacts

\* A slice is its tensor, the last one with the padding.
LEMMA SliceIsTensor ==
  ASSUME NEW layer \in [TensorNames -> Seq(Nat)], NEW t \in TensorNames
  PROVE  /\ SubSeq(Slice(layer, t), 1, Len(layer[t])) = layer[t]
         /\ Len(Slice(layer, t)) < Len(layer[t]) + (IF t = 7 THEN RingPadding ELSE 1)
<1>1. PICK n \in Nat : n = 7 OBVIOUS
<1>2. PICK F : Flat(F, layer, n) BY FlatExists
<1>3. PICK L : L = Len(F[n]) OBVIOUS
<1>4. PICK N : N = RoundUp(L, RingPadding) OBVIOUS
<1>5. /\ \A i \in 1..n : Offset(layer, i) = Len(F[i - 1])
      /\ \A i \in 0..n : F[i] \in Seq(Nat) /\ Len(F[i]) \in Nat
      /\ N \in L..(L + RingPadding - 1)
      /\ Ring(layer) = [i \in 1..N |-> IF i <= L THEN F[n][i] ELSE 0]
      /\ Ring(layer) \in Seq(Nat) /\ Len(Ring(layer)) = N
  <2>1. RingFacts(layer, F, n, L, N) BY <1>1, <1>2, <1>3, <1>4, RingOf, Zenon
  <2> QED BY <2>1 DEF RingFacts
<1>6. t \in 1..n /\ n \in t..n /\ t - 1 \in 0..n BY <1>1 DEF TensorNames
<1>7. \A i \in 1..n : layer[i] \in Seq(Nat) BY <1>1 DEF TensorNames
<1>8. /\ Len(F[t]) = Len(F[t - 1]) + Len(layer[t])
      /\ Len(F[t - 1]) \in Nat /\ Len(F[t]) \in Nat /\ Len(layer[t]) \in Nat
      /\ Len(F[t]) <= Len(F[n])
      /\ \A x \in 1..Len(layer[t]) : F[n][Len(F[t - 1]) + x] = layer[t][x]
  <2>1. AllSeqs(Nat, n, layer) BY <1>7 DEF AllSeqs
  <2>2. HoldsAt(F, layer, t, n) BY <1>2, <1>6, <2>1, FlatHolds, Zenon
  <2> QED BY <2>2 DEF HoldsAt
<1>9. PICK o \in Nat, b \in Nat : o = Len(F[t - 1]) /\ b = Len(layer[t]) BY <1>8
<1>10. o + b <= L /\ L \in Nat BY <1>3, <1>5, <1>8, <1>9
<1>11. PICK P \in Nat \ {0} : P = RingPadding BY ModelFileAssumption
<1>12. N \in Nat /\ L <= N /\ N < L + P BY <1>5, <1>10, <1>11
<1>13. PICK e \in Nat : e = (IF t < 7 THEN o + b ELSE N) BY <1>12
<1>14. Slice(layer, t) = SubSeq(Ring(layer), o + 1, e)
  <2>1. Offset(layer, t) = o BY <1>5, <1>6, <1>9
  <2>2. t < 7 => Offset(layer, t + 1) = o + b
    <3> SUFFICES ASSUME t < 7 PROVE Offset(layer, t + 1) = o + b OBVIOUS
    <3>1. t + 1 \in 1..n /\ t + 1 - 1 = t BY <1>1, <1>6
    <3>2. PICK k \in 1..n : k = t + 1 /\ k - 1 = t BY <1>6, <3>1
    <3>3. Offset(layer, k) = Len(F[k - 1]) BY <1>5
    <3> QED BY <1>8, <1>9, <3>2, <3>3
  <2> QED BY <1>5, <1>13, <2>1, <2>2 DEF Slice
<1>15. o + b <= e /\ e <= N
  <2>1. t <= 7 BY DEF TensorNames
  <2> QED BY <1>10, <1>12, <1>13
<1>16. PICK s : s = Slice(layer, t) OBVIOUS
<1>17. s \in Seq(Nat) /\ Len(s) = e - o /\ \A x \in 1..(e - o) : s[x] = Ring(layer)[o + x]
  <2>1. PICK a \in Int : a = o + 1 OBVIOUS
  <2>2. \A x \in a..e : Ring(layer)[x] \in Nat
    <3>1. ASSUME NEW x \in a..e PROVE Ring(layer)[x] \in Nat
      <4>1. x \in 1..Len(Ring(layer)) BY <1>5, <1>12, <1>15, <2>1
      <4> QED BY <1>5, <4>1, ElementOfSeq
    <3> QED BY <3>1
  <2>7. a \in Int /\ e \in Int OBVIOUS
  <2>3. /\ SubSeq(Ring(layer), a, e) \in Seq(Nat)
        /\ Len(SubSeq(Ring(layer), a, e)) = (IF a <= e THEN e - a + 1 ELSE 0)
        /\ \A x \in 1..(e - a + 1) : SubSeq(Ring(layer), a, e)[x] = Ring(layer)[a + x - 1]
    BY <2>2, <2>7, SubSeqProperties
  <2>4. s = SubSeq(Ring(layer), a, e) BY <1>14, <1>16, <2>1
  <2>5. e - a + 1 = e - o /\ (a <= e \/ e - o = 0) BY <1>15, <2>1
  <2>6. \A x \in 1..(e - o) : a + x - 1 = o + x BY <2>1
  <2> QED BY <2>3, <2>4, <2>5, <2>6
<1>18. \A x \in 1..b : s[x] = layer[t][x]
  <2>1. ASSUME NEW x \in 1..b PROVE s[x] = layer[t][x]
    <3>1. x \in 1..(e - o) /\ o + x \in 1..N /\ o + x <= L BY <1>10, <1>12, <1>15
    <3>2. s[x] = Ring(layer)[o + x] BY <1>17, <3>1
    <3>3. Ring(layer)[o + x] = F[n][o + x] BY <1>5, <3>1
    <3>4. F[n][o + x] = layer[t][x] BY <1>8, <1>9
    <3> QED BY <3>2, <3>3, <3>4
  <2> QED BY <2>1
<1>19. SubSeq(s, 1, b) = layer[t]
  <2>1. layer[t] \in Seq(Nat) BY <1>6, <1>7
  <2>2. \A x \in 1..b : s[x] \in Nat BY <1>9, <1>18, <2>1, ElementOfSeq
  <2>3. 1 \in Int /\ b \in Int OBVIOUS
  <2>4. /\ SubSeq(s, 1, b) \in Seq(Nat)
        /\ Len(SubSeq(s, 1, b)) = (IF 1 <= b THEN b - 1 + 1 ELSE 0)
        /\ \A x \in 1..(b - 1 + 1) : SubSeq(s, 1, b)[x] = s[1 + x - 1]
    BY <2>2, <2>3, SubSeqProperties
  <2>5. Len(SubSeq(s, 1, b)) = b /\ \A x \in 1..b : SubSeq(s, 1, b)[x] = layer[t][x]
    BY <1>18, <2>4
  <2> QED BY <1>9, <2>1, <2>4, <2>5, SeqEqual
<1>20. Len(s) < b + (IF t = 7 THEN P ELSE 1)
  <2>1. t \in 1..7 BY DEF TensorNames
  <2>2. CASE t = 7
    <3>1. L = o + b BY <1>1, <1>3, <1>8, <1>9, <2>2
    <3>2. e = N BY <1>13, <2>2
    <3> QED BY <1>12, <1>17, <2>2, <3>1, <3>2
  <2>3. CASE t < 7 BY <1>13, <1>17, <2>3
  <2> QED BY <2>1, <2>2, <2>3
<1> QED BY <1>9, <1>11, <1>16, <1>19, <1>20

\* The slices of every layer are its tensors.
LEMMA SlicesTile == Opened(model) => SlicesAreTensors
<1> SUFFICES ASSUME Opened(model), NEW l \in DOMAIN model.layers, NEW t \in TensorNames
             PROVE  LET s == Slice(model.layers[l], t)  tensor == model.layers[l][t] IN
                    /\ SubSeq(s, 1, Len(tensor)) = tensor
                    /\ Len(s) < Len(tensor) + (IF t = 7 THEN RingPadding ELSE 1)
  BY DEF SlicesAreTensors
<1>1. model.layers \in Seq([TensorNames -> Seq(Nat)]) BY DEF Opened
<1>2. PICK layer : layer = model.layers[l] OBVIOUS
<1>3. layer \in [TensorNames -> Seq(Nat)] BY <1>1, <1>2, LenProperties, ElementOfSeq
<1> QED BY <1>2, <1>3, SliceIsTensor

-----------------------------------------------------------------------------
(* Loading a model: the groups of layers with equal rings                  *)

\* The numbers after a up to b.
Run(a, b) == [i \in 1..(b - a) |-> a + i]

LEMMA RunType ==
  ASSUME NEW a \in Nat, NEW b \in Nat, a <= b
  PROVE  /\ Run(a, b) \in Seq(Nat) /\ Len(Run(a, b)) = b - a /\ DOMAIN Run(a, b) = 1..(b - a)
         /\ \A i \in 1..(b - a) : Run(a, b)[i] = a + i
<1>1. PICK d \in Nat : d = b - a OBVIOUS
<1>2. \A i \in 1..d : a + i \in Nat BY <1>1
<1>3. [i \in 1..d |-> a + i] \in Seq(Nat) BY <1>2, IsASeq
<1>4. Run(a, b) = [i \in 1..d |-> a + i] BY <1>1 DEF Run
<1>5. Len([i \in 1..d |-> a + i]) \in Nat /\ DOMAIN [i \in 1..d |-> a + i] = 1..Len([i \in 1..d |-> a + i])
  BY <1>3, LenProperties
<1>6. Len([i \in 1..d |-> a + i]) = d BY <1>5
<1> QED BY <1>1, <1>3, <1>4, <1>6

\* Runs that meet join.
LEMMA RunsJoin ==
  ASSUME NEW a \in Nat, NEW b \in Nat, NEW c \in Nat, a <= b, b <= c
  PROVE  Run(a, b) \o Run(b, c) = Run(a, c)
<1>1. PICK s, u, v : s = Run(a, b) /\ u = Run(b, c) /\ v = Run(a, c) OBVIOUS
<1>2. a <= c OBVIOUS
<1>3. s \in Seq(Nat) /\ Len(s) = b - a /\ \A i \in 1..(b - a) : s[i] = a + i
  BY <1>1, RunType
<1>4. u \in Seq(Nat) /\ Len(u) = c - b /\ \A i \in 1..(c - b) : u[i] = b + i
  BY <1>1, RunType
<1>5. v \in Seq(Nat) /\ Len(v) = c - a /\ \A i \in 1..(c - a) : v[i] = a + i
  BY <1>1, <1>2, RunType
<1>6. /\ s \o u \in Seq(Nat) /\ Len(s \o u) = Len(s) + Len(u)
      /\ \A i \in 1..(Len(s) + Len(u)) : (s \o u)[i] = IF i <= Len(s) THEN s[i] ELSE u[i - Len(s)]
  BY <1>3, <1>4, ConcatProperties
<1>7. Len(s \o u) = Len(v) BY <1>3, <1>4, <1>5, <1>6
<1>8. ASSUME NEW i \in 1..Len(s \o u) PROVE (s \o u)[i] = v[i]
  <2>1. i \in 1..(c - a) BY <1>3, <1>4, <1>6
  <2>2. v[i] = a + i BY <1>5, <2>1
  <2>3. CASE i <= b - a
    <3>1. i \in 1..(b - a) BY <2>1, <2>3
    <3> QED BY <1>3, <1>4, <1>6, <2>1, <2>2, <2>3, <3>1
  <2>4. CASE ~ (i <= b - a)
    <3>1. PICK j \in 1..(c - b) : j = i - (b - a) BY <2>1, <2>4
    <3>2. (s \o u)[i] = u[j] BY <1>3, <1>4, <1>6, <2>1, <2>4, <3>1
    <3>3. u[j] = b + j BY <1>4
    <3> QED BY <2>1, <2>2, <3>1, <3>2, <3>3
  <2> QED BY <2>3, <2>4
<1> QED BY <1>1, <1>5, <1>6, <1>7, <1>8, SeqEqual

\* What detect_weight_groups compares.
SameRing(layers, i) == Ring(layers[i]) = Ring(layers[i - 1])

\* gs cuts the layers up to l into m runs, the k-th ending at E[k], exactly where
\* neighbours have different rings.
Cut(layers, gs, m, E, l) ==
  /\ gs \in Seq(Seq(Nat)) /\ Len(gs) = m
  /\ E \in [0..m -> 0..l] /\ E[0] = 0 /\ E[m] = l
  /\ \A k \in 1..m : E[k - 1] < E[k] /\ gs[k] = Run(E[k - 1], E[k])
  /\ \A k \in 1..m : \A i \in 1..l : E[k - 1] + 1 < i /\ i <= E[k] => SameRing(layers, i)
  /\ \A k \in 1..(m - 1) : ~ SameRing(layers, E[k] + 1)

\* So are the groups and the current one after l layers.
CutAfter(layers, acc, l) ==
  \E gr \in Seq(Seq(Nat)), c \in Seq(Nat), m \in Nat \ {0} : \E E :
    acc = [groups |-> gr, current |-> c] /\ Cut(layers, Append(gr, c), m, E, l)

\* detect_weight_groups starts with one run of one layer.
LEMMA CutFirst ==
  ASSUME NEW layers
  PROVE  CutAfter(layers, NextLayer(layers, [groups |-> <<>>, current |-> <<>>], 1), 1)
<1>1. PICK l \in Nat : l = 1 OBVIOUS
<1>2. PICK gr, c : gr = <<>> /\ c = <<l>> OBVIOUS
<1>3. NextLayer(layers, [groups |-> <<>>, current |-> <<>>], l) = [groups |-> gr, current |-> c]
  BY <1>1, <1>2 DEF NextLayer
<1>4. gr \in Seq(Seq(Nat)) /\ c \in Seq(Nat) /\ Len(gr) = 0 BY <1>2
<1>5. PICK gs : gs = Append(gr, c) OBVIOUS
<1>6. gs \in Seq(Seq(Nat)) /\ Len(gs) = l /\ gs[l] = c BY <1>1, <1>4, <1>5, AppendProperties
<1>7. PICK E : E = [k \in 0..l |-> k] OBVIOUS
<1>8. /\ E \in [0..l -> 0..l] /\ E[0] = 0 /\ E[l] = l /\ \A k \in 1..l : k = l /\ E[k - 1] = 0 /\ E[k] = l
  BY <1>1, <1>7
<1>9. c = Run(0, l)
  <2>0. PICK z \in Nat : z = 0 OBVIOUS
  <2>4. z <= l BY <2>0
  <2>5. Run(z, l) \in Seq(Nat) /\ Len(Run(z, l)) = l - z /\ \A i \in 1..(l - z) : Run(z, l)[i] = z + i
    BY <2>4, RunType
  <2>1. Run(0, l) \in Seq(Nat) /\ Len(Run(0, l)) = l - 0 /\ \A i \in 1..(l - 0) : Run(0, l)[i] = 0 + i
    BY <2>0, <2>5
  <2>2. c \in Seq(Nat) /\ Len(c) = l /\ c[1] = 1 BY <1>1, <1>2
  <2>3. Len(Run(0, l)) = Len(c) /\ \A i \in 1..Len(c) : c[i] = Run(0, l)[i] BY <1>1, <2>1, <2>2
  <2> QED BY <2>1, <2>2, <2>3, SeqEqual
<1>10. Cut(layers, gs, l, E, l) BY <1>1, <1>6, <1>8, <1>9 DEF Cut
<1>11. l \in Nat \ {0} BY <1>1
<1>12. CutAfter(layers, [groups |-> gr, current |-> c], l)
  BY <1>4, <1>5, <1>10, <1>11, Zenon DEF CutAfter
<1> QED BY <1>1, <1>3, <1>12

\* It makes the last run longer if the rings are equal, and starts one if not.
LEMMA CutNext ==
  ASSUME NEW layers, NEW acc, NEW l \in Nat \ {0}, CutAfter(layers, acc, l)
  PROVE  CutAfter(layers, NextLayer(layers, acc, l + 1), l + 1)
<1>1. PICK gr \in Seq(Seq(Nat)), c \in Seq(Nat), m \in Nat \ {0} :
        \E E : acc = [groups |-> gr, current |-> c] /\ Cut(layers, Append(gr, c), m, E, l)
  BY DEF CutAfter
<1>1a. PICK E : acc = [groups |-> gr, current |-> c] /\ Cut(layers, Append(gr, c), m, E, l)
  BY <1>1
<1>2. PICK gs : gs = Append(gr, c) OBVIOUS
<1>3. PICK h \in Nat : h = l + 1 OBVIOUS
<1>4. /\ gs \in Seq(Seq(Nat)) /\ Len(gs) = m
      /\ E \in [0..m -> 0..l] /\ E[0] = 0 /\ E[m] = l
      /\ \A k \in 1..m : E[k - 1] < E[k] /\ gs[k] = Run(E[k - 1], E[k])
      /\ \A k \in 1..m : \A i \in 1..l : E[k - 1] + 1 < i /\ i <= E[k] => SameRing(layers, i)
      /\ \A k \in 1..(m - 1) : ~ SameRing(layers, E[k] + 1)
  BY <1>1a, <1>2 DEF Cut
<1>5. /\ Len(gr) \in Nat /\ m = Len(gr) + 1 /\ gs[m] = c
      /\ \A k \in 1..(m - 1) : gs[k] = gr[k]
  <2>1. /\ Len(gs) = Len(gr) + 1 /\ gs[Len(gr) + 1] = c /\ Len(gr) \in Nat
        /\ \A k \in 1..Len(gr) : gs[k] = gr[k]
    BY <1>1, <1>2, AppendProperties, LenProperties
  <2>2. Len(gs) = m BY <1>4
  <2>3. m = Len(gr) + 1 /\ m - 1 = Len(gr) BY <2>1, <2>2
  <2>4. gs[m] = c BY <2>1, <2>3
  <2>5. 1..(m - 1) = 1..Len(gr) BY <2>3
  <2> QED BY <2>1, <2>3, <2>4, <2>5, Zenon
<1>6. PICK a \in 0..l : a = E[m - 1] /\ a < l /\ c = Run(a, l)
  <2>1. m \in 1..m /\ m - 1 \in 0..m OBVIOUS
  <2> QED BY <1>4, <1>5, <2>1
<1>7. h > 1 /\ h - 1 = l BY <1>3
<1>8. CASE SameRing(layers, h)
  <2>1. PICK d : d = Append(c, h) OBVIOUS
  <2>2. d \in Seq(Nat) BY <1>1, <2>1, AppendProperties
  <2>3. NextLayer(layers, acc, h) = [groups |-> gr, current |-> d]
    BY <1>1a, <1>7, <1>8, <2>1 DEF NextLayer, SameRing
  <2>4. d = Run(a, h)
    <3>1. a \in Nat /\ a <= l /\ a <= h BY <1>3, <1>6
    <3>2. c \in Seq(Nat) /\ Len(c) = l - a /\ \A i \in 1..(l - a) : c[i] = a + i BY <1>6, <3>1, RunType
    <3>3. PICK v : v = Run(a, h) OBVIOUS
    <3>4. v \in Seq(Nat) /\ Len(v) = h - a /\ \A i \in 1..(h - a) : v[i] = a + i BY <3>1, <3>3, RunType
    <3>5. Len(d) = Len(c) + 1 /\ d[Len(c) + 1] = h /\ \A i \in 1..Len(c) : d[i] = c[i]
      BY <2>1, <3>2, AppendProperties
    <3>6. Len(d) = Len(v) BY <1>3, <3>1, <3>2, <3>4, <3>5
    <3>7. ASSUME NEW i \in 1..Len(d) PROVE d[i] = v[i]
      <4>1. i \in 1..(h - a) BY <3>4, <3>6
      <4>2. CASE i = l - a + 1 BY <1>3, <3>1, <3>2, <3>4, <3>5, <4>1, <4>2
      <4>3. CASE i # l - a + 1
        <5>1. i \in 1..(l - a) BY <1>3, <3>1, <4>1, <4>3
        <5> QED BY <3>2, <3>4, <3>5, <4>1, <5>1
      <4> QED BY <4>2, <4>3
    <3> QED BY <2>2, <3>3, <3>4, <3>6, <3>7, SeqEqual
  <2>5. PICK hs : hs = Append(gr, d) OBVIOUS
  <2>6. /\ hs \in Seq(Seq(Nat)) /\ Len(hs) = m /\ hs[m] = d
        /\ \A k \in 1..(m - 1) : hs[k] = gs[k]
    <3>1. /\ hs \in Seq(Seq(Nat)) /\ Len(hs) = Len(gr) + 1 /\ hs[Len(gr) + 1] = d
          /\ \A k \in 1..Len(gr) : hs[k] = gr[k]
      BY <1>1, <2>2, <2>5, AppendProperties
    <3> QED BY <1>5, <3>1
  <2>7. PICK D : D = [k \in 0..m |-> IF k = m THEN h ELSE E[k]] OBVIOUS
  <2>8. D \in [0..m -> 0..h] /\ D[0] = 0 /\ D[m] = h /\ \A k \in 0..m : k # m => D[k] = E[k]
    BY <1>3, <1>4, <2>7
  <2>9. ASSUME NEW k \in 1..m PROVE D[k - 1] < D[k] /\ hs[k] = Run(D[k - 1], D[k])
    <3>1. k \in 0..m /\ k - 1 \in 0..m /\ k - 1 # m OBVIOUS
    <3>2. D[k - 1] = E[k - 1] BY <2>8, <3>1
    <3>3. CASE k = m BY <1>3, <1>6, <2>4, <2>6, <2>8, <3>2, <3>3
    <3>4. CASE k # m
      <4>1. k \in 1..(m - 1) /\ D[k] = E[k] BY <2>8, <3>1, <3>4
      <4> QED BY <1>4, <2>6, <3>2, <4>1
    <3> QED BY <3>3, <3>4
  <2>10. ASSUME NEW k \in 1..m, NEW i \in 1..h, D[k - 1] + 1 < i, i <= D[k]
         PROVE  SameRing(layers, i)
    <3>1. k \in 0..m /\ k - 1 \in 0..m /\ k - 1 # m OBVIOUS
    <3>2. D[k - 1] = E[k - 1] BY <2>8, <3>1
    <3>3. CASE i = h BY <1>8, <3>3
    <3>4. CASE i # h
      <4>1. i \in 1..l BY <1>3, <3>4
      <4>2. i <= E[k]
        <5>1. CASE k = m BY <1>4, <4>1, <5>1
        <5>2. CASE k # m BY <2>8, <2>10, <3>1, <5>2
        <5> QED BY <5>1, <5>2
      <4>3. E[k - 1] + 1 < i BY <2>10, <3>2
      <4> QED BY <1>4, <4>1, <4>2, <4>3
    <3> QED BY <3>3, <3>4
  <2>11. ASSUME NEW k \in 1..(m - 1) PROVE ~ SameRing(layers, D[k] + 1)
    <3>1. k \in 0..m /\ k # m OBVIOUS
    <3> QED BY <1>4, <2>8, <3>1
  <2>12. Cut(layers, hs, m, D, h) BY <2>6, <2>8, <2>9, <2>10, <2>11 DEF Cut
  <2> QED BY <1>1, <1>3, <2>2, <2>3, <2>5, <2>12 DEF CutAfter
<1>9. CASE ~ SameRing(layers, h)
  <2>1. c # <<>>
    <3>1. a \in Nat /\ a <= l BY <1>6
    <3>2. Len(c) = l - a BY <1>6, <3>1, RunType
    <3> QED BY <1>6, <3>1, <3>2
  <2>2. PICK d : d = <<h>> OBVIOUS
  <2>3. NextLayer(layers, acc, h) = [groups |-> gs, current |-> d]
    BY <1>1a, <1>2, <1>7, <1>9, <2>1, <2>2 DEF NextLayer, SameRing
  <2>4. d \in Seq(Nat) /\ Len(d) = 1 /\ d[1] = h BY <2>2
  <2>5. d = Run(l, h)
    <3>1. l <= h /\ h - l = 1 BY <1>3
    <3>2. Run(l, h) \in Seq(Nat) /\ Len(Run(l, h)) = h - l /\ \A i \in 1..(h - l) : Run(l, h)[i] = l + i
      BY <3>1, RunType
    <3>3. Len(Run(l, h)) = Len(d) /\ \A i \in 1..Len(d) : d[i] = Run(l, h)[i] BY <1>3, <2>4, <3>1, <3>2
    <3> QED BY <2>4, <3>2, <3>3, SeqEqual
  <2>6. PICK p \in Nat \ {0} : p = m + 1 OBVIOUS
  <2>7. PICK hs : hs = Append(gs, d) OBVIOUS
  <2>8. /\ hs \in Seq(Seq(Nat)) /\ Len(hs) = p /\ hs[p] = d
        /\ \A k \in 1..m : hs[k] = gs[k]
    BY <1>4, <2>4, <2>6, <2>7, AppendProperties
  <2>9. PICK D : D = [k \in 0..p |-> IF k = p THEN h ELSE E[k]] OBVIOUS
  <2>10. D \in [0..p -> 0..h] /\ D[0] = 0 /\ D[p] = h /\ \A k \in 0..m : D[k] = E[k]
    BY <1>3, <1>4, <2>6, <2>9
  <2>11. ASSUME NEW k \in 1..p PROVE D[k - 1] < D[k] /\ hs[k] = Run(D[k - 1], D[k])
    <3>1. CASE k = p
      <4>1. k - 1 = m /\ D[k - 1] = l BY <1>4, <2>6, <2>10, <3>1
      <4> QED BY <1>3, <2>5, <2>8, <2>10, <3>1, <4>1
    <3>2. CASE k # p
      <4>1. k \in 1..m /\ k - 1 \in 0..m /\ k \in 0..m BY <2>6, <3>2
      <4> QED BY <1>4, <2>8, <2>10, <4>1
    <3> QED BY <3>1, <3>2
  <2>12. ASSUME NEW k \in 1..p, NEW i \in 1..h, D[k - 1] + 1 < i, i <= D[k]
         PROVE  SameRing(layers, i)
    <3>1. CASE k = p
      <4>1. k - 1 = m /\ D[k - 1] = l BY <1>4, <2>6, <2>10, <3>1
      <4> QED BY <1>3, <2>12, <4>1
    <3>2. CASE k # p
      <4>1. k \in 1..m /\ k - 1 \in 0..m /\ k \in 0..m BY <2>6, <3>2
      <4>2. D[k - 1] = E[k - 1] /\ D[k] = E[k] /\ E[k] \in 0..l BY <1>4, <2>10, <4>1
      <4>3. i \in 1..l BY <2>12, <4>2
      <4> QED BY <1>4, <2>12, <4>1, <4>2, <4>3
    <3> QED BY <3>1, <3>2
  <2>13. ASSUME NEW k \in 1..(p - 1) PROVE ~ SameRing(layers, D[k] + 1)
    <3>1. k \in 1..m /\ k \in 0..m /\ D[k] = E[k] BY <2>6, <2>10
    <3>2. CASE k = m BY <1>3, <1>4, <1>9, <3>1, <3>2
    <3>3. CASE k # m
      <4>1. k \in 1..(m - 1) BY <3>1, <3>3
      <4> QED BY <1>4, <3>1, <4>1
    <3> QED BY <3>2, <3>3
  <2>14. Cut(layers, hs, p, D, h) BY <2>8, <2>10, <2>11, <2>12, <2>13 DEF Cut
  <2> QED BY <1>3, <1>4, <2>3, <2>4, <2>7, <2>14 DEF CutAfter
<1> QED BY <1>3, <1>8, <1>9

\* As MatchesIsChosen, of detect_weight_groups.
LEMMA GroupsIsChosen ==
  ASSUME NEW s, NEW n \in Nat, DOMAIN s = 1..n, NEW base, NEW p
  PROVE  FoldLeft(LAMBDA acc, l : NextLayer(p, acc, l), base, s) = (CHOOSE f : FoldOn("groups", p, base, f, s, n))[1..n]
<1> DEFINE Fold(g) == g = [t \in SUBSET (1..n) |-> IF t = {} THEN base
                                     ELSE NextLayer(p, g[t \ {Max(t)}], s[Max(t)])]
<1>1. FoldLeft(LAMBDA acc, l : NextLayer(p, acc, l), base, s) = (CHOOSE g : Fold(g))[1..n]
  BY DEF FoldLeft, MapThenFoldSet
<1>2. \A acc, x : Folded("groups", p, acc, x) = NextLayer(p, acc, x) BY DEF Folded
<1>3. \A g : FoldOn("groups", p, base, g, s, n) <=> Fold(g) BY <1>2 DEF FoldOn
<1> HIDE DEF Fold
<1>4. (CHOOSE f : FoldOn("groups", p, base, f, s, n)) = (CHOOSE g : Fold(g))
  BY <1>3, Zenon
<1> QED BY <1>1, <1>4

\* So it has cut all the layers where it ends.
LEMMA GroupsCut ==
  ASSUME NEW layers, NEW n \in Nat \ {0}, DOMAIN layers = 1..n
  PROVE  CutAfter(layers, Grouped(layers), n)
<1>1. PICK s : s = [l \in DOMAIN layers |-> l] OBVIOUS
<1>2. PICK base : base = [groups |-> <<>>, current |-> <<>>] OBVIOUS
<1>3. PICK g : g = (CHOOSE f : FoldOn("groups", layers, base, f, s, n)) OBVIOUS
<1>4. n \in Nat OBVIOUS
<1>5. Grouped(layers) = g[1..n]
  <2>1. DOMAIN s = 1..n BY <1>1
  <2>2. FoldLeft(LAMBDA acc, l : NextLayer(layers, acc, l), base, s)
          = (CHOOSE f : FoldOn("groups", layers, base, f, s, n))[1..n]
    BY <1>4, <2>1, GroupsIsChosen
  <2>3. Grouped(layers) = FoldLeft(LAMBDA acc, l : NextLayer(layers, acc, l), base, s)
    BY <1>1, <1>2 DEF Grouped
  <2> QED BY <1>3, <2>2, <2>3
<1>6. FoldOn("groups", layers, base, g, s, n) BY <1>3, <1>4, FoldExists, Zenon
<1>7. PICK P : FoldSteps(P, "groups", layers, base, s, n) /\ P[n] = g[1..n] BY <1>6, FoldPrefixes
<1>8. \A acc, x : Folded("groups", layers, acc, x) = NextLayer(layers, acc, x) BY DEF Folded
<1>9. P[0] = base /\ \A i \in 1..n : P[i] = NextLayer(layers, P[i - 1], i)
  <2>1. P[0] = base /\ \A i \in 1..n : P[i] = NextLayer(layers, P[i - 1], s[i])
    BY <1>7, <1>8, Zenon DEF FoldSteps
  <2>2. \A i \in 1..n : s[i] = i BY <1>1
  <2> QED BY <2>1, <2>2
<1> DEFINE T == {k \in 1..n : ~ CutAfter(layers, P[k], k)}
<1>10. ASSUME T # {} PROVE FALSE
  <2>1. T \subseteq Nat OBVIOUS
  <2>2. PICK k \in T : \A j \in T : k <= j BY <1>10, <2>1, LeastNumber
  <2>3. k # 1
    <3>1. 1 \in 1..n /\ 1 - 1 = 0 OBVIOUS
    <3>2. P[1] = NextLayer(layers, [groups |-> <<>>, current |-> <<>>], 1) BY <1>2, <1>9, <3>1
    <3>3. CutAfter(layers, P[1], 1) BY <3>2, CutFirst
    <3> QED BY <2>2, <3>3
  <2>4. PICK j \in 1..n : k = j + 1 /\ k - 1 = j /\ j < k
    <3>1. k \in 1..n BY <2>2
    <3> QED BY <2>3, <3>1
  <2>5. CutAfter(layers, P[j], j)
    <3>1. j \notin T BY <2>2, <2>4
    <3> QED BY <3>1
  <2>6. P[k] = NextLayer(layers, P[j], j + 1) BY <1>9, <2>2, <2>4
  <2>7. j \in Nat \ {0} OBVIOUS
  <2>8. CutAfter(layers, NextLayer(layers, P[j], j + 1), j + 1) BY <2>5, <2>7, CutNext
  <2> QED BY <2>2, <2>4, <2>6, <2>8
<1>11. n \in 1..n OBVIOUS
<1>12. CutAfter(layers, P[n], n) BY <1>10, <1>11
<1> QED BY <1>5, <1>7, <1>12

\* The runs joined are all the layers.
LEMMA RunsAreAll ==
  ASSUME NEW layers, NEW gs, NEW m \in Nat \ {0}, NEW E, NEW n \in Nat, Cut(layers, gs, m, E, n)
  PROVE  FlattenSeq(gs) = Run(0, n)
<1>1. /\ gs \in Seq(Seq(Nat)) /\ Len(gs) = m
      /\ E \in [0..m -> 0..n] /\ E[0] = 0 /\ E[m] = n
      /\ \A k \in 1..m : E[k - 1] < E[k] /\ gs[k] = Run(E[k - 1], E[k])
  BY DEF Cut
<1>2. \A k \in 1..m : gs[k] \in Seq(Nat) BY <1>1, ElementOfSeq
<1>3. m \in Nat OBVIOUS
<1>4. PICK F : Flat(F, gs, m) BY <1>3, FlatExists
<1>5. PICK z \in Nat : z = 0 OBVIOUS
<1> DEFINE T == {k \in 0..m : F[k] # Run(z, E[k])}
<1>6. ASSUME T # {} PROVE FALSE
  <2>1. T \subseteq Nat OBVIOUS
  <2>2. PICK k \in T : \A j \in T : k <= j BY <1>6, <2>1, LeastNumber
  <2>3. k # 0
    <3>1. z <= z /\ z - z = 0 OBVIOUS
    <3>2. Run(z, z) \in Seq(Nat) /\ Len(Run(z, z)) = 0 BY <3>1, RunType
    <3>3. Run(z, z) = <<>> BY <3>2, EmptySeq
    <3>4. F[0] = <<>> BY <1>4 DEF Flat
    <3> QED BY <1>1, <1>5, <2>2, <3>3, <3>4
  <2>4. PICK j \in 0..m : j = k - 1 /\ k \in 1..m /\ j < k BY <2>2, <2>3
  <2>5. F[j] = Run(z, E[j])
    <3>1. j \notin T BY <2>2, <2>4
    <3> QED BY <3>1
  <2>6. F[k] = F[j] \o gs[k] BY <1>4, <2>4 DEF Flat
  <2>7. E[j] < E[k] /\ gs[k] = Run(E[j], E[k]) BY <1>1, <2>4
  <2>8. PICK a \in Nat, b \in Nat : a = E[j] /\ b = E[k] BY <1>1, <2>4
  <2>9. z <= a /\ a <= b BY <1>5, <2>7, <2>8
  <2>10. Run(z, a) \o Run(a, b) = Run(z, b) BY <2>9, RunsJoin
  <2> QED BY <2>2, <2>5, <2>6, <2>7, <2>8, <2>10
<1>7. F[m] = Run(0, n)
  <2>1. m \in 0..m /\ m \notin T BY <1>6
  <2> QED BY <1>1, <1>5, <2>1
<1>8. AllSeqs(Nat, m, gs) BY <1>2 DEF AllSeqs
<1>9. m \in 0..m /\ m # 0 OBVIOUS
<1>10. Begins(gs, gs, m) BY <1>1, <1>9 DEF Begins
<1>11. FlattensTo(gs, F, m) BY <1>3, <1>4, <1>8, <1>9, <1>10, FlattenIs, Zenon
<1> QED BY <1>7, <1>11 DEF FlattensTo

\* Where a tensor starts, told by those before it.
LEMMA OffsetSteps ==
  ASSUME NEW layer \in [TensorNames -> Seq(Nat)]
  PROVE  /\ Offset(layer, 1) = 0
         /\ \A t \in 1..6 : Offset(layer, t + 1) = Offset(layer, t) + Len(layer[t])
         /\ \A t \in TensorNames : Offset(layer, t) \in Nat
<1>1. PICK n \in Nat : n = 7 OBVIOUS
<1>2. PICK F : Flat(F, layer, n) BY FlatExists
<1>3. PICK L : L = Len(F[n]) OBVIOUS
<1>4. PICK N : N = RoundUp(L, RingPadding) OBVIOUS
<1>5. \A i \in 1..n : Offset(layer, i) = Len(F[i - 1])
  <2>1. RingFacts(layer, F, n, L, N) BY <1>1, <1>2, <1>3, <1>4, RingOf, Zenon
  <2> QED BY <2>1 DEF RingFacts
<1>6. \A i \in 1..n : layer[i] \in Seq(Nat) BY <1>1 DEF TensorNames
<1>7. AllSeqs(Nat, n, layer) BY <1>6 DEF AllSeqs
<1>8. ASSUME NEW i \in 1..n
      PROVE  Len(F[i]) = Len(F[i - 1]) + Len(layer[i]) /\ Len(F[i - 1]) \in Nat
  <2>1. n \in i..n OBVIOUS
  <2>2. HoldsAt(F, layer, i, n) BY <1>2, <1>7, <2>1, FlatHolds, Zenon
  <2> QED BY <2>2 DEF HoldsAt
<1>9. Offset(layer, 1) = 0
  <2>1. 1 \in 1..n /\ 1 - 1 = 0 BY <1>1
  <2>2. F[0] = <<>> BY <1>2 DEF Flat
  <2>3. Offset(layer, 1) = Len(F[0]) BY <1>5, <2>1
  <2> QED BY <2>2, <2>3
<1>10. ASSUME NEW t \in 1..6 PROVE Offset(layer, t + 1) = Offset(layer, t) + Len(layer[t])
  <2>1. PICK k \in 1..n : k = t + 1 /\ k - 1 = t BY <1>1
  <2>2. Offset(layer, k) = Len(F[k - 1]) BY <1>5
  <2>3. t \in 1..n BY <1>1
  <2>4. Offset(layer, t) = Len(F[t - 1]) BY <1>5, <2>3
  <2>5. Len(F[t]) = Len(F[t - 1]) + Len(layer[t]) BY <1>8, <2>3
  <2> QED BY <2>1, <2>2, <2>4, <2>5
<1>11. \A t \in TensorNames : Offset(layer, t) \in Nat
  <2>1. TensorNames = 1..n BY <1>1 DEF TensorNames
  <2> QED BY <1>5, <1>8, <2>1
<1> QED BY <1>9, <1>10, <1>11

\* Layers of the same sizes with equal rings are equal.
LEMMA RingDetermines ==
  ASSUME NEW a \in [TensorNames -> Seq(Nat)], NEW b \in [TensorNames -> Seq(Nat)],
         \A t \in TensorNames : Len(a[t]) = Len(b[t]), Ring(a) = Ring(b)
  PROVE  a = b
<1>1. \A t \in TensorNames : Offset(a, t) = Offset(b, t)
  <2> DEFINE T == {t \in TensorNames : Offset(a, t) # Offset(b, t)}
  <2> SUFFICES ASSUME T # {} PROVE FALSE OBVIOUS
  <2>1. T \subseteq Nat BY DEF TensorNames
  <2>2. PICK k \in T : \A j \in T : k <= j BY <2>1, LeastNumber
  <2>3. k # 1
    <3>1. Offset(a, 1) = 0 /\ Offset(b, 1) = 0 BY OffsetSteps
    <3> QED BY <2>2, <3>1
  <2>4. PICK j \in 1..6 : k = j + 1 /\ j \in TensorNames /\ j < k
    <3>1. k \in 1..7 BY <2>2 DEF TensorNames
    <3>2. k - 1 \in 1..6 /\ k = (k - 1) + 1 /\ k - 1 \in 1..7 /\ k - 1 < k BY <2>3, <3>1
    <3> QED BY <3>2 DEF TensorNames
  <2>5. j \notin T BY <2>2, <2>4
  <2>6. Offset(a, j) = Offset(b, j) /\ Len(a[j]) = Len(b[j]) BY <2>4, <2>5
  <2>7. Offset(a, j + 1) = Offset(a, j) + Len(a[j]) BY OffsetSteps
  <2>8. Offset(b, j + 1) = Offset(b, j) + Len(b[j]) BY OffsetSteps
  <2> QED BY <2>2, <2>4, <2>6, <2>7, <2>8
<1>2. ASSUME NEW t \in TensorNames PROVE a[t] = b[t]
  <2>1. Offset(a, t) = Offset(b, t) BY <1>1
  <2>2. t < 7 => Offset(a, t + 1) = Offset(b, t + 1)
    <3> SUFFICES ASSUME t < 7 PROVE Offset(a, t + 1) = Offset(b, t + 1) OBVIOUS
    <3>1. t + 1 \in TensorNames BY DEF TensorNames
    <3> QED BY <1>1, <3>1
  <2>3. Slice(a, t) = Slice(b, t) BY <2>1, <2>2 DEF Slice
  <2>4. SubSeq(Slice(a, t), 1, Len(a[t])) = a[t] BY SliceIsTensor
  <2>5. SubSeq(Slice(b, t), 1, Len(b[t])) = b[t] BY SliceIsTensor
  <2>6. Len(a[t]) = Len(b[t]) OBVIOUS
  <2> QED BY <2>3, <2>4, <2>5, <2>6
<1> QED BY <1>2

SameRings(layers, n, lo, hi) == \A i \in 1..n : lo + 1 < i /\ i <= hi => SameRing(layers, i)

\* In a run the layers are equal.
LEMMA RunIsEqual ==
  ASSUME NEW f, Opened(f), RingsTellSizes(f), NEW n \in Nat, n = Len(f.layers),
         NEW lo \in Nat, NEW hi \in 0..n,
         SameRings(f.layers, n, lo, hi),
         NEW i \in 1..n, lo < i, i <= hi
  PROVE  f.layers[i] = f.layers[lo + 1]
<1>1. f.layers \in Seq([TensorNames -> Seq(Nat)]) BY DEF Opened
<1>2. DOMAIN f.layers = 1..n BY <1>1, LenProperties
<1>3. \A l \in 1..n : f.layers[l] \in [TensorNames -> Seq(Nat)] BY <1>1, ElementOfSeq
<1> DEFINE T == {k \in 1..n : lo < k /\ k <= hi /\ f.layers[k] # f.layers[lo + 1]}
<1>4. ASSUME T # {} PROVE FALSE
  <2>1. T \subseteq Nat OBVIOUS
  <2>2. PICK k \in T : \A j \in T : k <= j BY <1>4, <2>1, LeastNumber
  <2>3. k \in 1..n /\ lo < k /\ k <= hi /\ k # lo + 1 BY <2>2
  <2>4. PICK j \in 1..n : j = k - 1 /\ lo < j /\ j <= hi /\ j < k BY <2>3
  <2>5. f.layers[j] = f.layers[lo + 1]
    <3>1. j \notin T BY <2>2, <2>4
    <3> QED BY <2>4, <3>1
  <2>6. lo + 1 < k BY <2>3
  <2>7. Ring(f.layers[k]) = Ring(f.layers[j]) BY <2>3, <2>4, <2>6 DEF SameRing, SameRings
  <2>8. \A t \in TensorNames : Len(f.layers[k][t]) = Len(f.layers[j][t])
    BY <1>2, <2>3, <2>7 DEF RingsTellSizes
  <2>9. f.layers[k] = f.layers[j] BY <1>3, <2>3, <2>7, <2>8, RingDetermines
  <2> QED BY <2>2, <2>5, <2>9
<1>5. i \notin T BY <1>4
<1> QED BY <1>5

\* The k-th run is of the layers after lo up to hi.
RunAt(gs, E, n, k, lo, hi) ==
  /\ lo \in Nat /\ hi \in 0..n /\ lo = E[k - 1] /\ hi = E[k] /\ lo < hi
  /\ Len(gs[k]) = hi - lo /\ DOMAIN gs[k] = 1..(hi - lo) /\ gs[k] \in Seq(Nat)
  /\ \A i \in 1..(hi - lo) : gs[k][i] = lo + i

\* The groups are the layers in order, cut where neighbours differ.
LEMMA GroupsPartition == Opened(model) /\ RingsTellSizes(model) => GroupsPartitionLayers
<1> SUFFICES ASSUME Opened(model), RingsTellSizes(model) PROVE GroupsPartitionLayers OBVIOUS
<1>1. PICK layers : layers = model.layers OBVIOUS
<1>2. layers \in Seq([TensorNames -> Seq(Nat)]) BY <1>1 DEF Opened
<1>3. PICK n \in Nat : n = Len(layers) BY <1>2, LenProperties
<1>4. DOMAIN layers = 1..n BY <1>2, <1>3, LenProperties
<1>5. \A l \in 1..n : layers[l] \in [TensorNames -> Seq(Nat)] BY <1>2, <1>3, ElementOfSeq
<1>6. PICK gs : gs = WeightGroups(layers) OBVIOUS
<1> SUFFICES /\ FlattenSeq(gs) = [l \in DOMAIN layers |-> l]
             /\ \A g \in DOMAIN gs : \A i, j \in DOMAIN gs[g] :
                   layers[gs[g][i]] = layers[gs[g][j]]
             /\ \A g \in 1 .. Len(gs) - 1 :
                   layers[Last(gs[g])] /= layers[gs[g + 1][1]]
  BY <1>1, <1>6 DEF GroupsPartitionLayers
<1>7. CASE n = 0
  <2>1. layers = <<>> BY <1>2, <1>3, <1>7, EmptySeq
  <2>2. gs = <<>> BY <1>6, <2>1 DEF WeightGroups
  <2>3. FlattenSeq(gs) = <<>> BY <2>2 DEF FlattenSeq
  <2> QED BY <2>1, <2>2, <2>3
<1>8. CASE n # 0
  <2>1. layers # <<>> BY <1>3, <1>8
  <2>2. n \in Nat \ {0} BY <1>8
  <2>3. CutAfter(layers, Grouped(layers), n) BY <1>4, <2>2, GroupsCut
  <2>4. PICK gr \in Seq(Seq(Nat)), c \in Seq(Nat), m \in Nat \ {0} :
          \E E : Grouped(layers) = [groups |-> gr, current |-> c] /\ Cut(layers, Append(gr, c), m, E, n)
    BY <2>3 DEF CutAfter
  <2>5. gs = Append(gr, c) BY <1>6, <2>1, <2>4 DEF WeightGroups
  <2>6. PICK E : Cut(layers, gs, m, E, n) BY <2>4, <2>5
  <2>7. /\ gs \in Seq(Seq(Nat)) /\ Len(gs) = m
        /\ E \in [0..m -> 0..n] /\ E[0] = 0 /\ E[m] = n
        /\ \A k \in 1..m : E[k - 1] < E[k] /\ gs[k] = Run(E[k - 1], E[k])
        /\ \A k \in 1..m : \A i \in 1..n : E[k - 1] + 1 < i /\ i <= E[k] => SameRing(layers, i)
        /\ \A k \in 1..(m - 1) : ~ SameRing(layers, E[k] + 1)
    BY <2>6 DEF Cut
  <2>8. FlattenSeq(gs) = [l \in DOMAIN layers |-> l]
    <3>1. FlattenSeq(gs) = Run(0, n) BY <2>6, RunsAreAll
    <3>2. Run(0, n) = [l \in 1..n |-> l] BY DEF Run
    <3> QED BY <1>4, <3>1, <3>2
  <2>9. ASSUME NEW k \in 1..m
        PROVE  \E lo, hi : RunAt(gs, E, n, k, lo, hi)
    <3>1. k \in 0..m /\ k - 1 \in 0..m OBVIOUS
    <3>5. E[k - 1] \in 0..n /\ E[k] \in 0..n BY <2>7, <3>1
    <3>6. E[k - 1] \in Nat BY <3>5
    <3>2. PICK lo \in Nat, hi \in 0..n : lo = E[k - 1] /\ hi = E[k] BY <3>5, <3>6, Zenon
    <3>3. lo <= hi /\ lo < hi /\ hi \in Nat /\ gs[k] = Run(lo, hi) BY <2>7, <3>2
    <3>4. /\ Run(lo, hi) \in Seq(Nat) /\ Len(Run(lo, hi)) = hi - lo /\ DOMAIN Run(lo, hi) = 1..(hi - lo)
          /\ \A i \in 1..(hi - lo) : Run(lo, hi)[i] = lo + i
      BY <3>3, RunType
    <3>7. RunAt(gs, E, n, k, lo, hi) BY <3>2, <3>3, <3>4 DEF RunAt
    <3> QED BY <3>7
  <2>10. DOMAIN gs = 1..m BY <2>7, LenProperties
  <2>11. ASSUME NEW k \in DOMAIN gs, NEW i \in DOMAIN gs[k], NEW j \in DOMAIN gs[k]
         PROVE  layers[gs[k][i]] = layers[gs[k][j]]
    <3>0. k \in 1..m BY <2>10
    <3>4. PICK lo, hi : RunAt(gs, E, n, k, lo, hi) BY <2>9, <3>0
    <3>1. /\ lo \in Nat /\ hi \in 0..n
          /\ lo = E[k - 1] /\ hi = E[k] /\ DOMAIN gs[k] = 1..(hi - lo)
          /\ \A x \in 1..(hi - lo) : gs[k][x] = lo + x
      BY <3>4 DEF RunAt
    <3>2. \A x \in 1..n : lo + 1 < x /\ x <= hi => SameRing(layers, x) BY <2>7, <3>0, <3>1
    <3>3. ASSUME NEW x \in DOMAIN gs[k] PROVE layers[gs[k][x]] = layers[lo + 1]
      <4>0. x \in 1..(hi - lo) BY <3>1
      <4>9. lo \in Nat /\ hi \in 0..n BY <3>1
      <4>1. PICK y \in 1..n : y = lo + x /\ lo < y /\ y <= hi BY <4>0, <4>9
      <4>2. gs[k][x] = y BY <3>1, <4>0, <4>1
      <4>4. n \in Nat /\ n = Len(model.layers) BY <1>1, <1>3
      <4>5. SameRings(model.layers, n, lo, hi) BY <1>1, <3>2 DEF SameRings
      <4>6. lo < y /\ y <= hi /\ y \in 1..n BY <4>1
      <4>7. model.layers[y] = model.layers[lo + 1] BY <4>4, <4>5, <4>6, <4>9, RunIsEqual
      <4>3. layers[y] = layers[lo + 1] BY <1>1, <4>7
      <4> QED BY <4>2, <4>3
    <3> QED BY <3>3
  <2>12. ASSUME NEW k \in 1 .. Len(gs) - 1 PROVE layers[Last(gs[k])] /= layers[gs[k + 1][1]]
    <3>1. PICK h \in 1..m : h = k + 1 /\ h - 1 = k /\ k \in 1..m /\ k \in 1..(m - 1) BY <2>7
    <3>10. PICK lo, hi : RunAt(gs, E, n, k, lo, hi) BY <2>9, <3>1
    <3>2. /\ lo \in Nat /\ hi \in 0..n
          /\ lo = E[k - 1] /\ hi = E[k] /\ lo < hi
          /\ Len(gs[k]) = hi - lo /\ gs[k] \in Seq(Nat)
          /\ \A x \in 1..(hi - lo) : gs[k][x] = lo + x
      BY <3>10 DEF RunAt
    <3>11. PICK a, b : RunAt(gs, E, n, h, a, b) BY <2>9, <3>1
    <3>3. /\ a \in Nat /\ b \in 0..n
          /\ a = E[h - 1] /\ b = E[h] /\ a < b
          /\ \A x \in 1..(b - a) : gs[h][x] = a + x
      BY <3>11 DEF RunAt
    <3>4. a = hi BY <3>1, <3>2, <3>3
    <3>5. Last(gs[k]) = hi
      <4>3. lo \in Nat /\ hi \in 0..n /\ lo < hi BY <3>2
      <4>1. hi - lo \in 1..(hi - lo) /\ lo + (hi - lo) = hi BY <4>3
      <4>2. Last(gs[k]) = gs[k][hi - lo] BY <3>2 DEF Last
      <4> QED BY <3>2, <4>1, <4>2
    <3>6. gs[h][1] = hi + 1
      <4>1. 1 \in 1..(b - a) BY <3>3
      <4> QED BY <3>3, <3>4, <4>1
    <3>7. ~ SameRing(layers, hi + 1) BY <2>7, <3>1, <3>2
    <3>8. hi \in Nat BY <3>2
    <3>12. PICK y \in Nat : y = hi + 1 /\ y - 1 = hi BY <3>8
    <3>9. Ring(layers[hi + 1]) # Ring(layers[hi])
      <4>1. ~ SameRing(layers, y) BY <3>7, <3>12
      <4> QED BY <3>12, <4>1 DEF SameRing
    <3> QED BY <3>1, <3>5, <3>6, <3>9
  <2> QED BY <2>8, <2>11, <2>12
<1> QED BY <1>7, <1>8

\* Of every file that opens with no offset that wraps, the bytes handed out for a tensor lie inside it and behind
\* the header, the slices of a layer's ring are its tensors, the groups cut the layers
\* exactly where neighbours differ, the values of its own architecture are found, and
\* the experts share out its rows (mmap.rs, metadata.rs, model.rs, virtual_experts.rs).
THEOREM FileLoads ==
  Opened(model) /\ OffsetsFit(model) /\ RingsTellSizes(model) => ModelFileInv
BY TensorsInside, SlicesTile, GroupsPartition, OwnKeysFound, ExpertsShare DEF ModelFileInv

-----------------------------------------------------------------------------
(* Blocks of weights, and the scalar kernels that read them                *)

\* nbytes_for rounds up to whole blocks, so a row has its last block whole.
LEMMA BlocksCovered ==
  ASSUME NEW f \in Formats, NEW n \in Nat PROVE Covers(f, n)
<1> SUFFICES ASSUME n > 0
             PROVE  BlockBase(f, (n - 1) \div BlockElems(f)) + TypeSize(f) <= NBytesFor(f, n)
  BY DEF Covers
<1>1. PICK b \in {32, 256} : b = BlockElems(f) BY DEF BlockElems
<1>2. PICK t \in Nat : t = TypeSize(f) BY DEF TypeSize, Formats
<1>3. PICK q \in Nat, r \in 0..(b - 1) : q = (n - 1) \div b /\ n - 1 = b * q + r
  <2>1. b \in Nat \ {0} /\ n - 1 \in Nat BY <1>1
  <2> QED BY <2>1, DivMod
<1>4. (n + b - 1) \div b = q + 1
  <2>1. CASE b = 32 BY <1>3, <2>1
  <2>2. CASE b = 256 BY <1>3, <2>2
  <2> QED BY <1>1, <2>1, <2>2
<1>5. PICK x \in Nat : x = q * t BY <1>2, <1>3
<1>6. (q + 1) * t = x + t BY <1>2, <1>3, <1>5
<1>7. NBytesFor(f, n) = x + t BY <1>1, <1>2, <1>4, <1>6 DEF NBytesFor
<1>8. BlockBase(f, (n - 1) \div BlockElems(f)) = x BY <1>1, <1>2, <1>3, <1>5 DEF BlockBase
<1> QED BY <1>2, <1>5, <1>7, <1>8

\* The scalar Q4_K kernels walk a row by pairs of sub-blocks and read what
\* dequant_scalar reads.
LEMMA PairsAgree == \A i \in 0..255 : Q4Pairs(i) = dequant_q4k(i)
<1> SUFFICES ASSUME NEW i \in 0..255 PROVE Q4Pairs(i) = dequant_q4k(i) OBVIOUS
<1>1. PICK sb \in 0..7 : sb = i \div 32 OBVIOUS
<1>2. PICK pair \in 0..3 : pair = i \div 64 OBVIOUS
<1>3. PICK odd \in 0..1 : odd = (i % 64) \div 32 OBVIOUS
<1>4. sb = 2 * pair + odd BY <1>1, <1>2, <1>3
<1>5. sb \div 2 = pair /\ sb % 2 = odd BY <1>4
<1>6. Q4Pairs(i) = Reads(Bits(16 + 32 * pair + (i % 32), 4 * odd, 4), Q4Scale(sb), Q4Min(sb))
  BY <1>2, <1>3, <1>4 DEF Q4Pairs
<1>7. dequant_q4k(i) = Reads(Bits(16 + 32 * pair + (i % 32), 4 * odd, 4), Q4Scale(sb), Q4Min(sb))
  BY <1>1, <1>5 DEF dequant_q4k
<1> QED BY <1>6, <1>7

\* The scalar Q6_K kernel reads four quanta for each l, those of dequant_q6k.
LEMMA LanesAgree == \A i \in 0..255 : Q6Lanes(i) = dequant_q6k(i)
<1> SUFFICES ASSUME NEW i \in 0..255 PROVE Q6Lanes(i) = dequant_q6k(i) OBVIOUS
<1>1. PICK n \in 0..1 : n = i \div 128 OBVIOUS
<1>2. PICK r \in 0..3 : r = (i % 128) \div 32 OBVIOUS
<1>3. PICK l \in 0..31 : l = i % 32 OBVIOUS
<1>4. PICK a \in Nat : a = 64 * n + l + 32 * (r % 2) OBVIOUS
<1>5. PICK s \in Nat : s = 4 * (r \div 2) OBVIOUS
<1>6. a = 64 * n + l + (IF r \in {1, 3} THEN 32 ELSE 0) BY <1>4
<1>7. s = IF r \in {2, 3} THEN 4 ELSE 0 BY <1>5
<1>8. Q6Lanes(i) = Reads(Bits(a, s, 4) \cup Bits(128 + 32 * n + l, 2 * r, 2),
                         Bits(192 + 8 * n + (l \div 16) + 2 * r, 0, 8), {})
  BY <1>1, <1>2, <1>3, <1>6, <1>7 DEF Q6Lanes
<1>9. dequant_q6k(i) = Reads(Bits(a, s, 4) \cup Bits(128 + 32 * n + l, 2 * r, 2),
                             Bits(192 + 8 * n + (l \div 16) + 2 * r, 0, 8), {})
  BY <1>1, <1>2, <1>3, <1>4, <1>5 DEF dequant_q6k
<1> QED BY <1>8, <1>9

\* The bytes reserved for any number of elements hold the whole block of each, and
\* every scalar kernel pairs with an element the bits the dequantizer reads for it.
THEOREM BlocksRead ==
  /\ \A f \in Formats : \A n \in Nat : Covers(f, n)
  /\ \A k \in ScalarKernels : Agrees(k)
<1>1. \A f \in Formats : \A n \in Nat : Covers(f, n) BY BlocksCovered
<1>2. ASSUME NEW k \in ScalarKernels, NEW i \in Elements(FormatOf(k))
      PROVE  Fused(k, i) = Dequantized(FormatOf(k), i)
  <2>1. i \in 0..255 BY DEF Elements, BlockElems, FormatOf, ScalarKernels
  <2>2. CASE k = "q6k_scalar"
    <3>1. FormatOf(k) = "Q6_K" BY <2>2 DEF FormatOf
    <3>2. Fused(k, i) = Q6Lanes(i) BY <2>2 DEF Fused, fused_gemv_q6k_scalar
    <3>3. Dequantized("Q6_K", i) = dequant_q6k(i) BY DEF Dequantized
    <3> QED BY <2>1, <3>1, <3>2, <3>3, LanesAgree
  <2>3. CASE k # "q6k_scalar"
    <3>1. FormatOf(k) = "Q4_K" BY <2>3 DEF FormatOf, ScalarKernels
    <3>2. Fused(k, i) = Q4Pairs(i)
      BY <2>3 DEF Fused, ScalarKernels, fused_gemv_q4k_scalar, fused_gemv_q4k_multi, batched_scalar
    <3>3. Dequantized("Q4_K", i) = dequant_q4k(i) BY DEF Dequantized
    <3> QED BY <2>1, <3>1, <3>2, <3>3, PairsAgree
  <2> QED BY <2>2, <2>3
<1> QED BY <1>1, <1>2 DEF Agrees
=============================================================================
