-------------------------------- MODULE Gemv --------------------------------
(***************************************************************************)
(* The matrix-vector products of swamp-engine/src/linear.rs.  A driver     *)
(* splits the rows of its matrices between the threads of a rayon pool;    *)
(* every thread writes its rows of the output through a raw pointer, so    *)
(* nothing but the arithmetic of the row ranges keeps them apart.          *)
(*                                                                         *)
(* An output entry is abstracted to the set of the calls whose product is  *)
(* in it: storing the product of call c makes it {c}, adding to what is    *)
(* there adds c.  The output buffers of the executor live as long as a     *)
(* generation, so a call finds the entries of the call before it.          *)
(***************************************************************************)
EXTENDS Naturals, FiniteSets, FiniteSetsExt

CONSTANTS
    Drivers,      \* forward_{linear, linear_multi, linear_batch, gemvs, gemvs_ring}, fallback_gemv
    Isas,         \* what is_x86_feature_detected! finds: scalar, avx2, vnni
    DTypes,       \* Q4_K, Q6_K, and dense for every type that is dequantized
    Heights,      \* the numbers of rows a matrix may have
    ThreadCounts, \* n_threads
    MaxCalls      \* bound on the number of calls

\* The drivers are those named above, a height counts rows and n_threads threads.
ASSUME GemvAssumption ==
    /\ Drivers \subseteq {"linear", "multi", "batch", "gemvs", "ring", "fallback"}
    /\ DTypes \subseteq {"Q4_K", "Q6_K", "dense"}
    /\ Heights \subseteq Nat
    /\ ThreadCounts \subseteq Nat \ {0}
    /\ MaxCalls \in Nat

VARIABLES
    call,         \* the number of the running call
    job,          \* its driver, instruction set, matrices and number of threads
    out,          \* out[m][r]: the products summed up in row r of output m
    pending,      \* pending[t]: the rows <<m, r>> that thread t has still to write
    faulted       \* a thread computed a negative row count

gemvVars == <<call, job, out, pending, faulted>>

\* forward_linear has one matrix and one output; two are enough for the others.
Matrices(j) == IF j.driver = "linear" THEN {1} ELSE 1..2
Rows(j, m) == 0 .. j.rows[m] - 1
Outputs(j) == [m \in Matrices(j) |-> [r \in Rows(j, m) |-> {}]]

\* rpt: the rows of one thread, the number of threads dividing up.
RowsPerThread_floor(rows, n) == rows \div n
RowsPerThread(rows, n) == (rows + n - 1) \div n

\* forward_gemvs and forward_gemvs_ring split the tallest matrix and clamp the
\* ranges of the others; the rest split each matrix on its own.
Splits(j, m) == IF j.driver \in {"gemvs", "ring"} THEN Max({j.rows[k] : k \in Matrices(j)})
                                                 ELSE j.rows[m]

\* rs and re of thread t for matrix m.
First(j, t, m) == t * RowsPerThread(Splits(j, m), j.threads)
End_unclamped(j, t, m) == First(j, t, m) + RowsPerThread(Splits(j, m), j.threads)
End(j, t, m) == Min({First(j, t, m) + RowsPerThread(Splits(j, m), j.threads), j.rows[m]})

\* if rs >= re { return; } is missing in the branch that multiplies dequantized rows:
\* re - rs is computed of unsigned numbers, and what comes of it is undefined.
Faults(j, t) ==
    /\ j.dtype = "dense" /\ j.driver # "fallback"
    /\ \E m \in Matrices(j) : First(j, t, m) > End(j, t, m)

\* fallback_gemv gives every thread whole items of the batch, not rows.
Items(j, t) ==
    LET each == (Cardinality(Matrices(j)) + j.threads - 1) \div j.threads
    IN  {m \in Matrices(j) : t * each < m /\ m <= (t + 1) * each}
\* What the kernel is called for in thread t.
Share(j, t) ==
    IF j.driver = "fallback"
    THEN UNION {{<<m, r>> : r \in Rows(j, m)} : m \in Items(j, t)}
    ELSE UNION {{<<m, r>> : r \in First(j, t, m) .. End(j, t, m) - 1} :
                m \in {k \in Matrices(j) : First(j, t, k) < End(j, t, k)}}

\* outputs[m].fill(0.0), which forward_linear and forward_gemvs_ring leave out.
Zeroes(j) == j.driver \in {"multi", "batch", "gemvs"}

\* out[row] += ..: fused_gemv_q4k_vnni, and batched_avx2 and batched_scalar.
Adds(j) == j.dtype = "Q4_K" /\ (j.isa = "vnni" \/ j.driver = "batch")
\* batched_vnni zeroes the rows it is given before it adds to them.
KernelZeroes(j) == j.driver = "batch" /\ j.isa = "vnni"

\* fallback_gemv takes whatever is not Q6_K for blocks of Q4_K.
Misreads(j) == j.driver = "fallback" /\ j.dtype = "dense"

Jobs == [driver : Drivers, isa : Isas, dtype : DTypes, rows : [1..2 -> Heights],
         threads : ThreadCounts]
\* forward_gemvs and the ring know Q4_K and Q6_K only.  forward_linear_batch has one
\* tensor for all its outputs and leaves all but Q4_K to fallback_gemv.
Possible(j) ==
    /\ j.driver \in {"gemvs", "ring"} => j.dtype /= "dense"
    /\ j.driver = "batch" => j.dtype = "Q4_K"
    /\ j.driver = "fallback" => j.dtype /= "Q4_K"
    /\ j.driver \in {"batch", "fallback"} => j.rows[1] = j.rows[2]

GemvInit ==
    /\ job \in {j \in Jobs : Possible(j)}
    /\ call = 0
    /\ out = Outputs(job)
    /\ pending = [t \in 0 .. job.threads - 1 |-> {}]
    /\ faulted = FALSE

Idle == \A t \in DOMAIN pending : pending[t] = {}

\* A driver is called on the buffers of the call before.
Call ==
    /\ Idle /\ ~faulted /\ call < MaxCalls
    /\ call' = call + 1
    /\ out' = IF Zeroes(job) THEN Outputs(job) ELSE out
    /\ pending' = [t \in DOMAIN pending |-> Share(job, t)]
    /\ faulted' = \E t \in DOMAIN pending : Faults(job, t)
    /\ UNCHANGED job

\* One thread computes one of its rows.
ComputeRow(t) ==
    \E mr \in pending[t] :
        LET m == mr[1]  r == mr[2]
            before == IF Adds(job) /\ ~KernelZeroes(job) THEN out[m][r] ELSE {}
        IN  /\ pending' = [pending EXCEPT ![t] = @ \ {mr}]
            /\ out' = IF r \in Rows(job, m)
                      THEN [out EXCEPT ![m][r] = before \cup (IF Misreads(job) THEN {} ELSE {call})]
                      ELSE out
            /\ faulted' = (faulted \/ r \notin Rows(job, m))
            /\ UNCHANGED <<call, job>>

GemvNext == Call \/ \E t \in DOMAIN pending : ComputeRow(t)

KernelSpec == GemvInit /\ [][GemvNext]_gemvVars

-----------------------------------------------------------------------------
\* So many rows that no thread starts behind its end.
EnoughRows(j) == \A m \in Matrices(j) : j.rows[m] >= (j.threads - 1) * (j.threads - 1)

\* No two threads of a call ever write the same row, though each of them may hold a
\* pointer to all of them (the branch for sensitive rows does), and none writes outside
\* the output, unless a dense matrix has few rows for the number of threads.
ThreadsDisjoint ==
    /\ faulted => job.dtype = "dense" /\ ~EnoughRows(job)
    /\ ~faulted => \A t, u \in DOMAIN pending : t /= u => pending[t] \cap pending[u] = {}

\* When a call returns, every row of every output holds the product of that call
\* and nothing of an earlier one, unless a thread computed a negative row count, the
\* kernel adds and nobody zeroed the buffer (forward_linear and forward_gemvs_ring with
\* AVX-512 VNNI), or the blocks were taken for others (a dense matrix in fallback_gemv).
Exact(j) == ~Misreads(j) /\ ~(Adds(j) /\ j.driver \in {"linear", "ring"})
RowsComputed ==
    (Idle /\ call > 0 /\ ~faulted /\ Exact(job)) =>
        \A m \in Matrices(job) : \A r \in Rows(job, m) : out[m][r] = {call}

\* A product is split over the threads without overlap or gap.
GemvInv == ThreadsDisjoint /\ RowsComputed

\* What the comment of fused_gemv_q4k says of every call: out[i] is the sum over j
\* of W[i,j] * x[j].
OutputIsProduct ==
    (Idle /\ call > 0) => \A m \in Matrices(job) : \A r \in Rows(job, m) : out[m][r] = {call}
=============================================================================
