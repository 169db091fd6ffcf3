----------------------------- MODULE VirtualNpu -----------------------------
(***************************************************************************)
(* The adaptive thread count of a group of matrix products                 *)
(* (VirtualNpuScheduler, swamp-engine/src/vnpu.rs), shared by threads that *)
(* time their products.  Every atomic access is a step of its own.  The    *)
(* average is kept in units of 1/8 row time, as fine as its weight of 1/8. *)
(***************************************************************************)
EXTENDS Naturals, SequencesExt

CONSTANTS Recorders,  \* the threads
          Samples,    \* time per row of a product
          NRows, BudgetNs,
          MinThreads, MaxThreads, StartThreads, \* 1, 6, 4
          MaxRecords  \* bound on the products timed between two resets

\* new starts inside the range of the threads; times and rows are unsigned.
ASSUME NpuAssumption ==
    /\ Samples \subseteq Nat /\ NRows \in Nat /\ BudgetNs \in Nat
    /\ MinThreads \in Nat /\ MaxThreads \in Nat /\ StartThreads \in MinThreads..MaxThreads

VARIABLES ewma,       \* ewma_ns_per_row_q32, 0 when there is none
          suggested,  \* suggested_threads
          at,         \* at[r]: the step of thread r in record, and what it has read
          resetting,  \* reset is between its two stores
          folded      \* ghost: the samples that were averaged since the last reset

npuVars == <<ewma, suggested, at, resetting, folded>>

NotRecording == [step |-> "idle"]

\* The first sample is the average, unless it is 0.
Averaged(old, sample) == IF old = 0 THEN 8 * sample ELSE sample + ((7 * old) \div 8)

\* The new suggestion.  expected_total = ewma * n_rows
Adjusted_past(avg, nt) ==
    CASE avg * NRows > 8 * BudgetNs -> nt + 1
      [] 2 * avg * NRows < 8 * BudgetNs /\ nt > MinThreads -> nt - 1
      [] OTHER -> nt
Adjusted(avg, nt) ==
    CASE avg * NRows > 8 * BudgetNs /\ nt < MaxThreads -> nt + 1
      [] 2 * avg * NRows < 8 * BudgetNs /\ nt > MinThreads -> nt - 1
      [] OTHER -> nt

NpuInit ==
    /\ ewma = 0 /\ suggested = StartThreads
    /\ at = [r \in Recorders |-> NotRecording]
    /\ resetting = FALSE /\ folded = <<>>

\* record, up to the load that begins its loop.
RecordLoad(r, sample) ==
    /\ at[r] = NotRecording /\ Len(folded) < MaxRecords
    /\ at' = [at EXCEPT ![r] = [step |-> "swap", sample |-> sample, old |-> ewma]]
    /\ UNCHANGED <<ewma, suggested, resetting, folded>>

\* compare_exchange_weak finds the value it was given ...
Unchanged_assumed(r) == TRUE
Unchanged(r) == ewma = at[r].old
RecordSwap(r) ==
    /\ at[r].step = "swap" /\ Unchanged(r)
    /\ ewma' = Averaged(at[r].old, at[r].sample)
    /\ folded' = Append(folded, at[r].sample)
    /\ at' = [at EXCEPT ![r] = [step |-> "read"]]
    /\ UNCHANGED <<suggested, resetting>>
\* ... or another, or fails spuriously: the loop loads again.
RecordRetry(r) ==
    /\ at[r].step = "swap"
    /\ at' = [at EXCEPT ![r].old = ewma]
    /\ UNCHANGED <<ewma, suggested, resetting, folded>>

\* The two loads that follow, and the store.
RecordRead(r) ==
    /\ at[r].step = "read"
    /\ at' = [at EXCEPT ![r] = [step |-> "threads", avg |-> ewma]]
    /\ UNCHANGED <<ewma, suggested, resetting, folded>>
RecordThreads(r) ==
    /\ at[r].step = "threads"
    /\ at' = [at EXCEPT ![r] = [step |-> "store", nt |-> Adjusted(at[r].avg, suggested)]]
    /\ UNCHANGED <<ewma, suggested, resetting, folded>>
RecordStore(r) ==
    /\ at[r].step = "store"
    /\ suggested' = at[r].nt
    /\ at' = [at EXCEPT ![r] = NotRecording]
    /\ UNCHANGED <<ewma, resetting, folded>>

\* reset
ResetAverage ==
    /\ ~resetting
    /\ ewma' = 0 /\ folded' = <<>> /\ resetting' = TRUE
    /\ UNCHANGED <<suggested, at>>
ResetThreads ==
    /\ resetting
    /\ suggested' = StartThreads /\ resetting' = FALSE
    /\ UNCHANGED <<ewma, at, folded>>

NpuNext ==
    \/ \E r \in Recorders :
        \/ \E s \in Samples : RecordLoad(r, s)
        \/ RecordSwap(r) \/ RecordRetry(r)
        \/ RecordRead(r) \/ RecordThreads(r) \/ RecordStore(r)
    \/ ResetAverage \/ ResetThreads

NpuSpec == NpuInit /\ [][NpuNext]_npuVars

-----------------------------------------------------------------------------
\* However the threads interleave, the average is that of the samples swapped in since
\* the last reset, each of them once and in that order.  A product timed before a reset
\* and swapped in after it is one of them.
AverageIsFold == ewma = FoldLeft(Averaged, 0, folded)

\* However the loads and stores of two threads interleave, the suggestion stays in
\* the range that schedule() clamps to.
SuggestionInRange == suggested \in MinThreads..MaxThreads

\* What the recorders share: the average of all their samples and a usable suggestion.
NpuInv == AverageIsFold /\ SuggestionInRange
=============================================================================
