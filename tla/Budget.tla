------------------------------- MODULE Budget -------------------------------
(***************************************************************************)
(* What AimdRamp (swamp-engine/src/aimd.rs) promises its users: the budget *)
(* moves by a halving or a doubling at a time and stays within its bounds. *)
(* It is kept in eighths: 0.125 is 1, 16.0 is 128.                         *)
(***************************************************************************)
EXTENDS Integers, FiniteSetsExt

VARIABLE budget8    \* AimdRamp.budget * 8

MinBudget == 1
MaxBudget == 128

BudgetInit == budget8 = 8

\* Mutant: the budget is cut below the minimum
Halved_unbounded(b) == b \div 2

\* assess_inner, stressed
Halved(b) == Max({b \div 2, MinBudget})

\* Mutant: the last doubling is left out
Doubled_below(b) == IF 2 * b >= MaxBudget THEN b ELSE 2 * b

\* assess_inner, not stressed
Doubled(b) == Min({b * 2, MaxBudget})

BudgetMoves == budget8' \in {Halved(budget8), budget8, Doubled(budget8)}

\* The budget starts at 1.0 and every step of its users leaves it, halves it or
\* doubles it: what the sessions of the governor are checked against.
BudgetSpec == BudgetInit /\ [][BudgetMoves]_budget8
=============================================================================
