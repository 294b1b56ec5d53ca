----------------------------- MODULE BudgetClasses -----------------------------
(***************************************************************************)
(* The four budget classes and their order, shared by the budget           *)
(* controller, the escalation handler and the gateway.                     *)
(***************************************************************************)
EXTENDS Naturals

Classes == {"low", "medium", "high", "critical"}

\* The position of a class in _BUDGET_CLASS_ORDER.
Rank == [low |-> 0, medium |-> 1, high |-> 2, critical |-> 3]

ClassAt(i) == CHOOSE c \in Classes : Rank[c] = i

\* The class the escalation handler moves to; "critical" has none.
NextClass(c) == ClassAt(Rank[c] + 1)

\* downgrade_one: "low" stays "low".
DowngradeOne(c) == IF c = "low" THEN c ELSE ClassAt(Rank[c] - 1)
===============================================================================
