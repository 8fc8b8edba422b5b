--------------------------- MODULE BudgetWriteOwner ---------------------------
(***************************************************************************)
(* What the workflow store promises about ledger writes, whoever carries   *)
(* them: a budget has at most one owner; a write is dispatched at most     *)
(* once and only by the owner; and ownership ends in a recorded success,   *)
(* or in a release that proves nothing was dispatched. A dispatched write  *)
(* without a recorded success keeps its budget.                            *)
(***************************************************************************)
CONSTANTS
    Writes,
    BudgetOfW   \* the budget of each write

VARIABLE phase

Phases == {"none", "owned", "dispatched", "succeeded", "released"}

Owns(w) == phase[w] \in {"owned", "dispatched"}

Init == phase = [w \in Writes |-> "none"]

Acquire(w) ==
    /\ phase[w] = "none"
    /\ \A v \in Writes \ {w} : BudgetOfW[v] = BudgetOfW[w] => ~Owns(v)
    /\ phase' = [phase EXCEPT ![w] = "owned"]

Dispatch(w) ==
    /\ phase[w] = "owned"
    /\ phase' = [phase EXCEPT ![w] = "dispatched"]

Succeed(w) ==
    /\ phase[w] = "dispatched"
    /\ phase' = [phase EXCEPT ![w] = "succeeded"]

\* One reconciliation may release several budgets.
Release(W) ==
    /\ W # {} /\ \A w \in W : phase[w] = "owned"
    /\ phase' = [w \in Writes |-> IF w \in W THEN "released" ELSE phase[w]]

Next ==
    \/ \E w \in Writes : Acquire(w) \/ Dispatch(w) \/ Succeed(w)
    \/ \E W \in SUBSET Writes : Release(W)

Spec == Init /\ [][Next]_phase

\* One owner per budget: the promise the fence of the store is about.
OneOwner ==
    /\ phase \in [Writes -> Phases]
    /\ \A v, w \in Writes : v # w /\ BudgetOfW[v] = BudgetOfW[w] => ~(Owns(v) /\ Owns(w))
==============================================================================
