---------------------------- MODULE MCLifecycle ----------------------------
(* Small instances of Lifecycle for TLC. *)
EXTENDS Lifecycle
Times(n, S) == [k \in Kinds |-> IF k \in S THEN n ELSE 0]
BudgetAll == Times(1, Kinds)
BudgetStop == Times(1, {"start", "stop"})
=============================================================================
