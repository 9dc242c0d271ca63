----------------------------- MODULE MCRepairs -----------------------------
(* A small instance of Repairs for TLC. *)
EXTENDS Repairs, TLC

BudgetAll == [refuse |-> 2, retry |-> 1, verify |-> 1, discard |-> 1, cancel |-> 1, crash |-> 1, any |-> 3]
KeySymmetry == Permutations(Keys)
=============================================================================
