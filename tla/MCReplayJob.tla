---------------------------- MODULE MCReplayJob ----------------------------
(* Small instances of ReplayJob for TLC. *)
EXTENDS ReplayJob
Once(S) == [k \in Kinds |-> IF k \in S THEN 1 ELSE 0]
BudgetAll == [Once(Kinds) EXCEPT !["start"] = 2, !["edit"] = 0]
BudgetResize == [Once({"edit", "fault"}) EXCEPT !["start"] = 2]
=============================================================================
