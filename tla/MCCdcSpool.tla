----------------------------- MODULE MCCdcSpool -----------------------------
(* Small instances of CdcSpool for TLC: short logs and fault budgets. *)
EXTENDS CdcSpool

Row(k, o) == [kind |-> "row", key |-> k, op |-> o]
Event(e)  == [kind |-> e, key |-> "a", op |-> IF e = "skip" THEN "none" ELSE e]

MCKeys == {"a", "b"}
(* the same key again, under another operation or behind a commit; a        *)
(* truncate and a notice                                                    *)
LogKeys == <<Row("a", "upsert"), Row("b", "upsert"), Row("a", "delete")>>
LogCommit == <<Row("a", "upsert"), Event("skip"), Row("a", "upsert")>>
LogEvents == <<Row("a", "upsert"), Event("truncate"), Event("notice")>>
LogPlain == <<Row("a", "upsert"), Row("b", "upsert"), Row("a", "upsert"), Row("b", "upsert")>>

SafetyLogs == {LogKeys, LogCommit, LogEvents}
PlainLogs == {LogPlain}

(* n failures in all, at most one of each of these kinds *)
Once(S, n) == [f \in FaultKinds |-> IF f = "any" THEN n ELSE IF f \in S THEN 1 ELSE 0]
BudgetSafety == [Once(FaultKinds, 3) EXCEPT !["spool"] = 2]
BudgetCrash == [Once({"crash", "dest"}, 3) EXCEPT !["dest"] = 2]
BudgetFull == Once({"dest"}, 1)
=============================================================================
