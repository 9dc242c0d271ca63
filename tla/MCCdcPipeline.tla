--------------------------- MODULE MCCdcPipeline ---------------------------
(* Small instances of CdcPipeline for TLC: short logs and fault budgets. *)
EXTENDS CdcPipeline

Row(k, o)   == [kind |-> "row", key |-> k, op |-> o, drop |-> FALSE]
Filtered(k) == [kind |-> "row", key |-> k, op |-> "upsert", drop |-> TRUE]
Commit      == [kind |-> "skip", key |-> "a", op |-> "none", drop |-> FALSE]
Truncate(d) == [kind |-> "truncate", key |-> "a", op |-> "none", drop |-> d]
Notice      == [kind |-> "notice", key |-> "a", op |-> "none", drop |-> FALSE]

MCKeys == {"a", "b"}
(* the same key twice, and another, in one transaction *)
LogRepeat == <<Row("a", "upsert"), Row("b", "upsert"), Row("a", "upsert"), Commit>>
(* the second and third change are of one row *)
LogTwice == <<Row("a", "upsert"), Row("b", "upsert"), Row("b", "upsert"), Commit>>
(* events that are not rows, and rows that are passed over *)
LogMixed == <<Row("a", "upsert"), Filtered("b"), Truncate(FALSE), Row("b", "delete")>>
LogNotice == <<Row("a", "upsert"), Notice, Truncate(TRUE), Row("b", "upsert")>>
(* a transaction that publishes nothing, which the server may leave out *)
LogQuiet == <<Row("a", "upsert"), Commit, Commit, Row("a", "delete")>>

LogsRepeat == {LogRepeat}
LogsTwice == {LogTwice}
FewLogs == {LogRepeat, LogMixed, LogQuiet}
EventLogs == {LogNotice}

(* one failure of each of these kinds, none of the others *)
Once(S) == [f \in FaultKinds |-> IF f \in S THEN 1 ELSE 0]
BudgetContinue == [Once({"crash", "store", "dest"}) EXCEPT !["dest"] = 2]
BudgetAbort == Once({"connection", "dest", "source", "reply", "stop"})
BudgetStale == Once({"connection"})
=============================================================================
