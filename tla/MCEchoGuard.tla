---------------------------- MODULE MCEchoGuard ----------------------------
(* A small instance of EchoGuard for TLC: the topologies. *)
EXTENDS EchoGuard, TLC
CONSTANTS ta, tb, tc

From(s, d) == [src |-> s, dst |-> d]
TwoWay   == "ab" :> From(ta, {tb}) @@ "ba" :> From(tb, {ta})
Chain    == "ab" :> From(ta, {tb}) @@ "bc" :> From(tb, {tc})
Triangle == "ab" :> From(ta, {tb}) @@ "bc" :> From(tb, {tc}) @@ "ca" :> From(tc, {ta})
Fan      == "ab" :> From(ta, {tb}) @@ "ba" :> From(tb, {ta, tc})
Shared   == TwoWay @@ "bc" :> From(tb, {tc})
OneReader == {TwoWay, Chain, Triangle}

(* one disturbance; three edits of two tables, two in the larger ones *)
BudgetAll == [g \in OneReader |-> [k \in Kinds |-> IF k # "edit" THEN 1 ELSE IF g = TwoWay THEN 3 ELSE 2]]
=============================================================================
