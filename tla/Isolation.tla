----------------------------- MODULE Isolation -----------------------------
(***************************************************************************)
(* isolate-failures.ts: a batch has failed as a whole, and the rows at      *)
(* fault are searched for by delivering halves of it, breadth first.  A     *)
(* delivery (database-sink.service.ts) writes its rows to every target not  *)
(* yet holding them, one transaction per target.                            *)
(*                                                                          *)
(* A row may be refused by a target for ever (`bad'); a target may also     *)
(* fail for a moment, `blips' more times.                                   *)
(***************************************************************************)
EXTENDS Naturals, Sequences, FiniteSets

CONSTANTS
  MaxRows,                \* batches of 1 .. MaxRows rows are considered
  Targets,                \* the destination's targets
  MaxBad,                 \* refusals (row, target) considered
  Blips,                  \* momentary failures considered, besides the batch's own
  MaxAttempts,            \* IsolationOptions.maxAttempts
  MaxPoisoned,            \* IsolationOptions.maxPoisoned
  FailuresBeforeSystemic  \* IsolationOptions.failuresBeforeSystemic

ASSUME IsolationAssumption ==
  /\ MaxRows \in Nat \ {0} /\ Targets # {} /\ IsFiniteSet(Targets)
  /\ MaxBad \in Nat /\ Blips \in Nat
  /\ MaxAttempts \in Nat /\ MaxPoisoned \in Nat /\ FailuresBeforeSystemic \in Nat

VARIABLES
  n, bad, blips,        \* the batch 1 .. n; refusals; momentary failures left
  queue,                \* the segments still to be tried
  delivered, poisoned,  \* the result: rows; [row, targets]
  attempts, successes,
  verdict,              \* "searching", "done" or "systemic"
  written, again        \* history: pairs (row, target) committed; committed twice

fault == <<n, bad>>
vars == <<fault, blips, queue, delivered, poisoned, attempts, successes, verdict,
          written, again>>

Rows == 1 .. MaxRows
Segment == [lo : Rows, hi : Rows, skip : SUBSET Targets, sibling : SUBSET Rows,
            knownBad : BOOLEAN]

(* The type of every variable; a segment is never empty. *)
TypeOK ==
  /\ n \in Rows /\ bad \subseteq Rows \X Targets /\ blips \in 0 .. Blips
  /\ queue \in Seq(Segment) /\ \A i \in DOMAIN queue : queue[i].lo <= queue[i].hi
  /\ delivered \subseteq Rows
  /\ poisoned \subseteq [row : Rows, targets : SUBSET Targets]
  /\ attempts \in Nat /\ successes \in 0 .. attempts
  /\ verdict \in {"searching", "done", "systemic"}
  /\ written \subseteq Rows \X Targets /\ again \subseteq written

-----------------------------------------------------------------------------
RowsOf(s) == s.lo .. s.hi
(* the targets that refuse some of these rows *)
Refusing(rows) == {t \in Targets : \E r \in rows : <<r, t>> \in bad}
SetAside == {p.row : p \in poisoned}

(* Slip: the second half begins one row too late. *)
SplitGap(lo, hi, skip) ==
  LET mid == lo + (hi - lo) \div 2
      half(a, b, c, d) == [lo |-> a, hi |-> b, skip |-> skip, sibling |-> c .. d,
                           knownBad |-> FALSE]
  IN <<half(lo, mid, mid + 2, hi), half(mid + 2, hi, lo, mid)>>
(* split(): two halves, the first of them the larger, each knowing the other *)
Split(lo, hi, skip) ==
  LET mid == lo + (hi - lo) \div 2
      half(a, b, c, d) == [lo |-> a, hi |-> b, skip |-> skip, sibling |-> c .. d,
                           knownBad |-> FALSE]
  IN <<half(lo, mid, mid + 1, hi), half(mid + 1, hi, lo, mid)>>

(* The batch of n rows has been delivered and has failed at the targets F. *)
Init ==
  /\ n \in Rows
  /\ bad \in {B \in SUBSET ((1 .. n) \X Targets) : Cardinality(B) <= MaxBad}
  /\ blips = Blips
  /\ \E F \in (SUBSET Targets) \ {{}} :
       /\ Refusing(1 .. n) \subseteq F
       /\ written = (1 .. n) \X (Targets \ F)
       /\ queue = IF n = 1 THEN <<>> ELSE Split(1, n, Targets \ F)
       /\ poisoned = IF n = 1 THEN {[row |-> 1, targets |-> Targets \ F]} ELSE {}
  /\ delivered = {} /\ again = {}
  /\ attempts = 0 /\ successes = 0 /\ verdict = "searching"

-----------------------------------------------------------------------------
searching == verdict = "searching" /\ queue # <<>>
segment == Head(queue)
(* known to hold the failure, and more than one row: not worth an attempt *)
CanSkipAttempt == segment.knownBad /\ segment.lo < segment.hi

SplitKnownBad ==
  /\ searching /\ CanSkipAttempt
  /\ queue' = Tail(queue) \o Split(segment.lo, segment.hi, segment.skip)
  /\ UNCHANGED <<fault, blips, delivered, poisoned, attempts, successes, verdict,
                 written, again>>

GiveUp ==
  /\ searching /\ ~CanSkipAttempt
  /\ attempts >= MaxAttempts
  /\ verdict' = "systemic"
  /\ UNCHANGED <<fault, blips, queue, delivered, poisoned, attempts, successes,
                 written, again>>

(* One delivery of the segment, which fails at the targets F. *)
Delivery(F) ==
  LET open == Targets \ segment.skip
      commits == RowsOf(segment) \X (open \ F) IN
  /\ searching /\ ~CanSkipAttempt
  /\ attempts < MaxAttempts /\ attempts' = attempts + 1
  /\ F \subseteq open
  /\ IF F = Refusing(RowsOf(segment)) \cap open
       THEN UNCHANGED blips
       ELSE /\ Refusing(RowsOf(segment)) \cap open \subseteq F
            /\ blips > 0 /\ blips' = blips - 1
  /\ written' = written \cup commits
  /\ again' = again \cup (commits \cap written)

(* Slip: the sibling is known bad also when it is a row of its own. *)
AttemptOkConvicts ==
  /\ Delivery({})
  /\ successes' = successes + 1
  /\ LET known == {i \in DOMAIN Tail(queue) : RowsOf(Tail(queue)[i]) = segment.sibling}
         alone == {i \in known : Tail(queue)[i].lo = Tail(queue)[i].hi} IN
       /\ delivered' = delivered \cup RowsOf(segment)
       /\ poisoned' = poisoned \cup
            {[row |-> Tail(queue)[i].lo, targets |-> Tail(queue)[i].skip] : i \in alone}
       /\ queue' = IF alone # {} THEN Tail(Tail(queue))
                   ELSE [i \in DOMAIN Tail(queue) |->
                          [Tail(queue)[i] EXCEPT !.knownBad = @ \/ i \in known]]
  /\ UNCHANGED <<fault, verdict>>

(* It succeeds: if the other half is still to be tried, it is at fault. *)
AttemptOk ==
  /\ Delivery({})
  /\ successes' = successes + 1
  /\ delivered' = delivered \cup RowsOf(segment)
  /\ queue' = [i \in DOMAIN Tail(queue) |->
                [Tail(queue)[i] EXCEPT
                   !.knownBad = @ \/ RowsOf(Tail(queue)[i]) = segment.sibling]]
  /\ UNCHANGED <<fault, poisoned, verdict>>

(* Slip: what the attempt committed is not remembered. *)
SkipAfterForgets(F) == segment.skip
(* the targets that hold the segment's rows after an attempt failing at F *)
SkipAfter(F) == segment.skip \cup ((Targets \ segment.skip) \ F)

(* Slip: the halves are tried before what is waiting: depth first. *)
AttemptFailsDepthFirst ==
  \E F \in (SUBSET Targets) \ {{}} :
    /\ Delivery(F)
    /\ LET tooLong == successes = 0 /\ attempts + 1 >= FailuresBeforeSystemic
           single == segment.lo = segment.hi
           row == [row |-> segment.lo, targets |-> SkipAfter(F)] IN
         /\ poisoned' = IF ~tooLong /\ single THEN poisoned \cup {row} ELSE poisoned
         /\ queue' = IF tooLong \/ single THEN Tail(queue)
                     ELSE Split(segment.lo, segment.hi, SkipAfter(F)) \o Tail(queue)
         /\ verdict' = IF tooLong \/ Cardinality(poisoned') > MaxPoisoned
                         THEN "systemic" ELSE verdict
    /\ UNCHANGED <<fault, delivered, successes>>

(* It fails: a single row is set aside, a larger segment is split, unless  *)
(* nothing has succeeded for too long or too many rows have been set aside.*)
AttemptFails ==
  \E F \in (SUBSET Targets) \ {{}} :
    /\ Delivery(F)
    /\ LET tooLong == successes = 0 /\ attempts + 1 >= FailuresBeforeSystemic
           single == segment.lo = segment.hi
           row == [row |-> segment.lo, targets |-> SkipAfter(F)] IN
         /\ poisoned' = IF ~tooLong /\ single THEN poisoned \cup {row} ELSE poisoned
         /\ queue' = IF tooLong \/ single THEN Tail(queue)
                     ELSE Tail(queue) \o Split(segment.lo, segment.hi, SkipAfter(F))
         /\ verdict' = IF tooLong \/ Cardinality(poisoned') > MaxPoisoned
                         THEN "systemic" ELSE verdict
    /\ UNCHANGED <<fault, delivered, successes>>

Return ==
  /\ verdict = "searching" /\ queue = <<>>
  /\ verdict' = "done"
  /\ UNCHANGED <<fault, blips, queue, delivered, poisoned, attempts, successes,
                 written, again>>

Next == SplitKnownBad \/ GiveUp \/ AttemptOk \/ AttemptFails \/ Return

(* Every delivery answers. *)
Spec == Init /\ [][Next]_vars

-----------------------------------------------------------------------------
(* Properties *)

Waiting == UNION {RowsOf(queue[i]) : i \in DOMAIN queue}

(* No row falls between the halves or is in both: while the search goes on, *)
(* and when it is done, each row of the batch is in exactly one segment,    *)
(* delivered or set aside (split, isolateFailures).                         *)
EachRowOnce ==
  verdict # "systemic" =>
    /\ delivered \cup SetAside \cup Waiting = 1 .. n
    /\ delivered \cap (SetAside \cup Waiting) = {} /\ SetAside \cap Waiting = {}
    /\ \A i, j \in DOMAIN queue : i # j => RowsOf(queue[i]) \cap RowsOf(queue[j]) = {}

(* What is remembered about a row is what the targets hold: a segment's     *)
(* skip set, and a set-aside row's succeededTargets, name exactly the       *)
(* targets holding it, a delivered row is at all of them, and no target     *)
(* has committed a row twice (alreadySucceeded, skip, succeededTargets).    *)
HeldExactly ==
  LET held(r) == {t \in Targets : <<r, t>> \in written} IN
  /\ again = {}
  /\ verdict # "systemic" =>
      /\ \A i \in DOMAIN queue : \A r \in RowsOf(queue[i]) : held(r) = queue[i].skip
      /\ \A p \in poisoned : held(p.row) = p.targets
      /\ \A r \in delivered : held(r) = Targets

(* A row is set aside only if a target refuses it, or a momentary failure   *)
(* hit it on its own: one row for each such failure, also when its sibling  *)
(* was clean (`must fail on its own before it is set aside').               *)
InnocentSpared ==
  n > 1 => Cardinality({r \in SetAside : Refusing({r}) = {}}) <= Blips - blips

(* A single refused row is found, in two attempts for every halving, and is *)
(* never taken for a systemic failure (failuresBeforeSystemic).             *)
OneBadRowFound ==
  Cardinality({r \in 1 .. n : Refusing({r}) # {}}) = 1 /\ blips = Blips =>
    /\ verdict # "systemic"
    /\ \A k \in 0 .. MaxRows : n <= 2 ^ k => attempts <= 2 * k

=============================================================================
