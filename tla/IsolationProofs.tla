-------------------------- MODULE IsolationProofs --------------------------
(***************************************************************************)
(* Proofs about Isolation, for batches of any size, any targets, refusals   *)
(* and limits: each row is in one place, what is remembered of a row is     *)
(* what the targets hold, rows nobody refuses are spared, and a lone row    *)
(* at fault is found within the attempts there are.                         *)
(*                                                                          *)
(* The queue is a sequence of intervals.  The lemmas of the first part say  *)
(* what taking its first segment away, or replacing it by its halves, does  *)
(* to the family of the segments' row sets; the second part applies them to *)
(* each action.                                                             *)
(***************************************************************************)
EXTENDS Isolation, SequenceTheorems, FiniteSetTheorems, TLAPS

(* The head of a sequence leaves it and two elements join its end, as when a
   segment is replaced by its halves. *)
LEMMA TailThenPair ==
  ASSUME NEW S, NEW q \in Seq(S), q # <<>>, NEW h \in Seq(S), Len(h) = 2
  PROVE  /\ Tail(q) \o h \in Seq(S) /\ Len(Tail(q) \o h) = Len(q) + 1
         /\ \A i \in 1 .. Len(q) - 1 : (Tail(q) \o h)[i] = q[i + 1]
         /\ (Tail(q) \o h)[Len(q)] = h[1] /\ (Tail(q) \o h)[Len(q) + 1] = h[2]
  <1>1. /\ Tail(q) \in Seq(S) /\ Len(Tail(q)) = Len(q) - 1 /\ Len(q) \in Nat \ {0}
        /\ \A i \in 1 .. Len(q) - 1 : Tail(q)[i] = q[i + 1]
    OBVIOUS
  <1>2. PICK t \in Seq(S) : t = Tail(q)
    BY <1>1
  <1>3. t \o h \in Seq(S)
    OBVIOUS
  <1>4. Len(t \o h) = Len(t) + Len(h)
    BY ConcatProperties, Zenon
  <1>5. \A i \in 1 .. Len(t) + Len(h) :
           (t \o h)[i] = IF i <= Len(t) THEN t[i] ELSE h[i - Len(t)]
    BY ConcatProperties, Zenon
  <1>6. PICK k \in Nat : k = Len(t)
    <2>1. Len(t) \in Nat
      BY LenProperties, Zenon
    <2> QED
      BY <2>1
  <1>7. PICK c : c = t \o h
    OBVIOUS
  <1>8. \A i \in 1 .. k + 2 : c[i] = IF i <= k THEN t[i] ELSE h[i - k]
    BY <1>5, <1>6, <1>7
  <1>9. c[k + 1] = h[1]
    BY <1>8
  <1>10. c[k + 2] = h[2]
    BY <1>8
  <1> QED
    BY <1>1, <1>2, <1>3, <1>4, <1>6, <1>7, <1>8, <1>9, <1>10

(* Families of sets: pairwise disjoint, and their union. *)
Disjoint(f, I) == \A i, j \in I : i # j => f[i] \cap f[j] = {}
Union(f, I) == UNION {f[i] : i \in I}

(* The first set of a disjoint family is taken out and returns at the end as
   two disjoint parts: the family stays disjoint and its union is the same. *)
LEMMA FamilyHalved ==
  ASSUME NEW L \in Nat \ {0}, NEW f, NEW g,
         \A i \in 1 .. L - 1 : g[i] = f[i + 1],
         g[L] \cup g[L + 1] = f[1], g[L] \cap g[L + 1] = {},
         Disjoint(f, 1 .. L)
  PROVE  Disjoint(g, 1 .. L + 1) /\ Union(g, 1 .. L + 1) = Union(f, 1 .. L)
  <1>0. \A i, j \in 1 .. L : i # j => f[i] \cap f[j] = {}
    BY DEF Disjoint
  <1>1. ASSUME NEW i \in 1 .. L + 1, NEW j \in 1 .. L + 1, i < j
        PROVE  g[i] \cap g[j] = {}
    <2>1. CASE j \in 1 .. L - 1
      BY <1>0, <1>1, <2>1
    <2>2. CASE i \in 1 .. L - 1 /\ j \in {L, L + 1}
      <3>1. i + 1 \in 1 .. L /\ i + 1 # 1 /\ g[i] = f[i + 1] /\ 1 \in 1 .. L
        BY <2>2
      <3>2. f[i + 1] \cap f[1] = {}
        BY <1>0, <3>1
      <3> QED
        BY <3>1, <3>2, <2>2
    <2>3. CASE i = L /\ j = L + 1
      BY <2>3
    <2>4. \/ j \in 1 .. L - 1
          \/ i \in 1 .. L - 1 /\ j \in {L, L + 1}
          \/ i = L /\ j = L + 1
      BY <1>1
    <2> QED
      BY <2>1, <2>2, <2>3, <2>4
  <1>2. ASSUME NEW i \in 1 .. L + 1, NEW j \in 1 .. L + 1, i # j
        PROVE  g[i] \cap g[j] = {}
    <2>1. i < j \/ j < i
      BY <1>2
    <2> QED
      BY <2>1, <1>1
  <1>3. ASSUME NEW i \in 1 .. L, NEW r \in f[i]
        PROVE  \E k \in 1 .. L + 1 : r \in g[k]
    <2>1. CASE i = 1
      BY <2>1, <1>3
    <2>2. CASE i # 1
      <3>1. i - 1 \in 1 .. L - 1 /\ g[i - 1] = f[(i - 1) + 1] /\ (i - 1) + 1 = i
        BY <2>2
      <3> QED
        BY <3>1, <1>3
    <2> QED
      BY <2>1, <2>2
  <1>4. ASSUME NEW i \in 1 .. L + 1, NEW r \in g[i]
        PROVE  \E k \in 1 .. L : r \in f[k]
    <2>1. CASE i \in 1 .. L - 1
      BY <2>1, <1>4
    <2>2. CASE i \in {L, L + 1}
      BY <2>2, <1>4
    <2> QED
      BY <2>1, <2>2
  <1> QED
    BY <1>2, <1>3, <1>4 DEF Disjoint, Union

(* The first set of a disjoint family is taken out: what is left is disjoint
   from it, and the two make up the whole. *)
LEMMA FamilyDropped ==
  ASSUME NEW L \in Nat \ {0}, NEW f, NEW g,
         \A i \in 1 .. L - 1 : g[i] = f[i + 1],
         Disjoint(f, 1 .. L)
  PROVE  /\ Disjoint(g, 1 .. L - 1)
         /\ f[1] \cup Union(g, 1 .. L - 1) = Union(f, 1 .. L)
         /\ f[1] \cap Union(g, 1 .. L - 1) = {}
  <1>0. \A i, j \in 1 .. L : i # j => f[i] \cap f[j] = {}
    BY DEF Disjoint
  <1>1. ASSUME NEW i \in 1 .. L - 1
        PROVE  i + 1 \in 1 .. L /\ i + 1 # 1 /\ g[i] = f[i + 1]
    OBVIOUS
  <1>2. ASSUME NEW i \in 1 .. L, NEW r \in f[i], i # 1
        PROVE  \E k \in 1 .. L - 1 : r \in g[k]
    <2>1. i - 1 \in 1 .. L - 1 /\ g[i - 1] = f[(i - 1) + 1] /\ (i - 1) + 1 = i
      BY <1>2
    <2> QED
      BY <2>1, <1>2
  <1>3. 1 \in 1 .. L
    OBVIOUS
  <1>4. \A i, j \in 1 .. L - 1 : i # j => g[i] \cap g[j] = {}
    BY <1>0, <1>1, SMTT(30)
  <1>5. f[1] \cap UNION {g[i] : i \in 1 .. L - 1} = {}
    BY <1>0, <1>1, <1>3
  <1>6. f[1] \cup UNION {g[i] : i \in 1 .. L - 1} = UNION {f[i] : i \in 1 .. L}
    BY <1>1, <1>2, <1>3
  <1> QED
    BY <1>4, <1>5, <1>6 DEF Disjoint, Union

(* split(): a segment of two rows or more becomes two segments that are not
   empty, do not overlap, leave no gap and share the rows evenly. *)
LEMMA SplitHalves ==
  ASSUME NEW lo \in Rows, NEW hi \in Rows, lo < hi, NEW skip \in SUBSET Targets
  PROVE  \E mid \in Rows :
           /\ lo <= mid /\ mid < hi
           /\ 2 * (mid - lo) <= hi - lo /\ 2 * (hi - mid) <= hi - lo + 1
           /\ Split(lo, hi, skip) =
                << [lo |-> lo, hi |-> mid, skip |-> skip, sibling |-> mid + 1 .. hi,
                    knownBad |-> FALSE],
                   [lo |-> mid + 1, hi |-> hi, skip |-> skip, sibling |-> lo .. mid,
                    knownBad |-> FALSE] >>
  <1> DEFINE mid == lo + (hi - lo) \div 2
  <1>1. /\ mid \in Int /\ lo <= mid /\ mid < hi
        /\ 2 * (mid - lo) <= hi - lo /\ 2 * (hi - mid) <= hi - lo + 1
    BY IsolationAssumption DEF Rows
  <1>2. mid \in Rows
    BY <1>1, IsolationAssumption DEF Rows
  <1> QED
    BY <1>1, <1>2 DEF Split

(* the queue after its first segment has been replaced by its halves *)
HalvedTo(skip) ==
  /\ queue' \in Seq(Segment) /\ Len(queue') = Len(queue) + 1
  /\ \A i \in 1 .. Len(queue) - 1 : queue'[i] = queue[i + 1]
  /\ \E mid \in Rows :
       /\ segment.lo <= mid /\ mid < segment.hi
       /\ 2 * (mid - segment.lo) <= segment.hi - segment.lo
       /\ 2 * (segment.hi - mid) <= segment.hi - segment.lo + 1
       /\ queue'[Len(queue)] =
            [lo |-> segment.lo, hi |-> mid, skip |-> skip,
             sibling |-> mid + 1 .. segment.hi, knownBad |-> FALSE]
       /\ queue'[Len(queue) + 1] =
            [lo |-> mid + 1, hi |-> segment.hi, skip |-> skip,
             sibling |-> segment.lo .. mid, knownBad |-> FALSE]

(* split() and the queue's push do that. *)
LEMMA Halved ==
  ASSUME TypeOK, queue # <<>>, segment.lo < segment.hi,
         NEW skip \in SUBSET Targets,
         queue' = Tail(queue) \o Split(segment.lo, segment.hi, skip)
  PROVE  HalvedTo(skip)
  <1>1. queue \in Seq(Segment) /\ segment \in Segment /\ segment = queue[1]
    BY DEF TypeOK, segment
  <1>3. segment.lo \in Rows /\ segment.hi \in Rows
    BY <1>1 DEF Segment
  <1>4. PICK mid \in Rows :
           /\ segment.lo <= mid /\ mid < segment.hi
           /\ 2 * (mid - segment.lo) <= segment.hi - segment.lo
           /\ 2 * (segment.hi - mid) <= segment.hi - segment.lo + 1
           /\ Split(segment.lo, segment.hi, skip) =
                << [lo |-> segment.lo, hi |-> mid, skip |-> skip,
                    sibling |-> mid + 1 .. segment.hi, knownBad |-> FALSE],
                   [lo |-> mid + 1, hi |-> segment.hi, skip |-> skip,
                    sibling |-> segment.lo .. mid, knownBad |-> FALSE] >>
    BY <1>3, SplitHalves
  <1> DEFINE halves == Split(segment.lo, segment.hi, skip)
  <1>5. halves \in Seq(Segment) /\ Len(halves) = 2
    BY <1>3, <1>4, IsolationAssumption, SMTT(60) DEF Segment, Rows
  <1>6. /\ halves[1] = [lo |-> segment.lo, hi |-> mid, skip |-> skip,
                         sibling |-> mid + 1 .. segment.hi, knownBad |-> FALSE]
        /\ halves[2] = [lo |-> mid + 1, hi |-> segment.hi, skip |-> skip,
                         sibling |-> segment.lo .. mid, knownBad |-> FALSE]
    BY <1>4
  <1> HIDE DEF halves
  <1>7. /\ queue' \in Seq(Segment) /\ Len(queue') = Len(queue) + 1
        /\ \A i \in 1 .. Len(queue) - 1 : queue'[i] = queue[i + 1]
        /\ queue'[Len(queue)] = halves[1] /\ queue'[Len(queue) + 1] = halves[2]
    <2>1. PICK q, h : q = queue /\ h = halves
      OBVIOUS
    <2>2. q \in Seq(Segment) /\ q # <<>> /\ h \in Seq(Segment) /\ Len(h) = 2
      BY <1>1, <1>5, <2>1
    <2>3. queue' = Tail(q) \o h
      BY <2>1 DEF halves
    <2>4. /\ Tail(q) \o h \in Seq(Segment) /\ Len(Tail(q) \o h) = Len(q) + 1
          /\ \A i \in 1 .. Len(q) - 1 : (Tail(q) \o h)[i] = q[i + 1]
          /\ (Tail(q) \o h)[Len(q)] = h[1] /\ (Tail(q) \o h)[Len(q) + 1] = h[2]
      BY <2>2, TailThenPair, Zenon
    <2> QED
      BY <2>1, <2>3, <2>4, Zenon
  <1> QED
    BY <1>4, <1>6, <1>7, Zenon DEF HalvedTo

(* no row is in two segments *)
Apart == \A i, j \in DOMAIN queue : i # j => RowsOf(queue[i]) \cap RowsOf(queue[j]) = {}

(* no segment is empty *)
Sound == \A i \in DOMAIN queue : queue[i].lo <= queue[i].hi

(* segment s is one that was waiting behind the first segment of q *)
From(s, q) == \E j \in 2 .. Len(q) : RowsOf(s) = RowsOf(q[j]) /\ s.skip = q[j].skip

(* The first segment of a queue that is not empty. *)
LEMMA QueueFacts ==
  ASSUME TypeOK, queue # <<>>
  PROVE  /\ Len(queue) \in Nat \ {0} /\ DOMAIN queue = 1 .. Len(queue)
         /\ segment = queue[1] /\ segment.lo <= segment.hi
         /\ \A i \in 1 .. Len(queue) :
              /\ queue[i].lo \in Rows /\ queue[i].hi \in Rows
              /\ queue[i].skip \in SUBSET Targets
  <1>1. queue \in Seq(Segment)
    BY DEF TypeOK
  <1>2. Len(queue) \in Nat \ {0} /\ DOMAIN queue = 1 .. Len(queue)
    BY <1>1
  <1>3. \A i \in 1 .. Len(queue) : queue[i] \in Segment
    BY <1>1
  <1>4. segment = queue[1]
    BY <1>1 DEF segment
  <1>5. segment.lo <= segment.hi
    BY <1>2, <1>4 DEF TypeOK
  <1> QED
    BY <1>2, <1>3, <1>4, <1>5 DEF Segment

(* Splitting the first segment: the same rows wait, each in one segment, and a
   segment is an old one or a half of the first. *)
LEMMA HalvedRows ==
  ASSUME TypeOK, queue # <<>>, Apart, NEW skip \in SUBSET Targets, HalvedTo(skip)
  PROVE  /\ queue' \in Seq(Segment) /\ Sound' /\ Apart' /\ Waiting' = Waiting
         /\ \A i \in DOMAIN queue' :
              \/ From(queue'[i], queue)
              \/ queue'[i].skip = skip /\ RowsOf(queue'[i]) \subseteq RowsOf(segment)
  <1>1. PICK L \in Nat \ {0} : L = Len(queue)
    BY QueueFacts
  <1>2. /\ queue' \in Seq(Segment) /\ Len(queue') = L + 1
        /\ \A i \in 1 .. L - 1 : queue'[i] = queue[i + 1]
    BY <1>1 DEF HalvedTo
  <1>3. PICK mid \in Rows :
              /\ segment.lo <= mid /\ mid < segment.hi
              /\ queue'[L].lo = segment.lo /\ queue'[L].hi = mid
              /\ queue'[L + 1].lo = mid + 1
              /\ queue'[L + 1].hi = segment.hi
              /\ queue'[L].skip = skip /\ queue'[L + 1].skip = skip
    BY <1>1 DEF HalvedTo
  <1>4. DOMAIN queue = 1 .. L /\ segment = queue[1]
    BY <1>1, QueueFacts
  <1>5. DOMAIN queue' = 1 .. L + 1
    BY <1>2, LenProperties
  <1>6. segment.lo \in Int /\ segment.hi \in Int /\ mid \in Int
    <2>1. segment.lo \in Rows /\ segment.hi \in Rows
      BY <1>1, <1>4, QueueFacts
    <2> QED
      BY <2>1, <1>3, IsolationAssumption DEF Rows
  <1>7. /\ RowsOf(queue'[L]) \cup RowsOf(queue'[L + 1]) = RowsOf(segment)
        /\ RowsOf(queue'[L]) \cap RowsOf(queue'[L + 1]) = {}
    BY <1>3, <1>6 DEF RowsOf
  <1>8. /\ \A i, j \in 1 .. L + 1 : i # j => RowsOf(queue'[i]) \cap RowsOf(queue'[j]) = {}
        /\ UNION {RowsOf(queue'[i]) : i \in 1 .. L + 1} =
             UNION {RowsOf(queue[i]) : i \in 1 .. L}
    <2>1. PICK f, g : /\ f = [i \in 1 .. L |-> RowsOf(queue[i])]
                      /\ g = [i \in 1 .. L + 1 |-> RowsOf(queue'[i])]
      OBVIOUS
    <2>2. \A i \in 1 .. L : f[i] = RowsOf(queue[i])
      BY <2>1
    <2>3. \A i \in 1 .. L + 1 : g[i] = RowsOf(queue'[i])
      BY <2>1
    <2>4. \A i \in 1 .. L - 1 : g[i] = f[i + 1]
      BY <1>2, <2>2, <2>3
    <2>5. g[L] \cup g[L + 1] = f[1] /\ g[L] \cap g[L + 1] = {}
      <3>1. g[L] = RowsOf(queue'[L]) /\ g[L + 1] = RowsOf(queue'[L + 1])
        BY <2>3
      <3>2. f[1] = RowsOf(segment)
        BY <2>2, <1>4
      <3> QED
        BY <3>1, <3>2, <1>7, Zenon
    <2>6. Disjoint(f, 1 .. L)
      BY <2>2, <1>4, Zenon DEF Apart, Disjoint
    <2>7. Disjoint(g, 1 .. L + 1) /\ Union(g, 1 .. L + 1) = Union(f, 1 .. L)
      BY <2>4, <2>5, <2>6, FamilyHalved, Zenon
    <2>8. /\ {g[i] : i \in 1 .. L + 1} = {RowsOf(queue'[i]) : i \in 1 .. L + 1}
          /\ {f[i] : i \in 1 .. L} = {RowsOf(queue[i]) : i \in 1 .. L}
      BY <2>2, <2>3, Zenon
    <2>9. \A i, j \in 1 .. L + 1 : i # j => RowsOf(queue'[i]) \cap RowsOf(queue'[j]) = {}
      BY <2>3, <2>7, Zenon DEF Disjoint
    <2> QED
      BY <2>7, <2>8, <2>9, Zenon DEF Union
  <1>9. Apart' /\ Waiting' = Waiting
    BY <1>4, <1>5, <1>8, Zenon DEF Apart, Waiting
  <1>10. ASSUME NEW i \in 1 .. L - 1
         PROVE  i + 1 \in 2 .. L /\ i + 1 \in DOMAIN queue /\ queue'[i] = queue[i + 1]
    BY <1>2, <1>4
  <1>11. \A i \in 1 .. L + 1 : i \in 1 .. L - 1 \/ i = L \/ i = L + 1
    OBVIOUS
  <1>12. ASSUME NEW i \in DOMAIN queue'
         PROVE  \/ From(queue'[i], queue)
                \/ queue'[i].skip = skip /\ RowsOf(queue'[i]) \subseteq RowsOf(segment)
    <2>1. CASE i \in 1 .. L - 1
      BY <2>1, <1>1, <1>10, Zenon DEF From
    <2>2. CASE i \notin 1 .. L - 1
      <3>1. i = L \/ i = L + 1
        BY <2>2, <1>5, <1>11
      <3> QED
        BY <3>1, <1>3, <1>7, Zenon
    <2> QED
      BY <2>1, <2>2
  <1>13. Sound'
    <2> SUFFICES ASSUME NEW i \in 1 .. L + 1
                 PROVE  queue'[i].lo <= queue'[i].hi
      BY <1>5 DEF Sound
    <2>1. CASE i \in 1 .. L - 1
      BY <2>1, <1>10, Zenon DEF TypeOK
    <2>2. CASE i = L
      BY <2>2, <1>3
    <2>3. CASE i = L + 1
      <3>1. mid + 1 <= segment.hi
        BY <1>3, <1>6
      <3> QED
        BY <3>1, <2>3, <1>3, Zenon
    <2> QED
      BY <2>1, <2>2, <2>3, <1>11
  <1> QED
    BY <1>2, <1>9, <1>12, <1>13

(* the queue after its first segment has been decided *)
DroppedTo ==
  /\ queue' \in Seq(Segment) /\ Len(queue') = Len(queue) - 1
  /\ \A i \in 1 .. Len(queue) - 1 :
       /\ queue'[i].lo = queue[i + 1].lo /\ queue'[i].hi = queue[i + 1].hi
       /\ queue'[i].skip = queue[i + 1].skip

(* Deciding the first segment: exactly its rows no longer wait. *)
LEMMA DroppedRows ==
  ASSUME TypeOK, queue # <<>>, Apart, DroppedTo
  PROVE  /\ queue' \in Seq(Segment) /\ Sound' /\ Apart'
         /\ RowsOf(segment) \cup Waiting' = Waiting /\ RowsOf(segment) \cap Waiting' = {}
         /\ \A i \in DOMAIN queue' : From(queue'[i], queue)
  <1>1. PICK L \in Nat \ {0} : L = Len(queue)
    BY QueueFacts
  <1>2. /\ queue' \in Seq(Segment) /\ Len(queue') = L - 1
        /\ \A i \in 1 .. L - 1 :
             /\ queue'[i].lo = queue[i + 1].lo /\ queue'[i].hi = queue[i + 1].hi
             /\ queue'[i].skip = queue[i + 1].skip
    BY <1>1 DEF DroppedTo
  <1>3. DOMAIN queue = 1 .. L /\ segment = queue[1]
    BY <1>1, QueueFacts
  <1>4. DOMAIN queue' = 1 .. L - 1
    BY <1>2, LenProperties
  <1>5. ASSUME NEW i \in 1 .. L - 1
        PROVE  /\ i + 1 \in 2 .. L /\ i + 1 \in DOMAIN queue
               /\ RowsOf(queue'[i]) = RowsOf(queue[i + 1])
               /\ queue'[i].skip = queue[i + 1].skip
    BY <1>2, <1>3 DEF RowsOf
  <1>6. /\ \A i, j \in 1 .. L - 1 : i # j => RowsOf(queue'[i]) \cap RowsOf(queue'[j]) = {}
        /\ RowsOf(segment) \cup UNION {RowsOf(queue'[i]) : i \in 1 .. L - 1} =
             UNION {RowsOf(queue[i]) : i \in 1 .. L}
        /\ RowsOf(segment) \cap UNION {RowsOf(queue'[i]) : i \in 1 .. L - 1} = {}
    <2>1. PICK f, g : /\ f = [i \in 1 .. L |-> RowsOf(queue[i])]
                      /\ g = [i \in 1 .. L - 1 |-> RowsOf(queue'[i])]
      OBVIOUS
    <2>2. (\A i \in 1 .. L : f[i] = RowsOf(queue[i])) /\ f[1] = RowsOf(segment)
      BY <2>1, <1>3
    <2>3. \A i \in 1 .. L - 1 : g[i] = RowsOf(queue'[i])
      BY <2>1
    <2>4. \A i \in 1 .. L - 1 : g[i] = f[i + 1]
      BY <1>3, <1>5, <2>2, <2>3, Zenon
    <2>5. Disjoint(f, 1 .. L)
      BY <2>2, <1>3, Zenon, SMTT(30) DEF Apart, Disjoint
    <2>6. /\ Disjoint(g, 1 .. L - 1)
          /\ f[1] \cup Union(g, 1 .. L - 1) = Union(f, 1 .. L)
          /\ f[1] \cap Union(g, 1 .. L - 1) = {}
      BY <2>4, <2>5, FamilyDropped
    <2>7. /\ {g[i] : i \in 1 .. L - 1} = {RowsOf(queue'[i]) : i \in 1 .. L - 1}
          /\ {f[i] : i \in 1 .. L} = {RowsOf(queue[i]) : i \in 1 .. L}
      BY <2>2, <2>3, Zenon
    <2>8. \A i, j \in 1 .. L - 1 : i # j => RowsOf(queue'[i]) \cap RowsOf(queue'[j]) = {}
      BY <2>3, <2>6, Zenon DEF Disjoint
    <2> QED
      BY <2>2, <2>6, <2>7, <2>8, Zenon DEF Union
  <1>7. /\ Apart' /\ RowsOf(segment) \cup Waiting' = Waiting
        /\ RowsOf(segment) \cap Waiting' = {}
    BY <1>3, <1>4, <1>6, Zenon DEF Apart, Waiting
  <1>8. \A i \in DOMAIN queue' : From(queue'[i], queue)
    BY <1>1, <1>4, <1>5, Zenon DEF From
  <1>9. Sound'
    <2> SUFFICES ASSUME NEW i \in 1 .. L - 1
                 PROVE  queue'[i].lo <= queue'[i].hi
      BY <1>4 DEF Sound
    <2> QED
      BY <1>2, <1>5 DEF TypeOK
  <1> QED
    BY <1>2, <1>7, <1>8, <1>9

(* the targets that hold row r *)
Held(r) == {t \in Targets : <<r, t>> \in written}

(* each row of the batch is in one place *)
Placed ==
  /\ delivered \cup SetAside \cup Waiting = 1 .. n
  /\ delivered \cap SetAside = {} /\ delivered \cap Waiting = {} /\ SetAside \cap Waiting = {}

(* what is remembered of it is what the targets hold *)
Remembered ==
  /\ \A i \in DOMAIN queue : \A r \in RowsOf(queue[i]) : Held(r) = queue[i].skip
  /\ \A p \in poisoned : Held(p.row) = p.targets
  /\ \A r \in delivered : Held(r) = Targets

(* the inductive invariant *)
IsoInv ==
  /\ TypeOK /\ again = {}
  /\ verdict # "systemic" => Apart /\ Placed /\ Remembered

(* The batch that failed as a whole is split in two, or is a row of its own. *)
LEMMA InitIso == Init => IsoInv
  <1> SUFFICES ASSUME Init PROVE IsoInv
    OBVIOUS
  <1>1. PICK F \in (SUBSET Targets) \ {{}} :
       /\ written = (1 .. n) \X (Targets \ F)
       /\ queue = IF n = 1 THEN <<>> ELSE Split(1, n, Targets \ F)
       /\ poisoned = IF n = 1 THEN {[row |-> 1, targets |-> Targets \ F]} ELSE {}
    BY DEF Init
  <1>2. /\ n \in Rows /\ bad \subseteq (1 .. n) \X Targets /\ blips = Blips
        /\ delivered = {} /\ again = {}
        /\ attempts = 0 /\ successes = 0 /\ verdict = "searching"
    BY DEF Init
  <1>3. \A r \in 1 .. n : Held(r) = Targets \ F
    BY <1>1 DEF Held
  <1>4. 1 .. n \subseteq Rows /\ n \in Nat \ {0}
    BY <1>2, IsolationAssumption DEF Rows
  <1>5. /\ n \in Rows /\ bad \subseteq Rows \X Targets /\ blips \in 0 .. Blips
        /\ delivered \subseteq Rows
        /\ attempts \in Nat /\ successes \in 0 .. attempts
        /\ verdict \in {"searching", "done", "systemic"}
        /\ written \subseteq Rows \X Targets /\ again \subseteq written
    BY <1>1, <1>2, <1>4, IsolationAssumption
  <1>6. CASE n = 1
    <2>1. queue = <<>> /\ poisoned = {[row |-> 1, targets |-> Targets \ F]}
      BY <1>1, <1>6
    <2>2. DOMAIN queue = {} /\ queue \in Seq(Segment)
      BY <2>1
    <2>3. SetAside = {1} /\ Waiting = {} /\ Apart
      BY <2>1, <2>2 DEF SetAside, Waiting, Apart
    <2>4. TypeOK
      BY <1>4, <1>5, <1>6, <2>1, <2>2 DEF TypeOK
    <2>5. 1 .. n = {1}
      BY <1>6
    <2>6. \A p \in poisoned : Held(p.row) = p.targets
      <3>1. \A p \in poisoned : p.row = 1 /\ p.targets = Targets \ F
        BY <2>1
      <3>2. Held(1) = Targets \ F
        BY <1>3, <2>5
      <3> QED
        BY <3>1, <3>2, Zenon
    <2> QED
      BY <1>2, <2>2, <2>3, <2>4, <2>5, <2>6 DEF IsoInv, Placed, Remembered
  <1>7. CASE n # 1
    <2>1. 1 \in Rows /\ 1 < n
      BY <1>4, <1>7, IsolationAssumption DEF Rows
    <2>2. PICK mid \in Rows :
           /\ 1 <= mid /\ mid < n
           /\ Split(1, n, Targets \ F) =
                << [lo |-> 1, hi |-> mid, skip |-> Targets \ F, sibling |-> mid + 1 .. n,
                    knownBad |-> FALSE],
                   [lo |-> mid + 1, hi |-> n, skip |-> Targets \ F, sibling |-> 1 .. mid,
                    knownBad |-> FALSE] >>
      BY <2>1, <1>2, SplitHalves
    <2>3. /\ queue =
                << [lo |-> 1, hi |-> mid, skip |-> Targets \ F, sibling |-> mid + 1 .. n,
                    knownBad |-> FALSE],
                   [lo |-> mid + 1, hi |-> n, skip |-> Targets \ F, sibling |-> 1 .. mid,
                    knownBad |-> FALSE] >>
          /\ poisoned = {}
      BY <2>2, <1>1, <1>7
    <2>4. DOMAIN queue = {1, 2} /\ queue \in Seq(Segment)
      BY <2>2, <2>3, <1>2, IsolationAssumption DEF Segment, Rows
    <2>5. /\ queue[1].lo = 1 /\ queue[1].hi = mid /\ queue[1].skip = Targets \ F
          /\ queue[2].lo = mid + 1 /\ queue[2].hi = n /\ queue[2].skip = Targets \ F
      BY <2>3
    <2>6. mid \in Int /\ n \in Int
      BY <2>2, <1>4, IsolationAssumption DEF Rows
    <2>7. TypeOK
      BY <1>5, <2>2, <2>3, <2>4, <2>5, <2>6 DEF TypeOK
    <2>8. RowsOf(queue[1]) = 1 .. mid /\ RowsOf(queue[2]) = mid + 1 .. n
      BY <2>5 DEF RowsOf
    <2>9. Apart /\ Waiting = 1 .. n
      BY <2>2, <2>4, <2>6, <2>8 DEF Apart, Waiting
    <2>10. SetAside = {}
      BY <2>3 DEF SetAside
    <2>11. \A i \in DOMAIN queue : \A r \in RowsOf(queue[i]) : Held(r) = queue[i].skip
      <3>1. RowsOf(queue[1]) \subseteq 1 .. n /\ RowsOf(queue[2]) \subseteq 1 .. n
        BY <2>2, <2>6, <2>8
      <3> QED
        BY <3>1, <1>3, <2>4, <2>5, Zenon
    <2> QED
      BY <1>2, <2>3, <2>7, <2>9, <2>10, <2>11 DEF IsoInv, Placed, Remembered
  <1> QED
    BY <1>6, <1>7

(* One delivery of a segment: its rows are then at the targets SkipAfter names,
   nothing else has changed, and no target is given a row it holds. *)
LEMMA DeliveryHeld ==
  ASSUME IsoInv, NEW F, Delivery(F)
  PROVE  /\ verdict = "searching" /\ queue # <<>> /\ F \subseteq Targets \ segment.skip
         /\ attempts \in Nat /\ attempts' = attempts + 1 /\ blips' \in 0 .. Blips
         /\ written' \subseteq Rows \X Targets /\ again' = {}
         /\ SkipAfter(F) \in SUBSET Targets
         /\ RowsOf(segment) \subseteq Rows
         /\ \A r \in RowsOf(segment) : Held(r)' = SkipAfter(F)
         /\ \A r : r \notin RowsOf(segment) => Held(r)' = Held(r)
  <1>1. verdict = "searching" /\ queue # <<>>
    BY DEF Delivery, searching
  <1>2. TypeOK /\ again = {} /\ Remembered
    BY <1>1 DEF IsoInv
  <1>3. /\ segment = queue[1] /\ 1 \in DOMAIN queue /\ segment.skip \in SUBSET Targets
        /\ segment.lo \in Rows /\ segment.hi \in Rows
    BY <1>1, <1>2, QueueFacts
  <1>4. \A r \in RowsOf(segment) : Held(r) = segment.skip
    BY <1>2, <1>3 DEF Remembered
  <1>5. RowsOf(segment) \subseteq Rows
    BY <1>3, IsolationAssumption DEF RowsOf, Rows
  <1>6. PICK commits : commits = RowsOf(segment) \X ((Targets \ segment.skip) \ F)
    OBVIOUS
  <1>7. /\ written' = written \cup commits /\ again' = again \cup (commits \cap written)
        /\ attempts' = attempts + 1 /\ F \subseteq Targets \ segment.skip
    BY <1>6 DEF Delivery
  <1>8. blips' \in 0 .. Blips
    BY <1>2, IsolationAssumption DEF Delivery, TypeOK
  <1>9. commits \cap written = {}
    <2>1. ASSUME NEW r \in RowsOf(segment), NEW t \in Targets \ segment.skip
          PROVE  <<r, t>> \notin written
      BY <2>1, <1>4, Zenon DEF Held
    <2> QED
      BY <2>1, <1>6
  <1>10. written' \subseteq Rows \X Targets
    BY <1>2, <1>5, <1>6, <1>7 DEF TypeOK
  <1>11. ASSUME NEW r \in RowsOf(segment)
         PROVE  Held(r)' = SkipAfter(F)
    <2>1. \A t \in Targets : <<r, t>> \in written <=> t \in segment.skip
      BY <1>4, Zenon DEF Held
    <2>2. \A t \in Targets : <<r, t>> \in commits <=> t \in (Targets \ segment.skip) \ F
      BY <1>6
    <2>3. \A t \in Targets : <<r, t>> \in written' <=> t \in SkipAfter(F)
      BY <2>1, <2>2, <1>7 DEF SkipAfter
    <2> QED
      BY <2>3, <1>3 DEF Held, SkipAfter
  <1>12. ASSUME NEW r, r \notin RowsOf(segment)
         PROVE  Held(r)' = Held(r)
    <2>1. \A t : <<r, t>> \notin commits
      BY <1>6, <1>12
    <2> QED
      BY <2>1, <1>7 DEF Held
  <1>13. attempts \in Nat
    BY <1>2 DEF TypeOK
  <1> QED
    BY <1>1, <1>2, <1>3, <1>5, <1>7, <1>8, <1>9, <1>10, <1>11, <1>12, <1>13 DEF SkipAfter

(* A segment known to hold the failure is split without an attempt. *)
LEMMA SplitKnownBadKeeps ==
  ASSUME IsoInv, SplitKnownBad
  PROVE  IsoInv'
  <1>1. /\ verdict = "searching" /\ queue # <<>> /\ segment.lo < segment.hi
        /\ queue' = Tail(queue) \o Split(segment.lo, segment.hi, segment.skip)
        /\ UNCHANGED <<n, bad, blips, delivered, poisoned, attempts, successes, verdict,
                       written, again>>
    BY DEF SplitKnownBad, searching, CanSkipAttempt, fault
  <1>2. TypeOK /\ Apart /\ again = {} /\ Placed /\ Remembered
    BY <1>1 DEF IsoInv
  <1>3. /\ segment = queue[1] /\ 1 \in DOMAIN queue /\ DOMAIN queue = 1 .. Len(queue)
        /\ segment.skip \in SUBSET Targets
    BY <1>1, <1>2, QueueFacts
  <1>4. PICK skip \in SUBSET Targets : skip = segment.skip
    BY <1>3
  <1>5. HalvedTo(skip)
    BY <1>1, <1>2, <1>4, Halved
  <1>6. /\ queue' \in Seq(Segment) /\ Sound' /\ Apart' /\ Waiting' = Waiting
        /\ \A i \in DOMAIN queue' :
              \/ From(queue'[i], queue)
              \/ queue'[i].skip = skip /\ RowsOf(queue'[i]) \subseteq RowsOf(segment)
    BY <1>1, <1>2, <1>5, HalvedRows
  <1>7. TypeOK'
    BY <1>1, <1>2, <1>6 DEF TypeOK, Sound
  <1>8. \A r : Held(r)' = Held(r)
    BY <1>1 DEF Held
  <1>9. SetAside' = SetAside
    BY <1>1 DEF SetAside
  <1>10. ASSUME NEW i \in DOMAIN queue', NEW r \in RowsOf(queue'[i])
         PROVE  Held(r) = queue'[i].skip
    <2>1. CASE From(queue'[i], queue)
      <3>1. PICK j \in 2 .. Len(queue) : /\ RowsOf(queue'[i]) = RowsOf(queue[j])
                                         /\ queue'[i].skip = queue[j].skip
        BY <2>1 DEF From
      <3>2. j \in DOMAIN queue
        BY <1>3
      <3> QED
        BY <3>1, <3>2, <1>2, <1>10 DEF Remembered
    <2>2. CASE queue'[i].skip = skip /\ RowsOf(queue'[i]) \subseteq RowsOf(segment)
      BY <2>2, <1>2, <1>3, <1>4, <1>10 DEF Remembered
    <2> QED
      BY <2>1, <2>2, <1>6
  <1>11. Placed'
    BY <1>1, <1>2, <1>6, <1>9, Zenon DEF Placed
  <1>12. Remembered'
    BY <1>1, <1>2, <1>8, <1>10, Zenon DEF Remembered
  <1> QED
    BY <1>1, <1>2, <1>6, <1>7, <1>11, <1>12 DEF IsoInv

(* Too many attempts. *)
LEMMA GiveUpKeeps ==
  ASSUME IsoInv, GiveUp
  PROVE  IsoInv'
  BY DEF GiveUp, IsoInv, TypeOK, fault

(* Nothing is left to try. *)
LEMMA ReturnKeeps ==
  ASSUME IsoInv, Return
  PROVE  IsoInv'
  <1>1. /\ verdict = "searching" /\ verdict' = "done"
        /\ UNCHANGED <<n, bad, blips, queue, delivered, poisoned, attempts, successes,
                       written, again>>
    BY DEF Return, fault
  <1>2. TypeOK /\ Apart /\ again = {} /\ Placed /\ Remembered
    BY <1>1 DEF IsoInv
  <1>3. TypeOK'
    BY <1>1, <1>2 DEF TypeOK
  <1>4. Apart' /\ Placed'
    <2>1. SetAside' = SetAside /\ Waiting' = Waiting
      BY <1>1, Zenon DEF SetAside, Waiting
    <2>2. Apart'
      BY <1>1, <1>2, Zenon DEF Apart
    <2> QED
      BY <1>1, <1>2, <2>1, <2>2, Zenon DEF Placed
  <1>5. Remembered'
    BY <1>1, <1>2, Zenon DEF Remembered, Held
  <1> QED
    BY <1>1, <1>2, <1>3, <1>4, <1>5 DEF IsoInv

(* What is left of the queue once its first segment is decided: the targets
   hold of those rows what they held. *)
LEMMA RestKeeps ==
  ASSUME IsoInv, NEW F, Delivery(F), DroppedTo
  PROVE  /\ Apart' /\ RowsOf(segment) \cup Waiting' = Waiting
         /\ RowsOf(segment) \cap Waiting' = {}
         /\ \A i \in DOMAIN queue' : \A r \in RowsOf(queue'[i]) : Held(r)' = queue'[i].skip
  <1>1. /\ verdict = "searching" /\ queue # <<>>
        /\ \A r : r \notin RowsOf(segment) => Held(r)' = Held(r)
    BY DeliveryHeld
  <1>2. TypeOK /\ Apart /\ Remembered
    BY <1>1 DEF IsoInv
  <1>3. /\ Apart' /\ RowsOf(segment) \cup Waiting' = Waiting
        /\ RowsOf(segment) \cap Waiting' = {}
        /\ \A i \in DOMAIN queue' : From(queue'[i], queue)
    BY <1>1, <1>2, DroppedRows
  <1>4. /\ segment = queue[1] /\ DOMAIN queue = 1 .. Len(queue) /\ Len(queue) \in Nat
    BY <1>1, <1>2, QueueFacts
  <1>5. ASSUME NEW i \in DOMAIN queue', NEW r \in RowsOf(queue'[i])
        PROVE  Held(r)' = queue'[i].skip
    <2>1. PICK j \in 2 .. Len(queue) : /\ RowsOf(queue'[i]) = RowsOf(queue[j])
                                       /\ queue'[i].skip = queue[j].skip
      BY <1>3 DEF From
    <2>2. j \in DOMAIN queue /\ 1 \in DOMAIN queue /\ j # 1
      BY <1>4
    <2>3. RowsOf(queue[j]) \cap RowsOf(queue[1]) = {}
      BY <2>2, <1>2, Zenon DEF Apart
    <2>4. r \in RowsOf(queue[j]) /\ r \notin RowsOf(segment)
      BY <2>1, <2>3, <1>4, <1>5
    <2> QED
      BY <2>1, <2>2, <2>4, <1>1, <1>2, Zenon DEF Remembered
  <1> QED
    BY <1>3, <1>5

(* The first segment is dropped. *)
LEMMA TailDropped ==
  ASSUME TypeOK, queue # <<>>, queue' = Tail(queue)
  PROVE  DroppedTo
  <1>1. queue \in Seq(Segment)
    BY DEF TypeOK
  <1> QED
    BY <1>1, HeadTailProperties DEF DroppedTo

(* Marking a segment as bad leaves the rest of it alone. *)
LEMMA MarkedSegment ==
  ASSUME NEW s \in Segment, NEW b \in BOOLEAN
  PROVE  /\ [s EXCEPT !.knownBad = b] \in Segment
         /\ [s EXCEPT !.knownBad = b].lo = s.lo /\ [s EXCEPT !.knownBad = b].hi = s.hi
         /\ [s EXCEPT !.knownBad = b].skip = s.skip
         /\ [s EXCEPT !.knownBad = b].sibling = s.sibling
         /\ [s EXCEPT !.knownBad = b].knownBad = b
  BY DEF Segment

(* The first segment is dropped and its sibling marked, as a success does. *)
LEMMA MarkedDropped ==
  ASSUME TypeOK, queue # <<>>,
         queue' = [i \in DOMAIN Tail(queue) |->
                     [Tail(queue)[i] EXCEPT
                        !.knownBad = @ \/ RowsOf(Tail(queue)[i]) = segment.sibling]]
  PROVE  /\ DroppedTo
         /\ \A i \in 1 .. Len(queue) - 1 :
              /\ queue'[i].sibling = queue[i + 1].sibling
              /\ queue'[i].knownBad <=>
                   queue[i + 1].knownBad \/ RowsOf(queue[i + 1]) = segment.sibling
  <1>1. queue \in Seq(Segment)
    BY DEF TypeOK
  <1>2. PICK L \in Nat \ {0} : L = Len(queue)
    BY <1>1
  <1>3. Tail(queue) \in Seq(Segment) /\ Len(Tail(queue)) = L - 1
    BY <1>1, <1>2
  <1>4. /\ \A i \in 1 .. L - 1 : Tail(queue)[i] = queue[i + 1]
        /\ DOMAIN Tail(queue) = 1 .. L - 1
    BY <1>1, <1>2, <1>3, HeadTailProperties
  <1>5. PICK t \in Seq(Segment) : t = Tail(queue)
    BY <1>3
  <1>a. PICK sib : sib = segment.sibling
    OBVIOUS
  <1>6. PICK w : w = [i \in 1 .. L - 1 |->
                       [t[i] EXCEPT !.knownBad = t[i].knownBad \/ RowsOf(t[i]) = sib]]
    OBVIOUS
  <1>7. queue' = w
    BY <1>4, <1>5, <1>a, <1>6
  <1>8. \A i \in 1 .. L - 1 : t[i] \in Segment /\ t[i] = queue[i + 1]
    BY <1>3, <1>4, <1>5, ElementOfSeq
  <1>9. ASSUME NEW i \in 1 .. L - 1
        PROVE  /\ w[i] \in Segment
               /\ w[i].lo = queue[i + 1].lo /\ w[i].hi = queue[i + 1].hi
               /\ w[i].skip = queue[i + 1].skip /\ w[i].sibling = queue[i + 1].sibling
               /\ w[i].knownBad <=> queue[i + 1].knownBad \/ RowsOf(queue[i + 1]) = sib
    <2>1. PICK b \in BOOLEAN : b = (t[i].knownBad \/ RowsOf(t[i]) = sib)
      OBVIOUS
    <2>2. w[i] = [t[i] EXCEPT !.knownBad = b]
      BY <2>1, <1>6
    <2>3. PICK s \in Segment : s = t[i]
      BY <1>8
    <2>4. PICK x : x = [s EXCEPT !.knownBad = b]
      OBVIOUS
    <2>5. /\ x \in Segment /\ x.lo = s.lo /\ x.hi = s.hi /\ x.skip = s.skip
          /\ x.sibling = s.sibling /\ x.knownBad = b
      BY <2>4, MarkedSegment, Zenon
    <2>6. w[i] = x
      BY <2>2, <2>3, <2>4, Zenon
    <2>7. s = queue[i + 1]
      BY <2>3, <1>8
    <2> QED
      BY <2>1, <2>3, <2>5, <2>6, <2>7, Zenon
  <1>10. w \in [1 .. L - 1 -> Segment]
    BY <1>6, <1>9
  <1>11. w \in Seq(Segment) /\ Len(w) = L - 1
    <2>1. L - 1 \in Nat
      OBVIOUS
    <2> QED
      BY <1>10, <2>1
  <1> QED
    BY <1>2, <1>7, <1>9, <1>11, <1>a DEF DroppedTo

(* A delivery that succeeds. *)
LEMMA AttemptOkKeeps ==
  ASSUME IsoInv, AttemptOk
  PROVE  IsoInv'
  <1>1. Delivery({})
    BY DEF AttemptOk
  <1>2. /\ successes' = successes + 1 /\ delivered' = delivered \cup RowsOf(segment)
        /\ UNCHANGED <<n, bad, poisoned, verdict>>
    BY DEF AttemptOk, fault
  <1>3. /\ verdict = "searching" /\ queue # <<>>
        /\ attempts \in Nat /\ attempts' = attempts + 1 /\ blips' \in 0 .. Blips
        /\ written' \subseteq Rows \X Targets /\ again' = {}
        /\ RowsOf(segment) \subseteq Rows
        /\ \A r \in RowsOf(segment) : Held(r)' = SkipAfter({})
        /\ \A r : r \notin RowsOf(segment) => Held(r)' = Held(r)
    BY <1>1, DeliveryHeld
  <1>4. TypeOK /\ Apart /\ Placed /\ Remembered
    BY <1>3 DEF IsoInv
  <1>5. DroppedTo
    BY <1>3, <1>4, MarkedDropped DEF AttemptOk
  <1>6. /\ Apart' /\ RowsOf(segment) \cup Waiting' = Waiting
        /\ RowsOf(segment) \cap Waiting' = {}
        /\ \A i \in DOMAIN queue' : \A r \in RowsOf(queue'[i]) : Held(r)' = queue'[i].skip
    BY <1>1, <1>5, RestKeeps
  <1>7. queue' \in Seq(Segment) /\ Sound'
    BY <1>3, <1>4, <1>5, DroppedRows
  <1>8. SkipAfter({}) = Targets
    <2>1. segment.skip \in SUBSET Targets
      BY <1>3, <1>4, QueueFacts
    <2> QED
      BY <2>1 DEF SkipAfter
  <1>9. TypeOK'
    BY <1>2, <1>3, <1>4, <1>7 DEF TypeOK, Sound
  <1>10. SetAside' = SetAside
    BY <1>2 DEF SetAside
  <1>11. Placed'
    BY <1>2, <1>4, <1>6, <1>10 DEF Placed
  <1>12. ASSUME NEW p \in poisoned'
         PROVE  Held(p.row)' = p.targets
    <2>1. p \in poisoned /\ p.row \in SetAside
      BY <1>2 DEF SetAside
    <2>2. p.row \notin RowsOf(segment)
      BY <2>1, <1>4, <1>6 DEF Placed
    <2>3. Held(p.row) = p.targets
      BY <2>1, <1>4, Zenon DEF Remembered
    <2>4. Held(p.row)' = Held(p.row)
      BY <2>2, <1>3
    <2> QED
      BY <2>3, <2>4
  <1>13. ASSUME NEW r \in delivered'
         PROVE  Held(r)' = Targets
    <2>1. CASE r \in RowsOf(segment)
      BY <2>1, <1>3, <1>8
    <2>2. CASE r \notin RowsOf(segment)
      <3>1. r \in delivered
        BY <2>2, <1>2
      <3>2. Held(r) = Targets
        BY <3>1, <1>4, Zenon DEF Remembered
      <3> QED
        BY <3>2, <2>2, <1>3
    <2> QED
      BY <2>1, <2>2
  <1>14. Remembered'
    BY <1>6, <1>12, <1>13, Zenon DEF Remembered
  <1> QED
    BY <1>3, <1>6, <1>9, <1>11, <1>14 DEF IsoInv

(* A delivery that fails: too long without success, a row of its own, or a
   segment that is split. *)
LEMMA AttemptFailsKeeps ==
  ASSUME IsoInv, AttemptFails
  PROVE  IsoInv'
  <1>1. PICK F \in (SUBSET Targets) \ {{}} :
          /\ Delivery(F)
          /\ LET tooLong == successes = 0 /\ attempts + 1 >= FailuresBeforeSystemic
                 single == segment.lo = segment.hi
                 row == [row |-> segment.lo, targets |-> SkipAfter(F)] IN
               /\ poisoned' = IF ~tooLong /\ single THEN poisoned \cup {row} ELSE poisoned
               /\ queue' = IF tooLong \/ single THEN Tail(queue)
                     ELSE Tail(queue) \o Split(segment.lo, segment.hi, SkipAfter(F))
               /\ verdict' = IF tooLong \/ Cardinality(poisoned') > MaxPoisoned
                         THEN "systemic" ELSE verdict
          /\ UNCHANGED <<fault, delivered, successes>>
    BY Zenon DEF AttemptFails
  <1>2. UNCHANGED <<n, bad, delivered, successes>>
    BY <1>1 DEF fault
  <1>3. /\ verdict = "searching" /\ queue # <<>>
        /\ attempts \in Nat /\ attempts' = attempts + 1 /\ blips' \in 0 .. Blips
        /\ written' \subseteq Rows \X Targets /\ again' = {}
        /\ SkipAfter(F) \in SUBSET Targets /\ RowsOf(segment) \subseteq Rows
        /\ \A r \in RowsOf(segment) : Held(r)' = SkipAfter(F)
        /\ \A r : r \notin RowsOf(segment) => Held(r)' = Held(r)
    BY <1>1, DeliveryHeld
  <1>4. TypeOK /\ Apart /\ Placed /\ Remembered
    BY <1>3 DEF IsoInv
  <1>5. /\ segment = queue[1] /\ DOMAIN queue = 1 .. Len(queue) /\ 1 \in DOMAIN queue
        /\ segment.lo \in Rows /\ segment.hi \in Rows /\ segment.lo <= segment.hi
    BY <1>3, <1>4, QueueFacts
  <1>6. PICK skip \in SUBSET Targets : skip = SkipAfter(F)
    BY <1>3
  <1>7. RowsOf(segment) \subseteq Waiting
    BY <1>5 DEF Waiting
  <1>8. ASSUME NEW r \in delivered
        PROVE  Held(r)' = Targets
    <2>1. r \notin RowsOf(segment)
      BY <1>4, <1>7 DEF Placed
    <2>2. Held(r) = Targets
      BY <1>4, Zenon DEF Remembered
    <2> QED
      BY <2>1, <2>2, <1>3
  <1>9. ASSUME NEW p \in poisoned
        PROVE  Held(p.row)' = p.targets
    <2>1. p.row \in SetAside
      BY DEF SetAside
    <2>2. p.row \notin RowsOf(segment)
      BY <2>1, <1>4, <1>7 DEF Placed
    <2>3. Held(p.row) = p.targets
      BY <1>4, Zenon DEF Remembered
    <2> QED
      BY <2>2, <2>3, <1>3
  <1>10. successes \in 0 .. attempts'
    BY <1>3, <1>4 DEF TypeOK
  <1>11. CASE successes = 0 /\ attempts + 1 >= FailuresBeforeSystemic
    <2>1. queue' = Tail(queue) /\ poisoned' = poisoned /\ verdict' = "systemic"
      BY <1>1, <1>11
    <2>2. queue' \in Seq(Segment) /\ Sound'
      BY <2>1, <1>3, <1>4, TailDropped, DroppedRows
    <2>3. TypeOK'
      BY <2>1, <2>2, <1>2, <1>3, <1>4, <1>10 DEF TypeOK, Sound
    <2> QED
      BY <2>1, <2>3, <1>3 DEF IsoInv
  <1>12. CASE /\ ~(successes = 0 /\ attempts + 1 >= FailuresBeforeSystemic)
              /\ segment.lo = segment.hi
    <2>1. /\ queue' = Tail(queue) /\ verdict' \in {"searching", "systemic"}
          /\ poisoned' = poisoned \cup {[row |-> segment.lo, targets |-> skip]}
      BY <1>1, <1>3, <1>6, <1>12
    <2>2. RowsOf(segment) = {segment.lo}
      BY <1>5, <1>12, IsolationAssumption DEF RowsOf, Rows
    <2>3. DroppedTo
      BY <2>1, <1>3, <1>4, TailDropped
    <2>4. queue' \in Seq(Segment) /\ Sound'
      BY <2>3, <1>3, <1>4, DroppedRows
    <2>5. /\ Apart' /\ RowsOf(segment) \cup Waiting' = Waiting
          /\ RowsOf(segment) \cap Waiting' = {}
          /\ \A i \in DOMAIN queue' : \A r \in RowsOf(queue'[i]) : Held(r)' = queue'[i].skip
      BY <2>3, <1>1, RestKeeps
    <2>6. TypeOK'
      BY <2>1, <2>4, <1>2, <1>3, <1>4, <1>5, <1>6, <1>10 DEF TypeOK, Sound
    <2>7. SetAside' = SetAside \cup {segment.lo}
      <3>1. PICK w : w = [row |-> segment.lo, targets |-> skip]
        OBVIOUS
      <3>2. poisoned' = poisoned \cup {w} /\ w.row = segment.lo
        BY <3>1, <2>1
      <3> QED
        BY <3>2 DEF SetAside
    <2>8. Placed'
      BY <2>2, <2>5, <2>7, <1>2, <1>4 DEF Placed
    <2>9. ASSUME NEW p \in poisoned'
          PROVE  Held(p.row)' = p.targets
      <3>1. CASE p \in poisoned
        BY <3>1, <1>9
      <3>2. CASE p \notin poisoned
        <4>1. p.row = segment.lo /\ p.targets = skip
          BY <3>2, <2>1
        <4> QED
          BY <4>1, <2>2, <1>3, <1>6
      <3> QED
        BY <3>1, <3>2
    <2>10. Remembered'
      BY <2>5, <2>9, <1>2, <1>8, Zenon DEF Remembered
    <2> QED
      BY <2>5, <2>6, <2>8, <2>10, <1>3 DEF IsoInv
  <1>13. CASE /\ ~(successes = 0 /\ attempts + 1 >= FailuresBeforeSystemic)
              /\ segment.lo # segment.hi
    <2>1. /\ queue' = Tail(queue) \o Split(segment.lo, segment.hi, skip)
          /\ verdict' \in {"searching", "systemic"} /\ poisoned' = poisoned
      BY <1>1, <1>3, <1>6, <1>13
    <2>2. segment.lo < segment.hi
      BY <1>5, <1>13, IsolationAssumption DEF Rows
    <2>3. HalvedTo(skip)
      BY <2>1, <2>2, <1>3, <1>4, Halved
    <2>4. /\ queue' \in Seq(Segment) /\ Sound' /\ Apart' /\ Waiting' = Waiting
          /\ \A i \in DOMAIN queue' :
              \/ From(queue'[i], queue)
              \/ queue'[i].skip = skip /\ RowsOf(queue'[i]) \subseteq RowsOf(segment)
      BY <2>3, <1>3, <1>4, HalvedRows
    <2>5. TypeOK'
      BY <2>1, <2>4, <1>2, <1>3, <1>4, <1>10 DEF TypeOK, Sound
    <2>6. SetAside' = SetAside
      BY <2>1 DEF SetAside
    <2>7. Placed'
      BY <2>4, <2>6, <1>2, <1>4, Zenon DEF Placed
    <2>8. ASSUME NEW i \in DOMAIN queue', NEW r \in RowsOf(queue'[i])
          PROVE  Held(r)' = queue'[i].skip
      <3>1. CASE From(queue'[i], queue)
        <4>1. PICK j \in 2 .. Len(queue) : /\ RowsOf(queue'[i]) = RowsOf(queue[j])
                                           /\ queue'[i].skip = queue[j].skip
          BY <3>1 DEF From
        <4>2. j \in DOMAIN queue /\ j # 1
          BY <1>5
        <4>3. RowsOf(queue[j]) \cap RowsOf(queue[1]) = {}
          BY <4>2, <1>4, <1>5, Zenon DEF Apart
        <4>4. r \in RowsOf(queue[j]) /\ r \notin RowsOf(segment)
          BY <4>1, <4>3, <1>5, <2>8
        <4> QED
          BY <4>1, <4>2, <4>4, <1>3, <1>4, Zenon DEF Remembered
      <3>2. CASE queue'[i].skip = skip /\ RowsOf(queue'[i]) \subseteq RowsOf(segment)
        BY <3>2, <2>8, <1>3, <1>6
      <3> QED
        BY <3>1, <3>2, <2>4
    <2>9. Remembered'
      BY <2>1, <2>8, <1>2, <1>8, <1>9, Zenon DEF Remembered
    <2> QED
      BY <2>4, <2>5, <2>7, <2>9, <1>3 DEF IsoInv
  <1> QED
    BY <1>11, <1>12, <1>13

(* Every step keeps the invariant. *)
LEMMA StepIso == IsoInv /\ [Next]_vars => IsoInv'
  <1> SUFFICES ASSUME IsoInv, [Next]_vars PROVE IsoInv'
    OBVIOUS
  <1>1. CASE SplitKnownBad
    BY <1>1, SplitKnownBadKeeps
  <1>2. CASE GiveUp
    BY <1>2, GiveUpKeeps
  <1>3. CASE AttemptOk
    BY <1>3, AttemptOkKeeps
  <1>4. CASE AttemptFails
    BY <1>4, AttemptFailsKeeps
  <1>5. CASE Return
    BY <1>5, ReturnKeeps
  <1>6. CASE UNCHANGED vars
    <2>1. UNCHANGED <<n, bad, blips, queue, delivered, poisoned, attempts, successes,
                      verdict, written, again>>
      BY <1>6 DEF vars, fault
    <2>2. TypeOK'
      BY <2>1 DEF IsoInv, TypeOK
    <2>3. SetAside' = SetAside /\ Waiting' = Waiting /\ (Apart <=> Apart')
      BY <2>1, Zenon DEF SetAside, Waiting, Apart
    <2>4. Placed <=> Placed'
      BY <2>1, <2>3, Zenon DEF Placed
    <2>5. Remembered <=> Remembered'
      BY <2>1, Zenon DEF Remembered, Held
    <2> QED
      BY <2>1, <2>2, <2>3, <2>4, <2>5, Zenon DEF IsoInv
  <1> QED
    BY <1>1, <1>2, <1>3, <1>4, <1>5, <1>6 DEF Next

(* However large the batch, however many targets, refusals, momentary failures
   and whatever the limits: the types hold, each row is in one place, what is
   remembered of it is what the targets hold, and nothing is committed twice. *)
THEOREM IsolationInvariant == Spec => []IsoInv
  BY InitIso, StepIso, PTL DEF Spec

(* isolateFailures never drops a row between two halves, never has it in both,
   and never both delivers it and sets it aside. *)
THEOREM RowsPartitioned == Spec => []EachRowOnce
  <1>1. IsoInv => EachRowOnce
    BY DEF IsoInv, Apart, Placed, EachRowOnce
  <1> QED
    BY <1>1, IsolationInvariant, PTL

(* The skip sets and succeededTargets name exactly the targets that hold the
   row, so no target is ever given a row twice, and a delivered row is at all. *)
THEOREM TargetsRemembered == Spec => []HeldExactly
  <1>1. IsoInv => HeldExactly
    BY Zenon DEF IsoInv, Remembered, Held, HeldExactly
  <1> QED
    BY <1>1, IsolationInvariant, PTL

(* the rows set aside that no target refuses *)
Innocents == {r \in SetAside : Refusing({r}) = {}}

(* one for each momentary failure at most *)
SparedInv == n > 1 => Cardinality(Innocents) <= Blips - blips

(* There are finitely many. *)
LEMMA InnocentsFinite ==
  ASSUME TypeOK
  PROVE  IsFiniteSet(Innocents) /\ Cardinality(Innocents) \in Nat
  <1>1. SetAside \subseteq Rows
    BY DEF TypeOK, SetAside
  <1>2. IsFiniteSet(Rows)
    BY IsolationAssumption, FS_Interval DEF Rows
  <1>3. Innocents \subseteq Rows
    BY <1>1 DEF Innocents
  <1>4. IsFiniteSet(Innocents)
    BY <1>2, <1>3, FS_Subset
  <1> QED
    BY <1>4, FS_CardinalityType

(* A row that no target refuses is set aside only by a failure that spends one
   of the momentary failures. *)
LEMMA StepSpared ==
  ASSUME IsoInv, SparedInv, [Next]_vars
  PROVE  SparedInv'
  <1>1. TypeOK
    BY DEF IsoInv
  <1>2. IsFiniteSet(Innocents) /\ Cardinality(Innocents) \in Nat /\ blips \in 0 .. Blips
    BY <1>1, InnocentsFinite DEF TypeOK
  <1>3. ASSUME UNCHANGED <<n, bad, poisoned>>, blips' \in 0 .. Blips, blips' <= blips
        PROVE  SparedInv'
    <2>1. Innocents' = Innocents
      BY <1>3, Zenon DEF Innocents, SetAside, Refusing
    <2> QED
      BY <2>1, <1>2, <1>3, IsolationAssumption DEF SparedInv
  <1>4. CASE SplitKnownBad \/ GiveUp \/ Return \/ UNCHANGED vars
    <2>1. UNCHANGED <<n, bad, poisoned, blips>>
      BY <1>4 DEF SplitKnownBad, GiveUp, Return, vars, fault
    <2> QED
      BY <2>1, <1>2, <1>3
  <1>5. ASSUME NEW F, Delivery(F)
        PROVE  /\ blips' \in 0 .. Blips /\ blips' <= blips
               /\ F # Refusing(RowsOf(segment)) \cap (Targets \ segment.skip)
                    => blips' = blips - 1
    BY <1>2, <1>5, IsolationAssumption DEF Delivery
  <1>6. CASE AttemptOk
    BY <1>3, <1>5, <1>6 DEF AttemptOk, fault
  <1>7. CASE AttemptFails
    <2>1. PICK F \in (SUBSET Targets) \ {{}} :
            /\ Delivery(F)
            /\ \/ UNCHANGED poisoned
               \/ /\ segment.lo = segment.hi
                  /\ poisoned' =
                       poisoned \cup {[row |-> segment.lo, targets |-> SkipAfter(F)]}
            /\ UNCHANGED <<n, bad>>
      BY <1>7 DEF AttemptFails, fault
    <2>2. CASE UNCHANGED poisoned
      BY <2>1, <2>2, <1>3, <1>5
    <2>3. CASE /\ segment.lo = segment.hi
               /\ poisoned' = poisoned \cup {[row |-> segment.lo, targets |-> SkipAfter(F)]}
      <3>1. SetAside' = SetAside \cup {segment.lo}
        <4>1. PICK w : w = [row |-> segment.lo, targets |-> SkipAfter(F)]
          OBVIOUS
        <4>2. poisoned' = poisoned \cup {w} /\ w.row = segment.lo
          BY <4>1, <2>3
        <4> QED
          BY <4>2 DEF SetAside
      <3>2. \A r : Refusing({r})' = Refusing({r})
        BY <2>1 DEF Refusing
      <3>3. CASE Refusing({segment.lo}) # {}
        <4>1. Innocents' = Innocents
          BY <3>1, <3>2, <3>3 DEF Innocents
        <4> QED
          BY <4>1, <2>1, <1>2, <1>5, IsolationAssumption DEF SparedInv
      <3>4. CASE Refusing({segment.lo}) = {}
        <4>1. Innocents' = Innocents \cup {segment.lo}
          BY <3>1, <3>2, <3>4 DEF Innocents
        <4>2. RowsOf(segment) = {segment.lo}
          <5>1. queue # <<>>
            BY <2>1 DEF Delivery, searching
          <5>2. segment.lo \in Rows
            BY <5>1, <1>1, QueueFacts
          <5> QED
            BY <5>2, <2>3, IsolationAssumption DEF RowsOf, Rows
        <4>3. blips' = blips - 1
          <5>0. Refusing(RowsOf(segment)) = {}
            BY <4>2, <3>4, Zenon
          <5>1. Refusing(RowsOf(segment)) \cap (Targets \ segment.skip) = {} /\ F # {}
            BY <5>0
          <5>2. F # Refusing(RowsOf(segment)) \cap (Targets \ segment.skip)
            BY <5>1
          <5> QED
            BY <5>2, <2>1, <1>5
        <4>4. PICK I, x : I = Innocents /\ x = segment.lo
          OBVIOUS
        <4>5. IsFiniteSet(I)
          BY <4>4, <1>2
        <4>6. Cardinality(I \cup {x}) = IF x \in I THEN Cardinality(I) ELSE Cardinality(I) + 1
          BY <4>5, FS_AddElement
        <4>7. Cardinality(Innocents') <= Cardinality(Innocents) + 1
              /\ Cardinality(Innocents') \in Nat
          BY <4>1, <4>4, <4>6, <1>2
        <4> QED
          BY <4>3, <4>7, <2>1, <1>2, IsolationAssumption DEF SparedInv
      <3> QED
        BY <3>3, <3>4
    <2> QED
      BY <2>1, <2>2, <2>3
  <1> QED
    BY <1>4, <1>6, <1>7 DEF Next

(* Nothing has been set aside when the search begins. *)
LEMMA InitSpared == Init => SparedInv
  <1> SUFFICES ASSUME Init, n > 1 PROVE Cardinality(Innocents) <= Blips - blips
    BY DEF SparedInv
  <1>1. poisoned = {} /\ blips = Blips
    BY DEF Init
  <1>2. Innocents = {}
    BY <1>1 DEF Innocents, SetAside
  <1> QED
    BY <1>1, <1>2, FS_EmptySet, IsolationAssumption

(* A row no target refuses is only set aside when a momentary failure hit it on
   its own: at most one row for each such failure, in batches of any size. *)
THEOREM InnocentRowsSpared == Spec => []InnocentSpared
  <1>1. SparedInv => InnocentSpared
    BY DEF SparedInv, Innocents, InnocentSpared
  <1>2. IsoInv /\ SparedInv /\ [Next]_vars => SparedInv'
    BY StepSpared
  <1> QED
    BY <1>1, <1>2, InitSpared, IsolationInvariant, PTL DEF Spec

-----------------------------------------------------------------------------
(* a single row at fault: how many attempts the search takes *)

(* The defining equations of the powers of two, which the prover does not expand. *)
Powers == 2 ^ 0 = 1 /\ \A k \in Nat : 2 ^ k \in Nat /\ 2 ^ (k + 1) = 2 * 2 ^ k

(* The limits leave room for one row: two attempts for every halving of the
   largest batch, and a first failure is not yet a broken destination. *)
Roomy ==
  /\ MaxPoisoned >= 1 /\ FailuresBeforeSystemic >= 2
  /\ \E k \in Nat : MaxRows <= 2 ^ k /\ 2 * k <= MaxAttempts

(* After a attempts on a batch of m rows there is room to search w rows by halves,
   and for c more attempts. *)
Fits(m, a, w, c) ==
  \A k \in Nat : m <= 2 ^ k => \E j \in Nat : w <= 2 ^ j /\ a + 2 * j + c <= 2 * k

(* There is room for the first search. *)
LEMMA FitsAll == ASSUME NEW m \in Nat PROVE Fits(m, 0, m, 0)
  <1> SUFFICES ASSUME NEW k \in Nat, m <= 2 ^ k
               PROVE  \E j \in Nat : m <= 2 ^ j /\ 0 + 2 * j + 0 <= 2 * k
    BY DEF Fits
  <1>1. 0 + 2 * k + 0 <= 2 * k
    OBVIOUS
  <1> QED
    BY <1>1

(* What fits leaves room for less. *)
LEMMA FitsLess ==
  ASSUME NEW m \in Nat, NEW a \in Nat, NEW w \in Nat, NEW c \in Nat,
         NEW d \in Nat, NEW e \in Nat, d + e <= a + c, Fits(m, a, w, c)
  PROVE  Fits(m, d, w, e)
  <1> SUFFICES ASSUME NEW k \in Nat, m <= 2 ^ k
               PROVE  \E j \in Nat : w <= 2 ^ j /\ d + 2 * j + e <= 2 * k
    BY DEF Fits
  <1>1. PICK j \in Nat : w <= 2 ^ j /\ a + 2 * j + c <= 2 * k
    BY DEF Fits
  <1>2. d + 2 * j + e <= 2 * k
    BY <1>1
  <1> QED
    BY <1>1, <1>2

(* A half needs two attempts less than the whole. *)
LEMMA FitsHalf ==
  ASSUME Powers, NEW m \in Nat, NEW a \in Nat, NEW w \in Nat, NEW c \in Nat,
         w >= 2, NEW v \in Nat, 2 * v <= w + 1, Fits(m, a, w, c)
  PROVE  Fits(m, a, v, c + 2)
  <1> SUFFICES ASSUME NEW k \in Nat, m <= 2 ^ k
               PROVE  \E j \in Nat : v <= 2 ^ j /\ a + 2 * j + (c + 2) <= 2 * k
    BY DEF Fits
  <1>1. PICK j \in Nat : w <= 2 ^ j /\ a + 2 * j + c <= 2 * k
    BY DEF Fits
  <1>2. j # 0
    <2>1. j = 0 => 2 ^ j = 1
      BY Zenon DEF Powers
    <2> QED
      BY <1>1, <2>1
  <1>3. PICK i \in Nat : j = i + 1
    <2>1. j - 1 \in Nat /\ j = (j - 1) + 1
      BY <1>2
    <2> QED
      BY <2>1
  <1>4. PICK p \in Nat : p = 2 ^ i
    BY DEF Powers
  <1>5. 2 ^ j = 2 * p
    BY <1>3, <1>4 DEF Powers
  <1>6. v <= p
    BY <1>1, <1>5
  <1>7. a + 2 * i + (c + 2) <= 2 * k
    BY <1>1, <1>3
  <1> QED
    BY <1>4, <1>6, <1>7

(* Whatever fits, a single row does. *)
LEMMA FitsOne ==
  ASSUME Powers, NEW m \in Nat, NEW a \in Nat, NEW w \in Nat, NEW c \in Nat, Fits(m, a, w, c)
  PROVE  Fits(m, a, 1, c)
  <1> SUFFICES ASSUME NEW k \in Nat, m <= 2 ^ k
               PROVE  \E j \in Nat : 1 <= 2 ^ j /\ a + 2 * j + c <= 2 * k
    BY DEF Fits
  <1>1. PICK j \in Nat : w <= 2 ^ j /\ a + 2 * j + c <= 2 * k
    BY DEF Fits
  <1>2. 0 \in Nat /\ 1 <= 2 ^ 0 /\ a + 2 * 0 + c <= 2 * k
    BY <1>1 DEF Powers
  <1> QED
    BY <1>2

(* An attempt that fits is within the limit. *)
LEMMA FitsLimit ==
  ASSUME Powers, Roomy, NEW m \in Nat, m <= MaxRows, NEW a \in Nat, NEW w \in Nat, NEW c \in Nat, c >= 1,
         Fits(m, a, w, c)
  PROVE  a < MaxAttempts
  <1>1. PICK k \in Nat : MaxRows <= 2 ^ k /\ 2 * k <= MaxAttempts
    BY DEF Roomy
  <1>2. m <= 2 ^ k
    BY <1>1, IsolationAssumption DEF Powers
  <1>3. PICK j \in Nat : a + 2 * j + c <= 2 * k
    BY <1>2 DEF Fits
  <1> QED
    BY <1>1, <1>3, IsolationAssumption

(* row b is the only one a target refuses *)
Lone(b) == b \in 1 .. n /\ \A r \in 1 .. n : Refusing({r}) # {} <=> r = b

(* the number of rows of a segment *)
Size(s) == s.hi - s.lo + 1

(* no target that refuses b is skipped for s, and there is room to search s and
   for c more attempts *)
Suspect(b, s, c) == s.skip \cap Refusing({b}) = {} /\ Fits(n, attempts, Size(s), c)

(* s and t are the halves of a segment that held b, and nothing is known of either *)
HalvesOf(b, s, t, c) ==
  /\ t.lo = s.hi + 1 /\ b \in s.lo .. t.hi
  /\ s.sibling = RowsOf(t) /\ t.sibling = RowsOf(s)
  /\ ~s.knownBad /\ ~t.knownBad /\ Suspect(b, s, c) /\ Suspect(b, t, c)

(* the first segment is a half without b that waits for its attempt *)
Clean(b) == b \notin RowsOf(queue[1]) /\ ~queue[1].knownBad

(* nothing is left to try *)
Empty == queue = <<>> /\ Fits(n, attempts, 1, 0)
(* b has been set aside, and the row beside it is still to be tried *)
Last(b) == Len(queue) = 1 /\ Clean(b) /\ Fits(n, attempts, 1, 1)
(* the other half has succeeded *)
Known(b) ==
  /\ Len(queue) = 1 /\ b \in RowsOf(queue[1]) /\ queue[1].knownBad
  /\ Suspect(b, queue[1], 1) /\ successes # 0 /\ poisoned = {}
(* both halves are still to be tried *)
Pair(b) ==
  /\ Len(queue) = 2 /\ HalvesOf(b, queue[1], queue[2], 2)
  /\ successes = 0 => attempts = 0
  /\ poisoned = {}
(* the half with b has failed and is split, the other one is still to be tried *)
Behind(b) ==
  /\ Len(queue) = 3 /\ Clean(b) /\ HalvesOf(b, queue[2], queue[3], 3) /\ poisoned = {}
  /\ queue[1].sibling # RowsOf(queue[2]) /\ queue[1].sibling # RowsOf(queue[3])

(* how the search for a lone row stands *)
Standing(b) == Empty \/ Last(b) \/ Known(b) \/ Pair(b) \/ Behind(b)

(* while no momentary failure disturbs it *)
LoneInv ==
  \A b : Lone(b) /\ blips = Blips => verdict # "systemic" /\ Standing(b)

(* The sizes of the segments. *)
LEMMA SizeFacts ==
  ASSUME TypeOK
  PROVE  /\ n \in Nat \ {0} /\ n <= MaxRows /\ attempts \in Nat /\ blips \in 0 .. Blips
         /\ \A i \in 1 .. Len(queue) :
              /\ queue[i].lo \in Nat /\ queue[i].hi \in Nat /\ queue[i].lo <= queue[i].hi
              /\ Size(queue[i]) \in Nat /\ queue[i].skip \in SUBSET Targets
  <1>1. n \in Nat \ {0} /\ n <= MaxRows /\ attempts \in Nat /\ blips \in 0 .. Blips
    BY IsolationAssumption DEF TypeOK, Rows
  <1>2. ASSUME NEW i \in 1 .. Len(queue)
        PROVE  /\ queue[i].lo \in Nat /\ queue[i].hi \in Nat /\ queue[i].lo <= queue[i].hi
               /\ Size(queue[i]) \in Nat /\ queue[i].skip \in SUBSET Targets
    <2>1. queue \in Seq(Segment) /\ \A j \in DOMAIN queue : queue[j].lo <= queue[j].hi
      BY DEF TypeOK
    <2>2. i \in DOMAIN queue /\ queue[i] \in Segment
      BY <2>1, <1>2
    <2>3. queue[i].lo \in Rows /\ queue[i].hi \in Rows /\ queue[i].skip \in SUBSET Targets
      BY <2>2 DEF Segment
    <2> QED
      BY <2>1, <2>2, <2>3, IsolationAssumption DEF Rows, Size
  <1> QED
    BY <1>1, <1>2

(* A delivery of a segment fails exactly at what refuses b, if b is in it. *)
LEMMA LoneDelivery ==
  ASSUME IsoInv, NEW b, Lone(b), blips = Blips, blips' = Blips, NEW F, Delivery(F)
  PROVE  /\ b \notin RowsOf(segment) => F = {}
         /\ b \in RowsOf(segment) /\ segment.skip \cap Refusing({b}) = {} =>
              F # {} /\ SkipAfter(F) \cap Refusing({b}) = {}
  <1>1. verdict = "searching" /\ queue # <<>> /\ F \subseteq Targets \ segment.skip
    BY DeliveryHeld
  <1>2. TypeOK /\ Placed
    BY <1>1 DEF IsoInv
  <1>3. F = Refusing(RowsOf(segment)) \cap (Targets \ segment.skip)
    BY <1>2, IsolationAssumption DEF Delivery
  <1>4. RowsOf(segment) \subseteq 1 .. n
    <2>1. segment = queue[1] /\ 1 \in DOMAIN queue
      BY <1>1, <1>2, QueueFacts
    <2>2. RowsOf(segment) \subseteq Waiting
      BY <2>1, Zenon DEF Waiting
    <2> QED
      BY <2>2, <1>2 DEF Placed
  <1>5. ASSUME b \notin RowsOf(segment) PROVE F = {}
    <2>1. \A r \in RowsOf(segment) : Refusing({r}) = {}
      BY <1>4, <1>5 DEF Lone
    <2>2. Refusing(RowsOf(segment)) = {}
      BY <2>1 DEF Refusing
    <2> QED
      BY <1>3, <2>2
  <1>6. ASSUME b \in RowsOf(segment), segment.skip \cap Refusing({b}) = {}
        PROVE  F # {} /\ SkipAfter(F) \cap Refusing({b}) = {}
    <2>1. Refusing({b}) # {} /\ Refusing({b}) \subseteq Targets
      BY DEF Lone, Refusing
    <2>2. Refusing({b}) \subseteq Refusing(RowsOf(segment))
      BY <1>6 DEF Refusing
    <2>3. Refusing({b}) \subseteq F
      BY <1>3, <1>6, <2>1, <2>2
    <2> QED
      BY <1>6, <2>1, <2>3 DEF SkipAfter
  <1> QED
    BY <1>5, <1>6

(* The halves of a segment that holds b. *)
LEMMA HalvedSuspect ==
  ASSUME Powers, TypeOK, NEW L \in Nat \ {0}, L = Len(queue), NEW skip \in SUBSET Targets,
         HalvedTo(skip), NEW b \in RowsOf(segment), skip \cap Refusing({b}) = {},
         n' = n, bad' = bad, attempts' \in Nat,
         NEW c \in Nat, Fits(n, attempts', Size(segment), c)
  PROVE  HalvesOf(b, queue[L], queue[L + 1], c + 2)'
  <1>1. PICK mid \in Rows :
       /\ segment.lo <= mid /\ mid < segment.hi
       /\ 2 * (mid - segment.lo) <= segment.hi - segment.lo
       /\ 2 * (segment.hi - mid) <= segment.hi - segment.lo + 1
       /\ queue'[L] =
            [lo |-> segment.lo, hi |-> mid, skip |-> skip,
             sibling |-> mid + 1 .. segment.hi, knownBad |-> FALSE]
       /\ queue'[L + 1] =
            [lo |-> mid + 1, hi |-> segment.hi, skip |-> skip,
             sibling |-> segment.lo .. mid, knownBad |-> FALSE]
    BY DEF HalvedTo
  <1>2. PICK lo, hi, m, a : lo = segment.lo /\ hi = segment.hi /\ m = n /\ a = attempts'
    OBVIOUS
  <1>3. queue # <<>>
    BY DEF TypeOK
  <1>4. lo \in Nat /\ hi \in Nat /\ m \in Nat /\ a \in Nat /\ mid \in Nat /\ lo <= mid /\ mid < hi
    <2>1. segment = queue[1] /\ 1 \in 1 .. Len(queue)
      BY <1>3, QueueFacts
    <2> QED
      BY <1>1, <1>2, <2>1, SizeFacts, IsolationAssumption DEF Rows
  <1>5. PICK v, w, u :
          v = mid - lo + 1 /\ w = hi - mid /\ u = hi - lo + 1
    OBVIOUS
  <1>6. /\ v \in Nat /\ w \in Nat /\ u \in Nat /\ u >= 2
        /\ 2 * v <= u + 1 /\ 2 * w <= u + 1
    <2>1. 2 * (mid - lo) <= hi - lo /\ 2 * (hi - mid) <= hi - lo + 1
      BY <1>1, <1>2, Zenon
    <2> QED
      BY <2>1, <1>4, <1>5
  <1>7. Fits(m, a, u, c)
    BY <1>2, <1>5 DEF Size
  <1>8. Fits(m, a, v, c + 2) /\ Fits(m, a, w, c + 2)
    BY <1>4, <1>6, <1>7, FitsHalf
  <1>9. /\ queue'[L].lo = lo /\ queue'[L].hi = mid /\ queue'[L].skip = skip
        /\ queue'[L].sibling = mid + 1 .. hi /\ ~queue'[L].knownBad
        /\ queue'[L + 1].lo = mid + 1 /\ queue'[L + 1].hi = hi /\ queue'[L + 1].skip = skip
        /\ queue'[L + 1].sibling = lo .. mid /\ ~queue'[L + 1].knownBad
    BY <1>1, <1>2
  <1>10. Size(queue[L])' = v /\ Size(queue[L + 1])' = w
    BY <1>4, <1>5, <1>9 DEF Size
  <1>11. Refusing({b})' = Refusing({b})
    BY DEF Refusing
  <1>12. Suspect(b, queue[L], c + 2)' /\ Suspect(b, queue[L + 1], c + 2)'
    BY <1>2, <1>8, <1>9, <1>10, <1>11, Zenon DEF Suspect
  <1>13. b \in lo .. hi
    BY <1>2 DEF RowsOf
  <1> QED
    BY <1>9, <1>12, <1>13 DEF HalvesOf, RowsOf

(* The search begins with the halves of the batch, or with nothing to try. *)
LEMMA InitLone == ASSUME Powers, Init PROVE LoneInv
  <1> SUFFICES ASSUME NEW b, Lone(b)
               PROVE  verdict # "systemic" /\ Standing(b)
    BY DEF LoneInv
  <1>1. PICK F \in (SUBSET Targets) \ {{}} :
       /\ Refusing(1 .. n) \subseteq F
       /\ queue = IF n = 1 THEN <<>> ELSE Split(1, n, Targets \ F)
       /\ poisoned = IF n = 1 THEN {[row |-> 1, targets |-> Targets \ F]} ELSE {}
    BY DEF Init
  <1>2. n \in Rows /\ n \in Nat \ {0} /\ attempts = 0 /\ successes = 0 /\ verdict = "searching"
    BY IsolationAssumption DEF Init, Rows
  <1>3. Fits(n, 0, n, 0)
    BY <1>2, FitsAll
  <1>4. CASE n = 1
    BY <1>1, <1>2, <1>3, <1>4 DEF Standing, Empty
  <1>5. CASE n # 1
    <2>1. 1 \in Rows /\ 1 < n /\ Targets \ F \in SUBSET Targets
      BY <1>2, <1>5, IsolationAssumption DEF Rows
    <2>2. PICK mid \in Rows :
           /\ 1 <= mid /\ mid < n
           /\ 2 * (mid - 1) <= n - 1 /\ 2 * (n - mid) <= n - 1 + 1
           /\ Split(1, n, Targets \ F) =
                << [lo |-> 1, hi |-> mid, skip |-> Targets \ F, sibling |-> mid + 1 .. n,
                    knownBad |-> FALSE],
                   [lo |-> mid + 1, hi |-> n, skip |-> Targets \ F, sibling |-> 1 .. mid,
                    knownBad |-> FALSE] >>
      BY <2>1, <1>2, SplitHalves
    <2>3. /\ Len(queue) = 2 /\ poisoned = {}
          /\ queue[1].lo = 1 /\ queue[1].hi = mid /\ queue[1].skip = Targets \ F
          /\ queue[1].sibling = mid + 1 .. n /\ ~queue[1].knownBad
          /\ queue[2].lo = mid + 1 /\ queue[2].hi = n /\ queue[2].skip = Targets \ F
          /\ queue[2].sibling = 1 .. mid /\ ~queue[2].knownBad
      <3>1. queue =
                << [lo |-> 1, hi |-> mid, skip |-> Targets \ F, sibling |-> mid + 1 .. n,
                    knownBad |-> FALSE],
                   [lo |-> mid + 1, hi |-> n, skip |-> Targets \ F, sibling |-> 1 .. mid,
                    knownBad |-> FALSE] >>
        BY <2>2, <1>1, <1>5, Zenon
      <3>2. poisoned = {}
        BY <1>1, <1>5
      <3> QED
        BY <3>1, <3>2
    <2>4. mid \in Nat /\ n >= 2
      BY <2>1, <2>2, <1>2, IsolationAssumption DEF Rows
    <2>5. Fits(n, 0, mid, 2) /\ Fits(n, 0, n - mid, 2)
      <3>1. PICK v, w : v = mid /\ w = n - mid
        OBVIOUS
      <3>2. v \in Nat /\ w \in Nat /\ 2 * v <= n + 1 /\ 2 * w <= n + 1
        BY <3>1, <2>2, <2>4, <1>2
      <3>3. Fits(n, 0, v, 0 + 2) /\ Fits(n, 0, w, 0 + 2)
        BY <3>2, <2>4, <1>2, <1>3, FitsHalf
      <3> QED
        BY <3>1, <3>3
    <2>6. Size(queue[1]) = mid /\ Size(queue[2]) = n - mid
      BY <2>3, <2>4, <1>2 DEF Size
    <2>7. (Targets \ F) \cap Refusing({b}) = {}
      <3>1. Refusing({b}) \subseteq Refusing(1 .. n)
        BY DEF Refusing, Lone
      <3> QED
        BY <3>1, <1>1
    <2>8. Suspect(b, queue[1], 2) /\ Suspect(b, queue[2], 2)
      BY <2>3, <2>5, <2>6, <2>7, <1>2 DEF Suspect
    <2>9. HalvesOf(b, queue[1], queue[2], 2)
      BY <2>3, <2>8 DEF HalvesOf, RowsOf, Lone
    <2> QED
      BY <2>3, <2>9, <1>2 DEF Standing, Pair
  <1> QED
    BY <1>4, <1>5

(* What a step that is not disturbed starts from. *)
Searching(b) ==
  /\ Powers /\ Roomy /\ IsoInv /\ Lone(b) /\ blips = Blips /\ blips' = Blips
  /\ verdict # "systemic" /\ Standing(b) /\ n' = n /\ bad' = bad

(* There is room for the attempt the search is about to make. *)
LEMMA LoneRoom ==
  ASSUME NEW b, Searching(b), queue # <<>>
  PROVE  attempts < MaxAttempts
  <1>1. TypeOK
    BY DEF Searching, IsoInv
  <1>2. PICK m, a : m = n /\ a = attempts
    OBVIOUS
  <1>3. m \in Nat /\ m <= MaxRows /\ a \in Nat
    BY <1>1, <1>2, SizeFacts
  <1>4. PICK L : L = Len(queue)
    OBVIOUS
  <1>5. ASSUME NEW i \in 1 .. Len(queue), NEW c \in Nat, c >= 1, Suspect(b, queue[i], c)
        PROVE  a < MaxAttempts
    <2>1. PICK w \in Nat : w = Size(queue[i])
      BY <1>1, <1>5, SizeFacts
    <2>2. Fits(m, a, w, c)
      BY <1>2, <1>5, <2>1 DEF Suspect
    <2> QED
      BY <1>3, <1>5, <2>2, FitsLimit DEF Searching
  <1>6. CASE Last(b)
    <2>1. Fits(m, a, 1, 1)
      BY <1>2, <1>6 DEF Last
    <2> QED
      BY <1>2, <1>3, <2>1, FitsLimit DEF Searching
  <1>7. CASE Known(b)
    BY <1>2, <1>5, <1>7 DEF Known
  <1>8. CASE Pair(b)
    BY <1>2, <1>5, <1>8 DEF Pair, HalvesOf
  <1>9. CASE Behind(b)
    BY <1>2, <1>5, <1>9 DEF Behind, HalvesOf
  <1> QED
    BY <1>6, <1>7, <1>8, <1>9 DEF Searching, Standing, Empty

(* Splitting the half that is known to hold the row. *)
LEMMA LoneSplit ==
  ASSUME NEW b, Searching(b), SplitKnownBad
  PROVE  verdict' # "systemic" /\ Standing(b)'
  <1>1. /\ verdict' = verdict /\ attempts' = attempts /\ successes' = successes /\ poisoned' = poisoned
        /\ queue # <<>> /\ segment.knownBad /\ segment.lo < segment.hi
        /\ queue' = Tail(queue) \o Split(segment.lo, segment.hi, segment.skip)
    BY DEF SplitKnownBad, searching, CanSkipAttempt
  <1>2. TypeOK /\ segment = queue[1]
    BY <1>1, QueueFacts DEF Searching, IsoInv
  <1>3. Known(b)
    BY <1>1, <1>2 DEF Searching, Standing, Empty, Last, Clean, Pair, HalvesOf, Behind
  <1>4. PICK skip \in SUBSET Targets : skip = segment.skip
    BY <1>1, <1>2, QueueFacts
  <1>5. HalvedTo(skip)
    BY <1>1, <1>2, <1>4, Halved
  <1>6. /\ b \in RowsOf(segment) /\ skip \cap Refusing({b}) = {}
        /\ Fits(n, attempts, Size(segment), 1) /\ Len(queue) = 1
    BY <1>2, <1>3, <1>4 DEF Known, Suspect
  <1>7. n \in Nat /\ attempts \in Nat /\ Size(segment) \in Nat
    BY <1>2, <1>6, SizeFacts
  <1>8. Fits(n, attempts', Size(segment), 0)
    BY <1>1, <1>6, <1>7, FitsLess
  <1>9. PICK L, c : L = 1 /\ c = 0
    OBVIOUS
  <1>10. HalvesOf(b, queue[1], queue[2], 2)'
    <2>1. /\ L \in Nat \ {0} /\ L = Len(queue) /\ c \in Nat /\ attempts' \in Nat
          /\ Fits(n, attempts', Size(segment), c)
      BY <1>1, <1>6, <1>7, <1>8, <1>9
    <2>2. HalvesOf(b, queue[L], queue[L + 1], c + 2)'
      BY <1>2, <1>5, <1>6, <2>1, HalvedSuspect, Zenon DEF Searching
    <2>3. queue'[L] = queue'[1] /\ queue'[L + 1] = queue'[2] /\ c + 2 = 2
      BY <1>9
    <2>4. (/\ queue[2].lo = queue[1].hi + 1 /\ b \in queue[1].lo .. queue[2].hi
           /\ queue[1].sibling = RowsOf(queue[2]) /\ queue[2].sibling = RowsOf(queue[1])
           /\ ~queue[1].knownBad /\ ~queue[2].knownBad)'
      BY <2>2, <2>3, Zenon DEF HalvesOf
    <2>5. (Suspect(b, queue[1], 2) /\ Suspect(b, queue[2], 2))'
      BY <2>2, <2>3, Zenon DEF HalvesOf, Suspect
    <2> QED
      BY <2>4, <2>5, Zenon DEF HalvesOf
  <1>11. Len(queue') = 2
    BY <1>5, <1>6 DEF HalvedTo
  <1> QED
    BY <1>1, <1>3, <1>10, <1>11 DEF Searching, Standing, Pair, Known

(* A delivery that succeeds: of a half without the row. *)
LEMMA LoneOk ==
  ASSUME NEW b, Searching(b), AttemptOk
  PROVE  verdict' # "systemic" /\ Standing(b)'
  <1>1. /\ Delivery({}) /\ verdict' = verdict /\ successes' = successes + 1 /\ poisoned' = poisoned
    BY DEF AttemptOk
  <1>2. IsoInv /\ TypeOK /\ queue # <<>> /\ attempts \in Nat /\ attempts' = attempts + 1
    BY <1>1, DeliveryHeld DEF Searching, IsoInv
  <1>3. ~(b \in RowsOf(segment) /\ segment.skip \cap Refusing({b}) = {})
    BY <1>1, <1>2, LoneDelivery DEF Searching
  <1>4. segment = queue[1] /\ Len(queue) \in Nat \ {0}
    BY <1>2, QueueFacts
  <1>5. /\ queue' \in Seq(Segment) /\ Len(queue') = Len(queue) - 1
        /\ \A i \in 1 .. Len(queue) - 1 :
             /\ queue'[i].lo = queue[i + 1].lo /\ queue'[i].hi = queue[i + 1].hi
             /\ queue'[i].skip = queue[i + 1].skip
             /\ queue'[i].sibling = queue[i + 1].sibling
             /\ queue'[i].knownBad <=>
                  queue[i + 1].knownBad \/ RowsOf(queue[i + 1]) = segment.sibling
    BY <1>2, MarkedDropped DEF AttemptOk, DroppedTo
  <1>6. successes' # 0
    BY <1>1, <1>2 DEF TypeOK
  <1>7. Refusing({b})' = Refusing({b}) /\ n' = n
    BY DEF Refusing, Searching
  <1>8. ASSUME NEW i \in 1 .. Len(queue) - 1, NEW c \in Nat, Suspect(b, queue[i + 1], c + 1)
        PROVE  Suspect(b, queue[i], c)'
    <2>1. PICK w, a, m : w = Size(queue[i + 1]) /\ a = attempts /\ m = n
      OBVIOUS
    <2>2. w \in Nat /\ a \in Nat /\ m \in Nat
      <3>1. i + 1 \in 1 .. Len(queue)
        BY <1>4, <1>8
      <3> QED
        BY <3>1, <1>2, <2>1, SizeFacts
    <2>3. Fits(m, a, w, c + 1)
      BY <1>8, <2>1 DEF Suspect
    <2>4. Fits(m, a + 1, w, c)
      <3>1. a + 1 \in Nat /\ c + 1 \in Nat /\ (a + 1) + c <= a + (c + 1)
        BY <2>2
      <3> QED
        BY <2>2, <2>3, <3>1, FitsLess, Zenon
    <2>5. Size(queue[i])' = w
      BY <1>5, <2>1 DEF Size
    <2> QED
      BY <1>2, <1>5, <1>7, <1>8, <2>1, <2>4, <2>5 DEF Suspect
  <1>9. ASSUME NEW i \in 1 .. Len(queue) - 1
        PROVE  RowsOf(queue[i])' = RowsOf(queue[i + 1])
    BY <1>5 DEF RowsOf
  <1>10. CASE Last(b)
    <2>1. Len(queue') = 0
      BY <1>5, <1>10 DEF Last
    <2>2. queue' = <<>>
      BY <1>5, <2>1
    <2>3. Fits(n, attempts + 1, 1, 0)
      <3>1. n \in Nat
        BY <1>2, SizeFacts
      <3> QED
        BY <3>1, <1>2, <1>10, FitsLess DEF Last
    <2> QED
      BY <1>1, <1>2, <1>7, <2>2, <2>3 DEF Searching, Standing, Empty
  <1>11. CASE Known(b)
    BY <1>3, <1>4, <1>11 DEF Known, Suspect
  <1>12. CASE Pair(b)
    <2>1. /\ Len(queue) = 2 /\ HalvesOf(b, queue[1], queue[2], 2) /\ poisoned = {}
      BY <1>12 DEF Pair
    <2>2. b \notin RowsOf(queue[1])
      BY <1>3, <1>4, <2>1 DEF HalvesOf, Suspect
    <2>3. b \in RowsOf(queue[2])
      <3>1. queue[1].lo \in Nat /\ queue[1].hi \in Nat /\ queue[2].hi \in Nat
        BY <1>2, <2>1, SizeFacts
      <3> QED
        BY <3>1, <2>1, <2>2 DEF HalvesOf, RowsOf
    <2>4. 1 \in 1 .. Len(queue) - 1 /\ Len(queue') = 1
      BY <1>5, <2>1
    <2>5. queue'[1].knownBad
      BY <1>4, <1>5, <2>1, <2>4 DEF HalvesOf
    <2>6. b \in RowsOf(queue[1])'
      BY <1>9, <2>3, <2>4
    <2>7. Suspect(b, queue[1], 1)'
      BY <1>8, <2>1, <2>4 DEF HalvesOf
    <2> QED
      BY <1>1, <1>6, <2>1, <2>4, <2>5, <2>6, <2>7 DEF Searching, Standing, Known
  <1>13. CASE Behind(b)
    <2>1. /\ Len(queue) = 3 /\ HalvesOf(b, queue[2], queue[3], 3) /\ poisoned = {}
          /\ queue[1].sibling # RowsOf(queue[2]) /\ queue[1].sibling # RowsOf(queue[3])
      BY <1>13 DEF Behind
    <2>2. 1 \in 1 .. Len(queue) - 1 /\ 2 \in 1 .. Len(queue) - 1 /\ Len(queue') = 2
      BY <1>5, <2>1
    <2>3. ~queue'[1].knownBad /\ ~queue'[2].knownBad
      BY <1>4, <1>5, <2>1, <2>2 DEF HalvesOf
    <2>4. Suspect(b, queue[1], 2)' /\ Suspect(b, queue[2], 2)'
      BY <1>8, <2>1, <2>2 DEF HalvesOf
    <2>5. HalvesOf(b, queue[1], queue[2], 2)'
      BY <1>5, <1>9, <2>1, <2>2, <2>3, <2>4 DEF HalvesOf
    <2> QED
      BY <1>1, <1>6, <2>1, <2>2, <2>5 DEF Searching, Standing, Pair
  <1> QED
    BY <1>2, <1>10, <1>11, <1>12, <1>13 DEF Searching, Standing, Empty

(* A delivery that fails: of the half with the row, or of the row itself. *)
LEMMA LoneFails ==
  ASSUME NEW b, Searching(b), AttemptFails
  PROVE  verdict' # "systemic" /\ Standing(b)'
  <1>1. PICK F \in (SUBSET Targets) \ {{}} :
    /\ Delivery(F)
    /\ LET tooLong == successes = 0 /\ attempts + 1 >= FailuresBeforeSystemic
           single == segment.lo = segment.hi
           row == [row |-> segment.lo, targets |-> SkipAfter(F)] IN
         /\ poisoned' = IF ~tooLong /\ single THEN poisoned \cup {row} ELSE poisoned
         /\ queue' = IF tooLong \/ single THEN Tail(queue)
                     ELSE Tail(queue) \o Split(segment.lo, segment.hi, SkipAfter(F))
         /\ verdict' = IF tooLong \/ Cardinality(poisoned') > MaxPoisoned
                         THEN "systemic" ELSE verdict
    /\ successes' = successes
    BY DEF AttemptFails
  <1>2. /\ IsoInv /\ TypeOK /\ queue # <<>> /\ attempts \in Nat /\ attempts' = attempts + 1
        /\ SkipAfter(F) \in SUBSET Targets /\ ~CanSkipAttempt
    BY <1>1, DeliveryHeld DEF Searching, IsoInv, Delivery
  <1>3. segment = queue[1] /\ Len(queue) \in Nat \ {0} /\ segment.lo \in Nat /\ segment.hi \in Nat
        /\ segment.lo <= segment.hi /\ Size(segment) \in Nat /\ n \in Nat
    BY <1>2, QueueFacts, SizeFacts
  <1>4. b \in RowsOf(queue[1])
    BY <1>1, <1>2, <1>3, LoneDelivery DEF Searching
  <1>5. (Known(b) \/ Pair(b)) /\ poisoned = {}
    BY <1>2, <1>4 DEF Searching, Standing, Empty, Last, Clean, Behind, Known, Pair
  <1>6. PICK c \in {1, 2} : /\ Suspect(b, queue[1], c)
                            /\ Known(b) => c = 1
                            /\ Pair(b) => c = 2
    BY <1>5 DEF Known, Pair, HalvesOf
  <1>7. /\ segment.skip \cap Refusing({b}) = {} /\ Fits(n, attempts, Size(segment), c)
        /\ SkipAfter(F) \cap Refusing({b}) = {}
    BY <1>1, <1>2, <1>3, <1>4, <1>6, LoneDelivery DEF Suspect, Searching
  <1>8. ~(successes = 0 /\ attempts + 1 >= FailuresBeforeSystemic)
    BY <1>2, <1>5, IsolationAssumption DEF Known, Pair, Searching, Roomy
  <1>9. Refusing({b})' = Refusing({b}) /\ n' = n
    BY DEF Refusing, Searching
  <1>10. CASE segment.lo = segment.hi
    <2>1. PICK row : row = [row |-> segment.lo, targets |-> SkipAfter(F)]
      OBVIOUS
    <2>2. poisoned' = {row} /\ queue' = Tail(queue)
      BY <1>1, <1>5, <1>8, <1>10, <2>1
    <2>3. Cardinality(poisoned') = 1
      BY <2>2, FS_Singleton
    <2>4. verdict' = verdict
      BY <1>1, <1>8, <2>3, IsolationAssumption DEF Searching, Roomy
    <2>5. Fits(n, attempts, 1, c)
      BY <1>2, <1>3, <1>6, <1>7, FitsOne DEF Searching
    <2>6. /\ queue' \in Seq(Segment) /\ Len(queue') = Len(queue) - 1
          /\ \A i \in 1 .. Len(queue) - 1 : queue'[i] = queue[i + 1]
      <3>1. queue \in Seq(Segment)
        BY <1>2 DEF TypeOK
      <3> QED
        BY <3>1, <1>2, <2>2, HeadTailProperties
    <2>7. CASE Known(b)
      <3>1. queue' = <<>>
        BY <2>6, <2>7 DEF Known
      <3>2. Fits(n, attempts + 1, 1, 0)
        BY <1>2, <1>3, <1>6, <2>5, <2>7, FitsLess
      <3> QED
        BY <1>2, <1>9, <2>4, <3>1, <3>2 DEF Searching, Standing, Empty
    <2>8. CASE Pair(b)
      <3>1. Len(queue) = 2 /\ HalvesOf(b, queue[1], queue[2], 2)
        BY <2>8 DEF Pair
      <3>2. Len(queue') = 1 /\ queue'[1] = queue[2]
        BY <2>6, <3>1
      <3>3. Fits(n, attempts + 1, 1, 1)
        <4>1. Fits(n, attempts, 1, 2)
          BY <1>6, <2>5, <2>8
        <4>2. attempts + 1 \in Nat /\ (attempts + 1) + 1 <= attempts + 2
          BY <1>2
        <4> QED
          BY <1>3, <1>2, <4>1, <4>2, FitsLess
      <3>4. b \notin RowsOf(queue[2]) /\ ~queue[2].knownBad
        BY <1>3, <1>4, <3>1 DEF HalvesOf, RowsOf
      <3>5. Clean(b)'
        BY <3>2, <3>4 DEF Clean, RowsOf
      <3> QED
        BY <1>2, <1>9, <2>4, <3>2, <3>3, <3>5 DEF Searching, Standing, Last
    <2> QED
      BY <1>5, <2>7, <2>8
  <1>11. CASE segment.lo # segment.hi
    <2>1. poisoned' = {} /\ queue' = Tail(queue) \o Split(segment.lo, segment.hi, SkipAfter(F))
      BY <1>1, <1>5, <1>8, <1>11
    <2>2. verdict' = verdict
      <3>1. Cardinality(poisoned') = 0
        BY <2>1, FS_EmptySet
      <3> QED
        BY <3>1, <1>1, <1>8, IsolationAssumption
    <2>3. segment.lo < segment.hi
      BY <1>3, <1>11
    <2>4. Pair(b)
      BY <1>2, <1>3, <1>5, <2>3 DEF CanSkipAttempt, Known
    <2>5. Len(queue) = 2 /\ HalvesOf(b, queue[1], queue[2], 2) /\ c = 2
      BY <1>6, <2>4 DEF Pair
    <2>6. PICK skip \in SUBSET Targets : skip = SkipAfter(F)
      BY <1>2
    <2>7. HalvedTo(skip)
      BY <1>2, <2>1, <2>3, <2>6, Halved
    <2>8. Fits(n, attempts', Size(segment), 1)
      BY <1>2, <1>3, <1>7, <2>5, FitsLess
    <2>9. PICK L, d : L = 2 /\ d = 1
      OBVIOUS
    <2>10. HalvesOf(b, queue[2], queue[3], 3)'
      <3>1. /\ L \in Nat \ {0} /\ L = Len(queue) /\ d \in Nat /\ attempts' \in Nat
            /\ Fits(n, attempts', Size(segment), d) /\ b \in RowsOf(segment)
            /\ skip \cap Refusing({b}) = {}
        <4>1. L \in Nat \ {0} /\ L = Len(queue) /\ d \in Nat /\ attempts' \in Nat
          BY <1>2, <2>5, <2>9
        <4>2. Fits(n, attempts', Size(segment), d)
          BY <2>8, <2>9
        <4>3. b \in RowsOf(segment) /\ skip \cap Refusing({b}) = {}
          BY <1>3, <1>4, <1>7, <2>6
        <4> QED
          BY <4>1, <4>2, <4>3, Zenon
      <3>2. HalvesOf(b, queue[L], queue[L + 1], d + 2)'
        BY <1>2, <2>7, <3>1, HalvedSuspect, Zenon DEF Searching
      <3>3. queue'[L] = queue'[2] /\ queue'[L + 1] = queue'[3] /\ d + 2 = 3
        BY <2>9
      <3>4. (/\ queue[3].lo = queue[2].hi + 1 /\ b \in queue[2].lo .. queue[3].hi
             /\ queue[2].sibling = RowsOf(queue[3]) /\ queue[3].sibling = RowsOf(queue[2])
             /\ ~queue[2].knownBad /\ ~queue[3].knownBad)'
        BY <3>2, <3>3, Zenon DEF HalvesOf
      <3>5. (Suspect(b, queue[2], 3) /\ Suspect(b, queue[3], 3))'
        BY <3>2, <3>3, Zenon DEF HalvesOf, Suspect
      <3> QED
        BY <3>4, <3>5, Zenon DEF HalvesOf
    <2>11. Len(queue') = 3 /\ queue'[1] = queue[2]
      BY <2>5, <2>7 DEF HalvedTo
    <2>12. b \notin RowsOf(queue[2]) /\ ~queue[2].knownBad /\ queue[2].sibling = RowsOf(queue[1])
      BY <1>3, <1>4, <2>5 DEF HalvesOf, RowsOf
    <2>13. Clean(b)'
      BY <2>11, <2>12 DEF Clean, RowsOf
    <2>14. /\ queue'[1].sibling # RowsOf(queue[2])' /\ queue'[1].sibling # RowsOf(queue[3])'
      <3>1. PICK mid \in Rows :
              /\ segment.lo <= mid /\ mid < segment.hi
              /\ queue'[2].lo = segment.lo /\ queue'[2].hi = mid
              /\ queue'[3].lo = mid + 1 /\ queue'[3].hi = segment.hi
        BY <2>5, <2>7 DEF HalvedTo
      <3>2. PICK lo, hi : lo = segment.lo /\ hi = segment.hi
        OBVIOUS
      <3>3. lo \in Nat /\ hi \in Nat /\ mid \in Nat /\ lo <= mid /\ mid < hi
        BY <1>3, <3>1, <3>2, IsolationAssumption DEF Rows
      <3>4. hi \in lo .. hi /\ hi \notin lo .. mid /\ lo \in lo .. hi /\ lo \notin mid + 1 .. hi
        BY <3>3
      <3>5. queue'[1].sibling = lo .. hi
        BY <1>3, <2>11, <2>12, <3>2 DEF RowsOf
      <3>6. RowsOf(queue[2])' = lo .. mid /\ RowsOf(queue[3])' = mid + 1 .. hi
        BY <3>1, <3>2 DEF RowsOf
      <3> QED
        BY <3>4, <3>5, <3>6
    <2> QED
      BY <2>1, <2>2, <2>10, <2>11, <2>13, <2>14 DEF Searching, Standing, Behind
  <1> QED
    BY <1>10, <1>11

(* Every step keeps the course of an undisturbed search. *)
LEMMA StepLone ==
  ASSUME Powers, Roomy, IsoInv, LoneInv, [Next]_vars
  PROVE  LoneInv'
  <1> SUFFICES ASSUME NEW b, Lone(b)', blips' = Blips
               PROVE  verdict' # "systemic" /\ Standing(b)'
    BY DEF LoneInv
  <1>1. n' = n /\ bad' = bad
    BY DEF Next, SplitKnownBad, GiveUp, AttemptOk, AttemptFails, Return, vars, fault
  <1>2. Lone(b)
    BY <1>1 DEF Lone, Refusing
  <1>3. blips = Blips
    <2>1. blips \in 0 .. Blips
      BY DEF IsoInv, TypeOK
    <2>2. blips' = blips \/ blips' = blips - 1
      <3>1. ASSUME NEW F, Delivery(F) PROVE blips' = blips \/ blips' = blips - 1
        BY <3>1 DEF Delivery
      <3> QED
        BY <3>1 DEF Next, SplitKnownBad, GiveUp, AttemptOk, AttemptFails, Return, vars, fault
    <2> QED
      BY <2>1, <2>2, IsolationAssumption
  <1>4. Searching(b)
    BY <1>1, <1>2, <1>3 DEF Searching, LoneInv
  <1>5. CASE Return \/ UNCHANGED vars
    <2>1. UNCHANGED <<n, bad, queue, attempts, successes, poisoned>> /\ verdict' \in {verdict, "done"}
      BY <1>5 DEF Return, vars, fault
    <2>2. /\ Empty' <=> Empty
          /\ Clean(b)' <=> Clean(b)
          /\ \A s, c : Suspect(b, s, c)' <=> Suspect(b, s, c)
      BY <2>1 DEF Empty, Clean, Suspect, Refusing, Size, RowsOf
    <2>3. \A s, t, c : HalvesOf(b, s, t, c)' <=> HalvesOf(b, s, t, c)
      BY <2>2 DEF HalvesOf, RowsOf
    <2>4. Standing(b)' <=> Standing(b)
      BY <2>1, <2>2, <2>3 DEF Standing, Last, Known, Pair, Behind, RowsOf, HalvesOf, Suspect, Refusing, Clean
    <2> QED
      BY <1>4, <2>1, <2>4 DEF Searching
  <1>6. CASE GiveUp
    <2>1. queue # <<>> /\ attempts >= MaxAttempts
      BY <1>6 DEF GiveUp, searching
    <2>2. attempts \in Nat
      BY SizeFacts DEF IsoInv
    <2> QED
      BY <1>4, <2>1, <2>2, LoneRoom, IsolationAssumption
  <1> QED
    BY <1>4, <1>5, <1>6, LoneSplit, LoneOk, LoneFails DEF Next

(* However the search stands, what it has spent is within the bound. *)
LEMMA LoneBound ==
  ASSUME Powers, IsoInv, LoneInv
  PROVE  OneBadRowFound
  <1>1. TypeOK /\ n \in Nat /\ attempts \in Nat
    BY SizeFacts DEF IsoInv
  <1> SUFFICES ASSUME Cardinality({r \in 1 .. n : Refusing({r}) # {}}) = 1, blips = Blips
               PROVE  /\ verdict # "systemic"
                      /\ \A k \in 0 .. MaxRows : n <= 2 ^ k => attempts <= 2 * k
    BY DEF OneBadRowFound
  <1>2. PICK S : S = {r \in 1 .. n : Refusing({r}) # {}}
    OBVIOUS
  <1>3. IsFiniteSet(S)
    <2>1. IsFiniteSet(1 .. n) /\ S \subseteq 1 .. n
      BY <1>1, <1>2, FS_Interval
    <2> QED
      BY <2>1, FS_Subset, Zenon
  <1>4. PICK b : S = {b}
    BY <1>2, <1>3, FS_Singleton
  <1>5. Lone(b)
    BY <1>2, <1>4 DEF Lone
  <1>6. verdict # "systemic" /\ Standing(b)
    BY <1>5 DEF LoneInv
  <1>7. \E w, c \in Nat : Fits(n, attempts, w, c)
    <2>1. ASSUME NEW i \in 1 .. Len(queue), NEW c \in Nat, Suspect(b, queue[i], c)
          PROVE  \E w, d \in Nat : Fits(n, attempts, w, d)
      BY <1>1, <2>1, SizeFacts DEF Suspect
    <2>2. CASE Empty \/ Last(b)
      BY <2>2 DEF Empty, Last
    <2>3. CASE Known(b)
      BY <2>1, <2>3 DEF Known
    <2>4. CASE Pair(b)
      BY <2>1, <2>4 DEF Pair, HalvesOf
    <2>5. CASE Behind(b)
      BY <2>1, <2>5 DEF Behind, HalvesOf
    <2> QED
      BY <1>6, <2>2, <2>3, <2>4, <2>5 DEF Standing
  <1>8. ASSUME NEW k \in 0 .. MaxRows, n <= 2 ^ k
        PROVE  attempts <= 2 * k
    <2>1. PICK w, c \in Nat : Fits(n, attempts, w, c)
      BY <1>7
    <2>2. k \in Nat
      BY IsolationAssumption
    <2>3. PICK j \in Nat : attempts + 2 * j + c <= 2 * k
      BY <1>8, <2>1, <2>2 DEF Fits
    <2> QED
      BY <1>1, <2>1, <2>2, <2>3
  <1> QED
    BY <1>6, <1>8

(* A single row that a target refuses is found in batches of any size: two attempts
   for every halving at most, and never a verdict against the whole destination, if
   the limits of isolateFailures leave that room. *)
THEOREM LoneRowFound ==
  ASSUME Powers, Roomy
  PROVE  Spec => []OneBadRowFound
  <1>1. Init => LoneInv
    BY InitLone
  <1>2. IsoInv /\ LoneInv /\ [Next]_vars => LoneInv'
    BY StepLone
  <1>3. IsoInv /\ LoneInv => OneBadRowFound
    BY LoneBound
  <1> QED
    BY <1>1, <1>2, <1>3, IsolationInvariant, PTL DEF Spec
=============================================================================
