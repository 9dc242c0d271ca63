--------------------------- MODULE CdcSpoolProofs ---------------------------
(***************************************************************************)
(* Proofs about CdcSpool, for every log, every size of batch and spool and  *)
(* every number of failures: the types, that the spool forgets nothing, and *)
(* that its last word on a key is never a stale one.                        *)
(*                                                                          *)
(* The invariant has one part for what is at rest while there is no stream, *)
(* one for the run the consumer delivers, one for what the reader has taken *)
(* and not yet spooled, one for the order of all that, and one for what the *)
(* spool will have written to a key when it is drained.                     *)
(***************************************************************************)
EXTENDS CdcSpool, TLAPS, FiniteSetTheorems, WellFoundedInduction

(* the members of a sequence *)
Items(s) == {s[i] : i \in DOMAIN s}

(* the members of a sequence are in their order *)
Ascends(s) == \A i, j \in DOMAIN s : i < j => s[i] < s[j]

-----------------------------------------------------------------------------
(* sequences and the operators of the model *)

(* The log has finitely many positions. *)
LEMMA LastPosNat == LastPos \in Nat
BY SpoolAssumption

(* What InOrder makes of a set of positions: its members, in order. *)
LEMMA InOrderFacts ==
  ASSUME NEW S \in SUBSET Positions, NEW s \in InOrder(S)
  PROVE  s \in Seq(Positions) /\ Items(s) = S /\ Ascends(s)
<1>1. Cardinality(S) \in Nat
  <2>1. IsFiniteSet(Positions)
    BY FS_Interval, LastPosNat DEF Positions
  <2> QED BY <2>1, FS_Subset, FS_CardinalityType, Zenon
<1>2. /\ s \in [1 .. Cardinality(S) -> S]
      /\ \A p \in S : \E i \in DOMAIN s : s[i] = p
      /\ \A i, j \in DOMAIN s : i < j => s[i] < s[j]
  BY DEF InOrder
<1>3. s \in Seq(Positions)
  BY <1>1, <1>2, SMT
<1>4. Items(s) = S
  BY <1>2, Zenon DEF Items
<1> QED BY <1>2, <1>3, <1>4, Zenon DEF Ascends

(* What an unfinished append may leave: members of the batch, in order. *)
LEMMA PartlyFacts ==
  ASSUME NEW items \in Seq(Positions), NEW s \in Partly(items)
  PROVE  s \in Seq(Positions) /\ Items(s) \subseteq Items(items) /\ Ascends(s)
<1>1. PICK S \in SUBSET Items(items) : s \in InOrder(S)
  BY DEF Partly, Items
<1>2. Items(items) \subseteq Positions
  BY DEF Items
<1>3. S \in SUBSET Positions
  BY <1>2
<1> QED BY <1>1, <1>3, InOrderFacts, Zenon

(* A batch has the rows and notices it covers, in order. *)
LEMMA BatchFacts ==
  ASSUME log \in Logs, NEW lo \in Positions, NEW hi \in Positions, wm \in 0 .. LastPos,
         NEW b \in Batch(lo, hi)
  PROVE  /\ b = [items |-> b.items, reach |-> b.reach]
         /\ b.items \in Seq(Positions) /\ Ascends(b.items)
         /\ Items(b.items) = {p \in lo .. hi : log[p].kind # "skip" /\ p > wm}
         /\ b.reach = IF hi > wm THEN hi ELSE 0
<1> DEFINE S == {p \in lo .. hi : log[p].kind # "skip" /\ p > wm}
<1>1. S \in SUBSET Positions
  BY LastPosNat DEF Positions
<1>2. PICK s \in InOrder(S) : b = [items |-> s, reach |-> IF hi > wm THEN hi ELSE 0]
  BY DEF Batch
<1>3. s \in Seq(Positions) /\ Items(s) = S /\ Ascends(s)
  <2> HIDE DEF S
  <2> QED BY <1>1, <1>2, InOrderFacts, Zenon
<1> QED BY <1>2, <1>3

(* What follows another sequence is behind it and moves nothing. *)
LEMMA ConcatFacts ==
  ASSUME NEW s \in Seq(Positions), NEW t \in Seq(Positions)
  PROVE  /\ s \o t \in Seq(Positions)
         /\ Len(s) \in Nat /\ Len(t) \in Nat
         /\ DOMAIN s = 1 .. Len(s) /\ DOMAIN t = 1 .. Len(t)
         /\ DOMAIN (s \o t) = 1 .. Len(s) + Len(t) /\ Len(s \o t) = Len(s) + Len(t)
         /\ \A i \in DOMAIN s : i \in DOMAIN (s \o t) /\ (s \o t)[i] = s[i]
         /\ \A i \in DOMAIN t : Len(s) + i \in DOMAIN (s \o t) /\ (s \o t)[Len(s) + i] = t[i]
         /\ \A i \in DOMAIN (s \o t) :
              \/ i \in DOMAIN s
              \/ i > Len(s) /\ i - Len(s) \in DOMAIN t /\ (s \o t)[i] = t[i - Len(s)]
OBVIOUS

(* What is left of a sequence whose first n members are dropped. *)
LEMMA DropFacts ==
  ASSUME NEW s \in Seq(Positions), NEW n \in Nat, n <= Len(s)
  PROVE  /\ SubSeq(s, n + 1, Len(s)) \in Seq(Positions)
         /\ Len(SubSeq(s, n + 1, Len(s))) = Len(s) - n
         /\ \A i \in 1 .. Len(s) - n : SubSeq(s, n + 1, Len(s))[i] = s[i + n]
OBVIOUS

(* The first run of a sequence is a part of it, and nothing in it breaks it. *)
LEMMA RunLengthFacts ==
  ASSUME NEW s \in Seq(Positions), s # <<>>
  PROVE  /\ RunLength(s) \in 1 .. Len(s)
         /\ \A i \in 2 .. RunLength(s) : ~Breaks(s, i)
<1> DEFINE Ends(n) == n = Len(s) \/ Breaks(s, n + 1)
           T == {n \in 1 .. Len(s) : Ends(n)}
<1>1. Len(s) \in Nat /\ Len(s) >= 1
  OBVIOUS
<1>2. T \subseteq Nat /\ Len(s) \in T
  BY <1>1
<1>3. PICK m \in T : \A n \in T : ~(n < m)
  <2> HIDE DEF T
  <2>1. IsWellFoundedOn(OpToRel(<, Nat), Nat)
    BY NatLessThanWellFounded
  <2>2. PICK m \in T : \A n \in T : ~(<<n, m>> \in OpToRel(<, Nat))
    BY <1>2, <2>1, WFMin, Zenon
  <2>3. \A i, j \in Nat : i < j => <<i, j>> \in OpToRel(<, Nat)
    BY DEF OpToRel
  <2> QED BY <1>2, <2>2, <2>3
<1>4. m \in 1 .. Len(s) /\ Ends(m)
  BY <1>3
<1>5. ASSUME NEW i \in 2 .. m PROVE ~Breaks(s, i)
  <2>1. i - 1 \in 1 .. Len(s) /\ i - 1 < m /\ i - 1 # Len(s)
    BY <1>1, <1>4
  <2>2. i - 1 \notin T
    <3> HIDE DEF T
    <3> QED BY <1>3, <2>1
  <2>3. ~Ends(i - 1)
    BY <2>1, <2>2
  <2>4. (i - 1) + 1 = i
    OBVIOUS
  <2> QED BY <2>1, <2>3, <2>4, Zenon
<1>6. \E n \in 1 .. Len(s) : (\A i \in 2 .. n : ~Breaks(s, i)) /\ (n = Len(s) \/ Breaks(s, n + 1))
  BY <1>4, <1>5, Zenon
<1> QED BY <1>6 DEF RunLength

-----------------------------------------------------------------------------
(* types, in parts that steps leave alone together *)

(* the saved job *)
JobType == [status : {"running", "paused", "failed"}, offset : Nat, cursor : 0 .. LastPos]
(* a batch read from the source and not yet spooled *)
BatchType == [items : Seq(Positions), reach : 0 .. LastPos]
(* what the reader is putting into the spool *)
PutType == [st : {"none", "wait", "append", "save"}, items : Seq(Positions),
            reach : 0 .. LastPos, tries : Nat]
(* what the consumer is writing *)
RunType ==
  [st : {"none", "write", "failed", "halting", "park", "trim", "offset"},
   items : SUBSET Positions, del : SUBSET Positions, n : Nat, nextSeq : Nat, tries : Nat,
   work : {"none", "ok", "failed", "notice"}]

(* the source *)
SourceType == log \in Logs /\ slot \in 0 .. LastPos /\ next \in 1 .. LastPos + 1
(* what is stored *)
StoreType == job \in JobType /\ dlq \subseteq [seq : Nat, pos : Positions]
(* the destination and its history *)
TargetType ==
  dest \in [Keys -> 0 .. LastPos] /\ landed \subseteq Positions /\ aside \subseteq Positions
(* the stream *)
LifeType ==
  /\ phase \in {"none", "live", "draining", "closing"} /\ stopper \in {"none", "user"}
  /\ halted \in {"no", "yes"}
(* its two counters *)
MarkType == wm \in 0 .. LastPos /\ seq \in Nat
(* the reader *)
ReaderType == ahead \in BatchType /\ put \in PutType
(* the consumer *)
ConsumerType == cons \in {"on", "off"} /\ quota \in Nat /\ run \in RunType
(* what may fail *)
FaultType == budget \in [FaultKinds -> Nat]

(* all of them *)
Types ==
  /\ SourceType /\ StoreType /\ spool \in Seq(Positions) /\ TargetType /\ LifeType
  /\ MarkType /\ ReaderType /\ ConsumerType /\ consec \in Nat /\ FaultType

(* The parts are the whole. *)
LEMMA TypesMeanTypeOK == Types => TypeOK
BY DEF Types, TypeOK, SourceType, StoreType, TargetType, LifeType, MarkType, ReaderType,
       ConsumerType, FaultType, JobType, BatchType, PutType, RunType

(* What landing a set of positions leaves: they have landed, nothing else is new at a key. *)
LEMMA LandFacts ==
  ASSUME TargetType, NEW S \in SUBSET Positions, Land(S)
  PROVE  /\ landed' \subseteq Positions /\ landed \subseteq landed' /\ S \subseteq landed'
         /\ dest' \in [Keys -> 0 .. LastPos]
         /\ \A k \in Keys : IF \E p \in S : Hits(p, k)
                               THEN dest'[k] \in S /\ Hits(dest'[k], k)
                               ELSE dest'[k] = dest[k]
<1>1. /\ landed \subseteq Positions /\ dest \in [Keys -> 0 .. LastPos]
      /\ landed' = landed \cup S
      /\ dest' = [k \in Keys |-> IF \E p \in S : Hits(p, k)
                                   THEN CHOOSE p \in S : Hits(p, k) ELSE dest[k]]
  BY DEF TargetType, Land
<1>2. ASSUME NEW k \in Keys
      PROVE  IF \E p \in S : Hits(p, k) THEN dest'[k] \in S /\ Hits(dest'[k], k)
             ELSE dest'[k] = dest[k]
  <2>1. dest'[k] = IF \E p \in S : Hits(p, k) THEN CHOOSE p \in S : Hits(p, k) ELSE dest[k]
    BY <1>1, Zenon
  <2> QED BY <2>1, Zenon
<1>3. ASSUME NEW k \in Keys PROVE dest'[k] \in 0 .. LastPos
  <2>1. \A p \in S : p \in 0 .. LastPos
    BY LastPosNat DEF Positions
  <2> QED BY <1>1, <1>2, <2>1
<1>4. dest' \in [Keys -> 0 .. LastPos]
  BY <1>1, <1>3
<1> QED BY <1>1, <1>2, <1>4

(* What a halt leaves of the job. *)
LEMMA HaltFacts ==
  ASSUME StoreType, NEW status \in {"paused", "failed"}, HaltTo(status)
  PROVE  job' \in JobType /\ halted' = "yes" /\ job'.cursor = job.cursor
BY DEF StoreType, JobType, HaltTo

(* A budget that is spent is a budget. *)
LEMMA SpendType ==
  ASSUME FaultType, NEW f \in FaultKinds, f # "any", Spend(f)
  PROVE  FaultType'
<1>1. "any" \in FaultKinds
  BY DEF FaultKinds
<1>2. budget' = [budget EXCEPT ![f] = budget[f] - 1, !["any"] = budget["any"] - 1]
  BY DEF Spend
<1>3. budget \in [FaultKinds -> Nat] /\ budget[f] > 0 /\ budget["any"] > 0
  BY DEF FaultType, Spend
<1>4. budget[f] - 1 \in Nat /\ budget["any"] - 1 \in Nat
  BY <1>1, <1>3
<1> QED BY <1>1, <1>2, <1>3, <1>4 DEF FaultType

(* The empty batch, task and run have their types. *)
LEMMA EmptyTypes == NoBatch \in BatchType /\ NoPut \in PutType /\ NoRun \in RunType
<1>1. <<>> \in Seq(Positions) /\ 0 \in 0 .. LastPos
  BY LastPosNat
<1> QED BY <1>1 DEF NoBatch, NoPut, NoRun, PutType, RunType, BatchType

(* What is empty is told by these fields. *)
LEMMA EmptyFields ==
  /\ NoBatch.reach = 0 /\ NoPut.st = "none" /\ NoPut.reach = 0
  /\ NoRun.st = "none" /\ NoRun.n = 0 /\ NoRun.items = {}
BY DEF NoBatch, NoPut, NoRun

(* At first every variable has its type. *)
LEMMA TypeInit == Init => Types
<1> SUFFICES ASSUME Init PROVE Types
  OBVIOUS
<1>1. StoreType
  BY LastPosNat DEF Init, StoreType, JobType
<1>2. TargetType
  BY LastPosNat DEF Init, TargetType
<1>3. FaultType
  BY SpoolAssumption DEF Init, FaultType
<1>4. SourceType /\ MarkType /\ LifeType
  BY LastPosNat DEF Init, SourceType, MarkType, LifeType
<1>5. ReaderType /\ ConsumerType
  BY EmptyTypes DEF Init, ReaderType, ConsumerType
<1> QED BY <1>1, <1>2, <1>3, <1>4, <1>5 DEF Init, Types

(* A stream that is forgotten leaves its variables at rest. *)
LEMMA ForgetTypes ==
  ASSUME Forget
  PROVE  LifeType' /\ MarkType' /\ ReaderType' /\ ConsumerType' /\ consec' \in Nat
BY LastPosNat, EmptyTypes DEF Forget, LifeType, MarkType, ReaderType, ConsumerType

(* Beginning, ending and forgetting a stream keep the types. *)
LEMMA TypeLifecycle == Types /\ Lifecycle => Types'
<1> SUFFICES ASSUME Types, Lifecycle PROVE Types'
  OBVIOUS
<1>1. CASE BeginStream
  <2>1. SourceType'
    <3>1. PICK from \in {slot, job.cursor} : next' = from + 1
      BY <1>1 DEF BeginStream
    <3>2. from \in 0 .. LastPos
      BY <3>1 DEF Types, SourceType, StoreType, JobType
    <3> QED BY <1>1, <3>1, <3>2, LastPosNat DEF Types, SourceType, BeginStream
  <2>2. StoreType' /\ MarkType'
    BY <1>1 DEF Types, StoreType, MarkType, JobType, BeginStream
  <2>3. LifeType' /\ ReaderType' /\ ConsumerType' /\ TargetType' /\ FaultType'
    BY <1>1 DEF Types, LifeType, ReaderType, ConsumerType, TargetType, FaultType, BeginStream,
                target, reader
  <2> QED BY <1>1, <2>1, <2>2, <2>3 DEF Types, BeginStream
<1>2. ASSUME NEW by \in {"none", "user"}, TeardownBegin(by) PROVE Types'
  <2>1. FaultType'
    <3>1. "stop" \in FaultKinds
      BY DEF FaultKinds
    <3> QED BY <1>2, <3>1, SpendType DEF TeardownBegin, Types, FaultType
  <2>2. LifeType' /\ SourceType' /\ StoreType' /\ MarkType'
    BY <1>2 DEF Types, LifeType, SourceType, StoreType, MarkType, TeardownBegin, source, store
  <2>3. TargetType' /\ ReaderType' /\ ConsumerType'
    BY <1>2 DEF Types, TargetType, ReaderType, ConsumerType, TeardownBegin, target, reader, consumer
  <2> QED BY <1>2, <2>1, <2>2, <2>3 DEF Types, TeardownBegin
<1>3. CASE TeardownDrop
  <2>1. LifeType' /\ SourceType' /\ StoreType' /\ MarkType' /\ FaultType'
    BY <1>3 DEF Types, LifeType, SourceType, StoreType, MarkType, FaultType, TeardownDrop, source, store
  <2>2. TargetType' /\ ReaderType' /\ ConsumerType'
    BY <1>3 DEF Types, TargetType, ReaderType, ConsumerType, TeardownDrop, target, reader, consumer
  <2> QED BY <1>3, <2>1, <2>2 DEF Types, TeardownDrop
<1>4. CASE TeardownEnd
  <2>1. StoreType'
    BY <1>4 DEF Types, StoreType, JobType, TeardownEnd
  <2>2. SourceType' /\ TargetType' /\ FaultType'
    BY <1>4 DEF Types, SourceType, TargetType, FaultType, TeardownEnd, source, target
  <2> QED BY <1>4, <2>1, <2>2, ForgetTypes DEF Types, TeardownEnd
<1>5. CASE Crash
  <2>1. PICK S \in SUBSET (IF run.st = "write" THEN run.items ELSE {}) : Land(S)
    BY <1>5 DEF Crash
  <2>2. S \in SUBSET Positions
    BY <2>1 DEF Types, ConsumerType, RunType
  <2>3. TargetType'
    BY <1>5, <2>1, <2>2, LandFacts DEF Types, TargetType, Crash
  <2>4. PICK s \in Partly(IF put.st = "append" THEN put.items ELSE <<>>) : spool' = spool \o s
    BY <1>5 DEF Crash
  <2>5. (IF put.st = "append" THEN put.items ELSE <<>>) \in Seq(Positions) /\ spool \in Seq(Positions)
    BY DEF Types, ReaderType, PutType
  <2>6. spool' \in Seq(Positions)
    BY <2>4, <2>5, PartlyFacts, ConcatFacts, Zenon
  <2>7. FaultType'
    <3>1. "crash" \in FaultKinds
      BY DEF FaultKinds
    <3> QED BY <1>5, <3>1, SpendType DEF Crash, Types
  <2>8. SourceType' /\ StoreType'
    BY <1>5 DEF Types, SourceType, StoreType, Crash, source, store
  <2> QED BY <1>5, <2>3, <2>6, <2>7, <2>8, ForgetTypes DEF Types, Crash
<1> QED BY <1>1, <1>2, <1>3, <1>4, <1>5 DEF Lifecycle, Start, Resume

(* The reader keeps the types. *)
LEMMA TypeReader == Types /\ ReaderStep => Types'
<1> SUFFICES ASSUME Types, ReaderStep PROVE Types'
  OBVIOUS
<1>0. /\ spool \in Seq(Positions) /\ put \in PutType /\ ahead \in BatchType
      /\ put.items \in Seq(Positions) /\ ahead.items \in Seq(Positions)
      /\ put.reach \in 0 .. LastPos /\ ahead.reach \in 0 .. LastPos /\ put.tries \in Nat
      /\ "spool" \in FaultKinds /\ "store" \in FaultKinds /\ wm \in 0 .. LastPos
  BY DEF Types, ReaderType, PutType, BatchType, FaultKinds, MarkType
<1>a. ASSUME readerFrame'  = readerFrame
      PROVE  StoreType' /\ TargetType' /\ LifeType' /\ MarkType' /\ ConsumerType' /\ FaultType'
             /\ consec' \in Nat
  BY <1>a DEF readerFrame, Types, StoreType, TargetType, LifeType, MarkType, ConsumerType, FaultType,
              store, target, life, consumer
<1>b. ASSUME source' = source PROVE SourceType'
  BY <1>b DEF Types, SourceType, source
<1>c. ASSUME target' = target, life' = life, consumer' = consumer, consec' = consec
      PROVE  TargetType' /\ LifeType' /\ ConsumerType' /\ consec' \in Nat
  BY <1>c DEF Types, TargetType, LifeType, ConsumerType, target, life, consumer
<1>d. ASSUME store' = store PROVE StoreType'
  BY <1>d DEF Types, StoreType, store
<1>1. CASE Read
  <2>1. PICK hi \in next .. LastPos : next' = hi + 1 /\ ahead' \in Batch(next, hi)
    BY <1>1 DEF Read
  <2>2. next \in Positions /\ hi \in Positions /\ log \in Logs
    BY <1>1, <2>1, LastPosNat DEF Types, SourceType, Positions, Read
  <2>3. /\ ahead' = [items |-> ahead'.items, reach |-> ahead'.reach]
        /\ ahead'.items \in Seq(Positions)
        /\ ahead'.reach = IF hi > wm THEN hi ELSE 0
    BY <1>0, <2>1, <2>2, BatchFacts, Zenon
  <2>4. ahead'.reach \in 0 .. LastPos /\ next' \in 1 .. LastPos + 1
    BY <2>1, <2>2, <2>3, LastPosNat DEF Positions
  <2>5. ahead' \in BatchType
    BY <2>3, <2>4 DEF BatchType
  <2>6. SourceType'
    BY <1>1, <2>4 DEF Types, SourceType, Read
  <2> QED BY <1>0, <1>1, <1>a, <2>5, <2>6 DEF Types, ReaderType, Read
<1>2. CASE FlushTake
  <2>1. put' \in PutType
    BY <1>0, <1>2, EmptyTypes DEF FlushTake, NoPut, PutType
  <2> QED BY <1>2, <1>a, <1>b, <2>1, EmptyTypes DEF Types, ReaderType, FlushTake
<1>3. CASE HasRoom
  <2>1. put' \in PutType
    BY <1>0, <1>3, EmptyTypes DEF PutType, HasRoom
  <2>2. FaultType'
    BY <1>0, <1>3, SpendType DEF Types, FaultType, HasRoom
  <2>3. MarkType' /\ ahead' \in BatchType
    BY <1>0, <1>3 DEF HasRoom, Types, MarkType
  <2> QED BY <1>3, <1>b, <1>c, <1>d, <2>1, <2>2, <2>3 DEF Types, ReaderType, HasRoom
<1>4. CASE Append_
  <2>1. spool' \in Seq(Positions)
    BY <1>0, <1>4, ConcatFacts DEF Append_
  <2>2. put' \in PutType /\ ahead' \in BatchType
    BY <1>0, <1>4 DEF Append_, PutType
  <2> QED BY <1>4, <1>a, <1>b, <2>1, <2>2 DEF Types, ReaderType, Append_
<1>5. CASE AppendFails
  <2>1. spool' \in Seq(Positions)
    <3>1. PICK s \in Partly(put.items) : spool' = spool \o s
      BY <1>5 DEF AppendFails
    <3>2. s \in Seq(Positions)
      BY <1>0, <3>1, PartlyFacts, Zenon
    <3> QED BY <1>0, <3>1, <3>2, ConcatFacts, Zenon
  <2>2. FaultType'
    BY <1>0, <1>5, SpendType DEF Types, AppendFails
  <2>3. MarkType' /\ ahead' \in BatchType /\ SourceType'
    BY <1>0, <1>5, <1>b DEF AppendFails, Types, MarkType
  <2>4. TargetType' /\ ConsumerType' /\ consec' \in Nat
    BY <1>5 DEF AppendFails, Types, TargetType, ConsumerType, target, consumer
  <2>5. CASE put.tries + 1 < AppendAttempts
    <3>1. put' \in PutType
      <4>1. put' = [put EXCEPT !.tries = put.tries + 1]
        BY <1>5, <2>5 DEF AppendFails
      <4>2. put.tries + 1 \in Nat
        BY <1>0
      <4> QED BY <1>0, <4>1, <4>2 DEF PutType
    <3>2. StoreType' /\ LifeType'
      BY <1>5, <2>5 DEF AppendFails, Types, StoreType, LifeType
    <3> QED BY <1>5, <2>1, <2>2, <2>3, <2>4, <3>1, <3>2 DEF Types, ReaderType
  <2>6. CASE ~(put.tries + 1 < AppendAttempts)
    <3>1. put' \in PutType /\ HaltTo("failed") /\ dlq' = dlq /\ phase' = phase /\ stopper' = stopper
      BY <1>5, <2>6, EmptyTypes DEF AppendFails
    <3>2. job' \in JobType /\ halted' = "yes"
      BY <3>1, HaltFacts DEF Types
    <3>3. StoreType' /\ LifeType'
      BY <3>1, <3>2 DEF Types, StoreType, LifeType
    <3> QED BY <2>1, <2>2, <2>3, <2>4, <3>1, <3>3 DEF Types, ReaderType
  <2> QED BY <2>5, <2>6
<1>6. CASE SaveCursor
  <2>1. put' \in PutType /\ ahead' \in BatchType /\ MarkType'
    BY <1>0, <1>6, EmptyTypes DEF Types, MarkType, SaveCursor
  <2>2. SourceType'
    BY <1>0, <1>6 DEF Types, SourceType, SaveCursor
  <2>3. StoreType'
    BY <1>0, <1>6 DEF Types, StoreType, JobType, SaveCursor
  <2>4. FaultType'
    BY <1>6 DEF Types, FaultType, SaveCursor
  <2> QED BY <1>6, <1>c, <2>1, <2>2, <2>3, <2>4 DEF Types, ReaderType, SaveCursor
<1>7. CASE SaveCursorFails
  <2>1. FaultType'
    BY <1>0, <1>7, SpendType DEF Types, SaveCursorFails
  <2>2. put' \in PutType /\ ahead' \in BatchType /\ MarkType'
    BY <1>0, <1>7, EmptyTypes DEF Types, MarkType, SaveCursorFails
  <2> QED BY <1>7, <1>b, <1>c, <1>d, <2>1, <2>2 DEF Types, ReaderType, SaveCursorFails
<1> QED BY <1>1, <1>2, <1>3, <1>4, <1>5, <1>6, <1>7 DEF ReaderStep

(* What the consumer has read and not yet settled is still in the spool. *)
Fits == run.n + quota <= Len(spool) /\ (run.st = "none" => run.n = 0)

(* The consumer takes the first entries of the spool: no two of them are    *)
(* about one key, and a notice or a truncate is alone.                      *)
LEMMA TakeFacts ==
  ASSUME Types, Fits, TakeRun
  PROVE  \E n \in 1 .. Len(spool) :
           /\ quota' \in Nat /\ n + quota' <= Len(spool)
           /\ run' = [NoRun EXCEPT !.st = IF IsNotice(spool[1]) THEN "trim" ELSE "write",
                                   !.work = IF IsNotice(spool[1]) THEN "notice" ELSE "ok",
                                   !.items = {spool[i] : i \in 1 .. n}, !.n = n,
                                   !.nextSeq = seq + 1]
           /\ \A i \in 2 .. n : /\ log[spool[i]].op \notin {"truncate", "notice"}
                                /\ \A j \in 1 .. i - 1 : log[spool[j]].key # log[spool[i]].key
           /\ n > 1 => log[spool[1]].op \notin {"truncate", "notice"}
<1>0. spool \in Seq(Positions) /\ quota \in Nat /\ run.n \in Nat /\ MaxBatch \in Nat \ {0}
  BY SpoolAssumption DEF Types, ConsumerType, RunType
<1>1. PICK q : q = (IF quota > 0 THEN quota
                    ELSE IF Len(spool) < MaxBatch THEN Len(spool) ELSE MaxBatch)
  OBVIOUS
<1>2. q \in 1 .. Len(spool)
  <2>1. spool # <<>> /\ run.st = "none" /\ run.n + quota <= Len(spool)
    BY DEF TakeRun, Fits
  <2>2. Len(spool) \in Nat /\ Len(spool) > 0
    BY <1>0, <2>1
  <2> QED BY <1>0, <1>1, <2>1, <2>2
<1>3. PICK s : s = SubSeq(spool, 1, q)
  OBVIOUS
<1>4. s \in Seq(Positions) /\ Len(s) = q /\ \A i \in 1 .. q : s[i] = spool[i]
  BY <1>0, <1>2, <1>3
<1>5. s # <<>>
  BY <1>2, <1>4
<1>6. PICK n : n = RunLength(s)
  OBVIOUS
<1>7. n \in 1 .. q /\ \A i \in 2 .. n : ~Breaks(s, i)
  BY <1>4, <1>5, <1>6, RunLengthFacts
<1>8. /\ quota' = q - n
      /\ run' = [NoRun EXCEPT !.st = IF IsNotice(spool[1]) THEN "trim" ELSE "write",
                              !.work = IF IsNotice(spool[1]) THEN "notice" ELSE "ok",
                              !.items = {spool[i] : i \in 1 .. n}, !.n = n, !.nextSeq = seq + 1]
  BY <1>1, <1>3, <1>6 DEF TakeRun
<1>9. ASSUME NEW i \in 2 .. n
      PROVE  /\ log[spool[i]].op \notin {"truncate", "notice"}
             /\ log[spool[i]].op = log[spool[i - 1]].op
             /\ \A j \in 1 .. i - 1 : log[spool[j]].key # log[spool[i]].key
  <2>1. i \in 1 .. q /\ i - 1 \in 1 .. q /\ \A j \in 1 .. i - 1 : j \in 1 .. q
    BY <1>2, <1>7
  <2>2. ~Breaks(s, i)
    BY <1>7
  <2>3. s[i] = spool[i] /\ s[i - 1] = spool[i - 1] /\ \A j \in 1 .. i - 1 : s[j] = spool[j]
    BY <1>4, <2>1
  <2> QED BY <2>2, <2>3, Zenon DEF Breaks
<1>10. ASSUME n > 1 PROVE log[spool[1]].op \notin {"truncate", "notice"}
  <2>1. 2 \in 2 .. n /\ 2 - 1 = 1
    BY <1>7, <1>10
  <2>2. log[spool[2]].op \notin {"truncate", "notice"} /\ log[spool[2]].op = log[spool[2 - 1]].op
    BY <1>9, <2>1
  <2> QED BY <2>1, <2>2
<1>11. n \in 1 .. Len(spool) /\ quota' \in Nat /\ n + quota' <= Len(spool)
  BY <1>0, <1>2, <1>7, <1>8
<1> QED BY <1>8, <1>9, <1>10, <1>11

(* The consumer keeps the types. *)
LEMMA TypeConsumer == Types /\ Fits /\ ConsumerStep => Types'
<1> SUFFICES ASSUME Types, Fits, ConsumerStep PROVE Types'
  OBVIOUS
<1>0. /\ spool \in Seq(Positions) /\ run \in RunType /\ cons \in {"on", "off"} /\ quota \in Nat
      /\ run.items \in SUBSET Positions /\ run.del \in SUBSET Positions /\ run.n \in Nat
      /\ run.nextSeq \in Nat /\ run.tries \in Nat /\ seq \in Nat /\ consec \in Nat
      /\ "spool" \in FaultKinds /\ "store" \in FaultKinds /\ "dest" \in FaultKinds
      /\ run.st \in {"none", "write", "failed", "halting", "park", "trim", "offset"}
      /\ run.work \in {"none", "ok", "failed", "notice"}
  BY DEF Types, ConsumerType, RunType, FaultKinds, MarkType
<1>a. ASSUME consumerFrame' = consumerFrame
      PROVE  /\ SourceType' /\ ReaderType' /\ phase' \in {"none", "live", "draining", "closing"}
             /\ stopper' \in {"none", "user"} /\ wm' \in 0 .. LastPos
  BY <1>a DEF consumerFrame, Types, SourceType, ReaderType, LifeType, MarkType, source, reader
<1>b. ASSUME target' = target PROVE TargetType'
  BY <1>b DEF Types, TargetType, target
<1>c. ASSUME store' = store PROVE StoreType'
  BY <1>c DEF Types, StoreType, store
<1>d. ASSUME halted' = halted PROVE halted' \in {"no", "yes"}
  BY <1>d DEF Types, LifeType
<1>e. ASSUME budget' = budget PROVE FaultType'
  BY <1>e DEF Types, FaultType
<1>f. ASSUME phase' \in {"none", "live", "draining", "closing"}, stopper' \in {"none", "user"},
             halted' \in {"no", "yes"}, wm' \in 0 .. LastPos, seq' \in Nat
      PROVE  LifeType' /\ MarkType'
  BY <1>f DEF LifeType, MarkType
<1>g. ASSUME cons' = cons, quota' = quota, run' \in RunType PROVE ConsumerType'
  BY <1>0, <1>g DEF ConsumerType
<1>h. ASSUME NEW S \in SUBSET Positions, Land(S), aside' = aside PROVE TargetType'
  BY <1>h, LandFacts DEF Types, TargetType
<1>1. CASE ConsumerEnds
  <2>1. ConsumerType'
    BY <1>1, <1>0 DEF ConsumerEnds, ConsumerType
  <2> QED BY <1>0, <1>1, <1>a, <1>b, <1>c, <1>d, <1>e, <1>f, <2>1 DEF Types, ConsumerEnds
<1>2. CASE TakeRun
  <2>1. PICK n \in 1 .. Len(spool) :
             /\ quota' \in Nat /\ n + quota' <= Len(spool)
             /\ run' = [NoRun EXCEPT !.st = IF IsNotice(spool[1]) THEN "trim" ELSE "write",
                                     !.work = IF IsNotice(spool[1]) THEN "notice" ELSE "ok",
                                     !.items = {spool[i] : i \in 1 .. n}, !.n = n,
                                     !.nextSeq = seq + 1]
    BY <1>2, TakeFacts, Zenon
  <2>2. {spool[i] : i \in 1 .. n} \in SUBSET Positions /\ n \in Nat
    BY <1>0, <2>1
  <2>3. run' \in RunType
    <3>1. PICK st, work, S, m :
               /\ st = (IF IsNotice(spool[1]) THEN "trim" ELSE "write")
               /\ work = (IF IsNotice(spool[1]) THEN "notice" ELSE "ok")
               /\ S = {spool[i] : i \in 1 .. n} /\ m = seq + 1
      OBVIOUS
    <3>2. /\ st \in {"trim", "write"} /\ work \in {"notice", "ok"}
          /\ S \in SUBSET Positions /\ m \in Nat
      BY <1>0, <2>2, <3>1
    <3>3. run' = [NoRun EXCEPT !.st = st, !.work = work, !.items = S, !.n = n, !.nextSeq = m]
      BY <2>1, <3>1, Zenon
    <3> QED BY <2>2, <3>2, <3>3 DEF RunType, NoRun
  <2>4. ConsumerType'
    BY <1>0, <1>2, <2>1, <2>3 DEF ConsumerType, TakeRun
  <2> QED BY <1>0, <1>2, <1>a, <1>b, <1>c, <1>d, <1>e, <1>f, <2>4 DEF Types, TakeRun
<1>3. CASE DeliverOk
  <2>1. run' \in RunType
    BY <1>0, <1>3, EmptyTypes DEF DeliverOk, RunType
  <2>2. ConsumerType' /\ TargetType' /\ consec' \in Nat
    BY <1>0, <1>3, <1>g, <1>h, <2>1 DEF DeliverOk
  <2> QED BY <1>0, <1>3, <1>a, <1>c, <1>d, <1>e, <1>f, <2>2 DEF Types, DeliverOk
<1>4. CASE DeliverFails
  <2>1. run' \in RunType
    BY <1>0, <1>4, EmptyTypes DEF DeliverFails, RunType
  <2>2. PICK S \in SUBSET run.items : Land(S)
    BY <1>4 DEF DeliverFails
  <2>3. S \in SUBSET Positions
    BY <1>0, <2>2
  <2>4. ConsumerType' /\ TargetType' /\ FaultType'
    BY <1>0, <1>4, <1>g, <1>h, <2>1, <2>2, <2>3, SpendType DEF DeliverFails, Types
  <2> QED BY <1>0, <1>4, <1>a, <1>c, <1>d, <1>f, <2>4 DEF Types, DeliverFails
<1>5. CASE HandleFailed
  <2>1. PICK D \in SUBSET run.items, stop \in BOOLEAN :
             /\ Land(D)
             /\ consec' = IF stop THEN consec ELSE IF D # {} THEN 0 ELSE consec + 1
             /\ run' = [run EXCEPT
                          !.del = D,
                          !.nextSeq = seq + IF D # {} /\ D # run.items THEN 2 ELSE 1,
                          !.st = IF stop THEN "halting"
                                 ELSE IF D = run.items THEN "trim"
                                 ELSE IF consec' >= MaxConsecutive THEN "halting" ELSE "park"]
    BY <1>5 DEF HandleFailed
  <2>2. D \in SUBSET Positions
    BY <1>0, <2>1
  <2>3. run' \in RunType
    <3>1. PICK m : m = (seq + IF D # {} /\ D # run.items THEN 2 ELSE 1)
      OBVIOUS
    <3>2. m \in Nat
      BY <1>0, <3>1
    <3>3. PICK st : st = (IF stop THEN "halting"
                          ELSE IF D = run.items THEN "trim"
                          ELSE IF consec' >= MaxConsecutive THEN "halting" ELSE "park")
      OBVIOUS
    <3>4. st \in {"none", "write", "failed", "halting", "park", "trim", "offset"}
      BY <3>3
    <3>5. run' = [run EXCEPT !.del = D, !.nextSeq = m, !.st = st]
      BY <2>1, <3>1, <3>3, Zenon
    <3> QED BY <1>0, <2>2, <3>2, <3>4, <3>5 DEF RunType
  <2>4. ConsumerType' /\ TargetType' /\ consec' \in Nat
    BY <1>0, <1>5, <1>g, <1>h, <2>1, <2>2, <2>3 DEF HandleFailed
  <2> QED BY <1>0, <1>5, <1>a, <1>c, <1>d, <1>e, <1>f, <2>4 DEF Types, HandleFailed
<1>6. CASE StopRun
  <2>1. ConsumerType' /\ job' \in JobType /\ halted' = "yes" /\ dlq' = dlq
    BY <1>6, <1>g, EmptyTypes, HaltFacts DEF StopRun, Types
  <2>2. StoreType'
    BY <2>1 DEF Types, StoreType
  <2> QED BY <1>0, <1>6, <1>a, <1>b, <1>e, <1>f, <2>1, <2>2 DEF Types, StopRun
<1>7. CASE ParkFull
  <2>1. run' \in RunType
    BY <1>0, <1>7 DEF ParkFull, RunType
  <2> QED BY <1>0, <1>7, <1>a, <1>b, <1>c, <1>d, <1>e, <1>f, <1>g, <2>1 DEF Types, ParkFull
<1>8. CASE Park
  <2>1. run' \in RunType
    BY <1>0, <1>8 DEF Park, RunType
  <2>2. AtFault \subseteq Positions
    BY <1>0 DEF AtFault
  <2>3. StoreType'
    <3>1. dlq \subseteq [seq : Nat, pos : Positions] /\ job \in JobType
      BY DEF Types, StoreType
    <3>2. seq + 1 \in Nat
      BY <1>0
    <3>3. PICK m \in Nat : dlq' = {e \in dlq : e.seq < seq} \cup {[seq |-> m, pos |-> p] : p \in AtFault}
      BY <1>0, <1>8, <3>2 DEF Park
    <3> QED BY <1>8, <2>2, <3>1, <3>3 DEF StoreType, Park
  <2>4. TargetType'
    BY <1>8, <2>2 DEF Types, TargetType, Park
  <2> QED BY <1>0, <1>8, <1>a, <1>d, <1>e, <1>f, <1>g, <2>1, <2>3, <2>4 DEF Types, Park
<1>9. CASE Trim
  <2>1. run' \in RunType
    BY <1>0, <1>9 DEF Trim, RunType
  <2>2. spool' \in Seq(Positions)
    <3>1. run.n <= Len(spool)
      BY <1>0 DEF Fits
    <3> QED BY <1>0, <1>9, <3>1, DropFacts DEF Trim
  <2> QED BY <1>0, <1>9, <1>a, <1>b, <1>c, <1>d, <1>e, <1>f, <1>g, <2>1, <2>2 DEF Types, Trim
<1>10. CASE SaveOffset
  <2>1. ConsumerType' /\ seq' \in Nat
    BY <1>0, <1>10, <1>g, EmptyTypes DEF SaveOffset
  <2>2. StoreType'
    BY <1>0, <1>10 DEF SaveOffset, Types, StoreType, JobType
  <2> QED BY <1>0, <1>10, <1>a, <1>b, <1>d, <1>e, <1>f, <2>1, <2>2 DEF Types, SaveOffset
<1>11. CASE StoreFails
  <2>1. FaultType'
    BY <1>0, <1>11, SpendType DEF Types, StoreFails
  <2>2. run' \in RunType /\ StoreType' /\ halted' \in {"no", "yes"}
    <3>1. dlq' = dlq /\ Retry
      BY <1>11 DEF StoreFails
    <3>2. CASE halted = "yes"
      BY <3>1, <3>2, EmptyTypes DEF Retry, Types, StoreType
    <3>3. CASE halted # "yes" /\ run.tries + 1 < SettleAttempts
      <4>1. PICK st \in {"failed", "trim"} : run' = [run EXCEPT !.st = st, !.tries = run.tries + 1]
        BY <3>1, <3>3 DEF Retry
      <4>2. run.tries + 1 \in Nat
        BY <1>0
      <4>3. run' \in RunType
        BY <1>0, <4>1, <4>2 DEF RunType
      <4> QED BY <3>1, <3>3, <4>3, <1>d DEF Retry, Types, StoreType
    <3>4. CASE halted # "yes" /\ ~(run.tries + 1 < SettleAttempts)
      <4>1. run' = NoRun /\ HaltTo("failed")
        BY <3>1, <3>4 DEF Retry
      <4>2. job' \in JobType /\ halted' = "yes"
        BY <4>1, HaltFacts DEF Types
      <4> QED BY <3>1, <4>1, <4>2, EmptyTypes DEF Types, StoreType
    <3> QED BY <3>2, <3>3, <3>4
  <2> QED BY <1>0, <1>11, <1>a, <1>b, <1>f, <1>g, <2>1, <2>2 DEF Types, StoreFails
<1> QED BY <1>1, <1>2, <1>3, <1>4, <1>5, <1>6, <1>7, <1>8, <1>9, <1>10, <1>11 DEF ConsumerStep

-----------------------------------------------------------------------------
(* what is at rest, and the run in delivery *)

(* Without a stream nothing is in flight, and a stream that closes has no flush left. *)
RestInv ==
  /\ phase = "none" =>
       /\ put = NoPut /\ ahead = NoBatch /\ run = NoRun
       /\ quota = 0 /\ wm = 0 /\ halted = "no" /\ cons = "off"
  /\ phase = "closing" => ahead.reach = 0

(* A row at p has reached the destination, was set aside, or is in the spool. *)
Safe(p) == IsRow(p) => p \in landed \cup aside \/ Spooled(p)

(* The run is made of the first run.n entries of the spool; what is about   *)
(* to be trimmed was delivered or set aside.                                *)
RunInv ==
  /\ run.n + quota <= Len(spool)
  /\ run.st \in {"none", "offset"} => run.n = 0
  /\ \A i \in 1 .. run.n : spool[i] \in run.items
  /\ run.st \in {"failed", "park", "halting"} => run.work = "failed"
  /\ run.st = "park" => run.del \subseteq landed
  /\ run.st \in {"trim", "offset"} =>
       \A p \in run.items : IsRow(p) => p \in landed \cup aside

(* At first nothing is in flight. *)
LEMMA RestInit == Init => RestInv /\ RunInv
BY DEF Init, RestInv, RunInv, NoRun, NoBatch

(* Lifecycle, reader and consumer keep what is at rest. *)
LEMMA RestNext == Types /\ RestInv /\ [Next]_vars => RestInv'
<1> SUFFICES ASSUME Types, RestInv, [Next]_vars PROVE RestInv'
  OBVIOUS
<1>1. CASE Lifecycle
  <2>1. CASE BeginStream
    BY <2>1 DEF BeginStream, RestInv
  <2>2. ASSUME NEW by \in {"none", "user"}, TeardownBegin(by) PROVE RestInv'
    BY <2>2 DEF TeardownBegin, RestInv
  <2>3. CASE TeardownDrop
    BY <2>3 DEF TeardownDrop, RestInv, ChainBusy, reader
  <2>4. CASE TeardownEnd \/ Crash
    BY <2>4 DEF TeardownEnd, Crash, Forget, RestInv
  <2> QED BY <1>1, <2>1, <2>2, <2>3, <2>4 DEF Lifecycle, Start, Resume
<1>2. CASE ReaderStep
  <2>1. phase' = phase
    BY <1>2 DEF ReaderStep, Read, FlushTake, HasRoom, Append_, AppendFails, SaveCursor,
                SaveCursorFails, readerFrame, life
  <2>2. phase # "none"
    <3>1. Registered \/ ahead.reach # 0 \/ put.st # "none"
      <4>1. CASE Read \/ FlushTake
        BY <4>1 DEF Read, FlushTake
      <4>2. CASE HasRoom \/ Append_ \/ AppendFails \/ SaveCursor \/ SaveCursorFails
        <5>1. put.st \in {"wait", "append", "save"}
          BY <4>2 DEF HasRoom, Append_, AppendFails, SaveCursor, SaveCursorFails
        <5> QED BY <5>1
      <4> QED BY <1>2, <4>1, <4>2 DEF ReaderStep
    <3> QED BY <3>1, EmptyFields DEF RestInv, Registered
  <2>3. phase = "closing" => ahead' = ahead
    BY <1>2 DEF ReaderStep, Read, FlushTake, HasRoom, Append_, AppendFails, SaveCursor,
                SaveCursorFails, RestInv, Registered
  <2> QED BY <2>1, <2>2, <2>3 DEF RestInv
<1>3. CASE ConsumerStep
  <2>1. phase' = phase /\ ahead' = ahead
    BY <1>3 DEF ConsumerStep, ConsumerEnds, TakeRun, DeliverOk, DeliverFails, HandleFailed, StopRun,
                ParkFull, Park, Trim, SaveOffset, StoreFails, consumerFrame, reader
  <2>2. phase # "none"
    <3>1. CASE ConsumerEnds \/ TakeRun
      BY <3>1 DEF ConsumerEnds, TakeRun, RestInv
    <3>2. CASE ~(ConsumerEnds \/ TakeRun)
      <4>1. run.st \in {"write", "failed", "halting", "park", "trim", "offset"}
        BY <1>3, <3>2 DEF ConsumerStep, DeliverOk, DeliverFails, HandleFailed, StopRun,
                          ParkFull, Park, Trim, SaveOffset, StoreFails
      <4> QED BY <4>1, EmptyFields DEF RestInv
    <3> QED BY <3>1, <3>2
  <2> QED BY <2>1, <2>2 DEF RestInv
<1>4. CASE UNCHANGED vars
  BY <1>4 DEF vars, RestInv, life, reader, consumer
<1> QED BY <1>1, <1>2, <1>3, <1>4 DEF Next

(* What the reader and the teardown leave of a run: all of it. *)
LEMMA RunStays ==
  ASSUME Types, RunInv, consumer' = consumer, log' = log,
         landed \subseteq landed', aside \subseteq aside',
         NEW s \in Seq(Positions), spool' = spool \o s
  PROVE  RunInv'
<1>1. /\ run' = run /\ quota' = quota /\ spool \in Seq(Positions) /\ run.n \in Nat /\ quota \in Nat
  BY DEF consumer, Types, ConsumerType, RunType
<1>2. Len(spool') >= Len(spool) /\ Len(spool) \in Nat /\ Len(spool') \in Nat
      /\ \A i \in 1 .. Len(spool) : spool'[i] = spool[i]
  <2>1. /\ Len(spool) \in Nat /\ Len(s) \in Nat /\ DOMAIN spool = 1 .. Len(spool)
        /\ Len(spool \o s) = Len(spool) + Len(s)
        /\ \A i \in DOMAIN spool : (spool \o s)[i] = spool[i]
    BY <1>1, ConcatFacts
  <2> QED BY <2>1
<1>3. \A i \in 1 .. run.n : i \in 1 .. Len(spool)
  BY <1>1, <1>2 DEF RunInv
<1>4. run.n + quota <= Len(spool')
  BY <1>1, <1>2 DEF RunInv
<1>5. \A i \in 1 .. run.n : spool'[i] \in run.items
  BY <1>2, <1>3 DEF RunInv
<1> QED BY <1>1, <1>4, <1>5 DEF RunInv, IsRow

(* An unfinished append is an append of something. *)
LEMMA NothingAppended == ASSUME Types, spool' = spool PROVE spool' = spool \o <<>> /\ <<>> \in Seq(Positions)
BY DEF Types

(* Every reader step appends something to the spool, perhaps nothing, and touches no run. *)
LEMMA ReaderAppends ==
  ASSUME Types, ReaderStep
  PROVE  /\ consumer' = consumer /\ log' = log /\ landed' = landed /\ aside' = aside /\ dest' = dest
         /\ \E s \in Seq(Positions) : spool' = spool \o s
<1>0. put.items \in Seq(Positions) /\ spool \in Seq(Positions)
  BY DEF Types, ReaderType, PutType
<1>1. CASE Append_
  BY <1>0, <1>1 DEF Append_, source, readerFrame, target
<1>2. CASE AppendFails
  <2>1. PICK s \in Partly(put.items) : spool' = spool \o s
    BY <1>2 DEF AppendFails
  <2>2. s \in Seq(Positions)
    BY <1>0, <2>1, PartlyFacts, Zenon
  <2> QED BY <1>2, <2>1, <2>2 DEF AppendFails, source, target
<1>3. CASE Read \/ FlushTake \/ HasRoom \/ SaveCursor \/ SaveCursorFails
  <2>1. /\ consumer' = consumer /\ log' = log /\ landed' = landed /\ aside' = aside /\ spool' = spool
        /\ dest' = dest
    BY <1>3 DEF Read, FlushTake, HasRoom, SaveCursor, SaveCursorFails, readerFrame, source, target
  <2> QED BY <2>1, NothingAppended, Zenon
<1> QED BY <1>1, <1>2, <1>3 DEF ReaderStep

(* Every lifecycle step that keeps the stream leaves the consumer's data alone. *)
LEMMA CrashAppends ==
  ASSUME Types, Crash
  PROVE  /\ log' = log /\ landed \subseteq landed' /\ aside' = aside
         /\ \E S \in SUBSET (IF run.st = "write" THEN run.items ELSE {}) : Land(S)
         /\ \E s \in Seq(Positions) :
              spool' = spool \o s /\ (put.st = "append" => Items(s) \subseteq Items(put.items))
              /\ (put.st # "append" => Items(s) = {}) /\ Ascends(s)
<1>1. PICK S \in SUBSET (IF run.st = "write" THEN run.items ELSE {}) : Land(S)
  BY DEF Crash
<1>2. S \in SUBSET Positions
  BY <1>1 DEF Types, ConsumerType, RunType
<1>3. landed \subseteq landed'
  BY <1>1, <1>2, LandFacts DEF Types
<1>4. PICK t : t = IF put.st = "append" THEN put.items ELSE <<>>
  OBVIOUS
<1>5. t \in Seq(Positions)
  BY <1>4 DEF Types, ReaderType, PutType
<1>6. PICK s \in Partly(t) : spool' = spool \o s
  BY <1>4 DEF Crash
<1>7. s \in Seq(Positions) /\ Items(s) \subseteq Items(t) /\ Ascends(s)
  BY <1>5, <1>6, PartlyFacts, Zenon
<1>8. put.st # "append" => Items(t) = {}
  BY <1>4 DEF Items
<1> QED BY <1>1, <1>3, <1>4, <1>6, <1>7, <1>8 DEF Crash, source

(* A run that is gone leaves nothing to keep. *)
LEMMA NoRunKept ==
  ASSUME Types, RunInv, run' = NoRun, quota' = quota, spool' = spool
  PROVE  RunInv'
<1>1. run.n \in Nat /\ quota \in Nat /\ Len(spool) \in Nat
  BY DEF Types, ConsumerType, RunType
<1>2. 0 + quota <= Len(spool)
  BY <1>1 DEF RunInv
<1> QED BY <1>2 DEF RunInv, NoRun

(* Every step keeps the run within the spool, and what is trimmed settled. *)
LEMMA RunNext == Types /\ RestInv /\ RunInv /\ [Next]_vars => RunInv'
<1> SUFFICES ASSUME Types, RestInv, RunInv, [Next]_vars PROVE RunInv'
  OBVIOUS
<1>0. /\ spool \in Seq(Positions) /\ run \in RunType /\ quota \in Nat /\ run.n \in Nat
      /\ Len(spool) \in Nat /\ run.items \subseteq Positions /\ log \in [Positions -> Entry]
      /\ run.st \in {"none", "write", "failed", "halting", "park", "trim", "offset"}
  BY SpoolAssumption DEF Types, ConsumerType, RunType, SourceType
<1>z. \A p \in Positions : log[p] \in Entry
  BY <1>0
<1>a. ASSUME spool' = spool, log' = log, quota' = quota, landed \subseteq landed', aside \subseteq aside',
             run'.n = run.n, run'.items = run.items,
             run'.st \in {"none", "offset"} => run.n = 0,
             run'.st \in {"failed", "park", "halting"} => run'.work = "failed",
             run'.st = "park" => run'.del \subseteq landed',
             run'.st \in {"trim", "offset"} => \A p \in run.items : IsRow(p) => p \in landed' \cup aside'
      PROVE  RunInv'
  BY <1>a DEF RunInv, IsRow
<1>1. CASE Lifecycle
  <2>1. CASE BeginStream
    <3>1. run = NoRun /\ run' = run /\ spool' = spool /\ quota' = quota
      BY <2>1 DEF BeginStream, RestInv
    <3> QED BY <3>1, NoRunKept
  <2>2. ASSUME NEW by \in {"none", "user"}, TeardownBegin(by) PROVE RunInv'
    <3>1. consumer' = consumer /\ log' = log /\ landed' = landed /\ aside' = aside /\ spool' = spool
      BY <2>2 DEF TeardownBegin, source, target
    <3> QED BY <3>1, RunStays, NothingAppended, Zenon
  <2>3. CASE TeardownDrop
    <3>1. consumer' = consumer /\ log' = log /\ landed' = landed /\ aside' = aside /\ spool' = spool
      BY <2>3 DEF TeardownDrop, source, target
    <3> QED BY <3>1, RunStays, NothingAppended, Zenon
  <2>4. CASE TeardownEnd
    <3>1. run' = NoRun /\ quota' = 0 /\ spool' = spool
      BY <2>4 DEF TeardownEnd, Forget
    <3> QED BY <1>0, <3>1 DEF RunInv, NoRun
  <2>5. CASE Crash
    <3>1. run' = NoRun /\ quota' = 0
      BY <2>5 DEF Crash, Forget
    <3>2. PICK s \in Seq(Positions) : spool' = spool \o s
      BY <2>5, CrashAppends
    <3>3. Len(spool') \in Nat
      BY <1>0, <3>2
    <3> QED BY <3>1, <3>3 DEF RunInv, NoRun
  <2> QED BY <1>1, <2>1, <2>2, <2>3, <2>4, <2>5 DEF Lifecycle, Start, Resume
<1>2. CASE ReaderStep
  BY <1>2, ReaderAppends, RunStays
<1>3. CASE ConsumerStep
  <2>0. CASE run' = NoRun /\ quota' = quota /\ spool' = spool
    BY <2>0, NoRunKept
  <2>1. CASE ConsumerEnds
    <3>1. spool' = spool /\ log' = log /\ quota' = quota /\ run' = run /\ landed' = landed /\ aside' = aside
      BY <2>1 DEF ConsumerEnds, target, consumerFrame, source
    <3> QED BY <3>1 DEF RunInv, IsRow
  <2>2. CASE TakeRun
    <3>1. PICK n \in 1 .. Len(spool) :
             /\ quota' \in Nat /\ n + quota' <= Len(spool)
             /\ run' = [NoRun EXCEPT !.st = IF IsNotice(spool[1]) THEN "trim" ELSE "write",
                                     !.work = IF IsNotice(spool[1]) THEN "notice" ELSE "ok",
                                     !.items = {spool[i] : i \in 1 .. n}, !.n = n,
                                     !.nextSeq = seq + 1]
             /\ n > 1 => log[spool[1]].op \notin {"truncate", "notice"}
      BY <2>2, TakeFacts, Zenon DEF RunInv, Fits
    <3>2. /\ run'.n = n /\ run'.items = {spool[i] : i \in 1 .. n}
          /\ run'.st = IF IsNotice(spool[1]) THEN "trim" ELSE "write"
      BY <3>1 DEF NoRun
    <3>3. spool' = spool /\ log' = log /\ landed' = landed /\ aside' = aside
      BY <2>2 DEF TakeRun, consumerFrame, source, target
    <3>4. ASSUME IsNotice(spool[1]), NEW p \in run'.items PROVE ~IsRow(p)
      <4>1. spool[1] \in Positions /\ log[spool[1]].kind = "notice"
        BY <1>0, <3>1, <3>4 DEF IsNotice
      <4>2. log[spool[1]].op = "notice"
        BY <1>z, <4>1 DEF Entry
      <4>3. ~(n > 1)
        BY <3>1, <4>2
      <4>4. n = 1 /\ p = spool[1]
        BY <3>1, <3>2, <3>4, <4>3
      <4> QED BY <4>1, <4>4 DEF IsRow
    <3>5. \A p \in run'.items : IsNotice(spool[1]) => ~(IsRow(p))'
      BY <3>3, <3>4 DEF IsRow
    <3>6. run'.st \in {"trim", "write"} /\ (run'.st = "trim" => IsNotice(spool[1]))
      BY <3>2
    <3> QED BY <3>1, <3>2, <3>3, <3>5, <3>6 DEF RunInv
  <2>3. CASE DeliverOk
    <3>1. spool' = spool /\ log' = log /\ quota' = quota /\ aside' = aside /\ Land(run.items)
      BY <2>3 DEF DeliverOk, consumerFrame, source
    <3>2. landed \subseteq landed' /\ run.items \subseteq landed'
      BY <1>0, <3>1, LandFacts DEF Types
    <3>3. CASE halted = "yes"
      BY <2>0, <2>3, <3>3 DEF DeliverOk
    <3>4. CASE halted # "yes"
      <4>1. run' = [run EXCEPT !.st = "trim"]
        BY <2>3, <3>4 DEF DeliverOk
      <4>2. run'.st = "trim" /\ run'.n = run.n /\ run'.items = run.items
        BY <1>0, <4>1 DEF RunType
      <4> QED BY <1>a, <3>1, <3>2, <4>2
    <3> QED BY <3>3, <3>4
  <2>4. CASE DeliverFails
    <3>1. spool' = spool /\ log' = log /\ quota' = quota /\ aside' = aside
      BY <2>4 DEF DeliverFails, consumerFrame, source
    <3>2. PICK S \in SUBSET run.items : Land(S)
      BY <2>4 DEF DeliverFails
    <3>3. landed \subseteq landed'
      BY <1>0, <3>2, LandFacts DEF Types
    <3>4. CASE halted = "yes"
      BY <2>0, <2>4, <3>4 DEF DeliverFails
    <3>5. CASE halted # "yes"
      <4>1. run' = [run EXCEPT !.st = "failed", !.work = "failed"]
        BY <2>4, <3>5 DEF DeliverFails
      <4>2. run'.st = "failed" /\ run'.work = "failed" /\ run'.n = run.n /\ run'.items = run.items
        BY <1>0, <4>1 DEF RunType
      <4> QED BY <1>a, <3>1, <3>3, <4>2
    <3> QED BY <3>4, <3>5
  <2>5. CASE HandleFailed
    <3>1. PICK D \in SUBSET run.items, stop \in BOOLEAN :
             /\ Land(D)
             /\ run' = [run EXCEPT
                          !.del = D,
                          !.nextSeq = seq + IF D # {} /\ D # run.items THEN 2 ELSE 1,
                          !.st = IF stop THEN "halting"
                                 ELSE IF D = run.items THEN "trim"
                                 ELSE IF consec' >= MaxConsecutive THEN "halting" ELSE "park"]
      BY <2>5 DEF HandleFailed
    <3>2. spool' = spool /\ log' = log /\ quota' = quota /\ aside' = aside /\ run.st = "failed"
      BY <2>5 DEF HandleFailed, consumerFrame, source
    <3>3. landed \subseteq landed' /\ D \subseteq landed'
      BY <1>0, <3>1, LandFacts DEF Types
    <3>4. /\ run'.n = run.n /\ run'.items = run.items /\ run'.del = D /\ run'.work = run.work
          /\ run'.st = IF stop THEN "halting"
                       ELSE IF D = run.items THEN "trim"
                       ELSE IF consec' >= MaxConsecutive THEN "halting" ELSE "park"
      BY <1>0, <3>1 DEF RunType
    <3>5. run'.st \in {"halting", "trim", "park"} /\ (run'.st = "trim" => D = run.items)
      BY <3>4
    <3>6. run.work = "failed"
      BY <3>2 DEF RunInv
    <3> QED BY <1>a, <3>2, <3>3, <3>4, <3>5, <3>6
  <2>6. CASE StopRun
    BY <2>0, <2>6 DEF StopRun
  <2>7. CASE ParkFull
    <3>1. /\ spool' = spool /\ log' = log /\ quota' = quota /\ aside' = aside /\ landed' = landed
          /\ run' = [run EXCEPT !.st = "halting"] /\ run.work = "failed"
      BY <2>7 DEF ParkFull, consumerFrame, source, target, RunInv
    <3>2. run'.st = "halting" /\ run'.work = "failed" /\ run'.n = run.n /\ run'.items = run.items
      BY <1>0, <3>1 DEF RunType
    <3> QED BY <1>a, <3>1, <3>2
  <2>8. CASE Park
    <3>1. /\ spool' = spool /\ log' = log /\ quota' = quota /\ aside' = aside \cup AtFault
          /\ landed' = landed /\ run' = [run EXCEPT !.st = "trim"] /\ run.del \subseteq landed
      BY <2>8 DEF Park, consumerFrame, source, RunInv
    <3>2. run'.st = "trim" /\ run'.n = run.n /\ run'.items = run.items
      BY <1>0, <3>1 DEF RunType
    <3>3. \A p \in run.items : p \in landed' \cup aside'
      BY <3>1 DEF AtFault
    <3> QED BY <1>a, <3>1, <3>2, <3>3
  <2>9. CASE Trim
    <3>1. /\ spool' = SubSeq(spool, run.n + 1, Len(spool)) /\ log' = log /\ quota' = quota
          /\ run' = [run EXCEPT !.st = "offset", !.n = 0] /\ run.st = "trim"
          /\ aside' = aside /\ landed' = landed
      BY <2>9 DEF Trim, consumerFrame, source, target
    <3>2. run'.st = "offset" /\ run'.n = 0 /\ run'.items = run.items
      BY <1>0, <3>1 DEF RunType
    <3>3. run.n + quota <= Len(spool)
      BY DEF RunInv
    <3>4. Len(spool') = Len(spool) - run.n
      BY <1>0, <3>1, <3>3, DropFacts
    <3>5. 0 + quota <= Len(spool')
      BY <1>0, <3>3, <3>4
    <3>6. \A p \in run'.items : (IsRow(p))' => p \in landed' \cup aside'
      <4>1. \A p \in run.items : IsRow(p) => p \in landed \cup aside
        BY <3>1 DEF RunInv
      <4> QED BY <3>1, <3>2, <4>1 DEF IsRow
    <3>7. run'.n + quota' <= Len(spool')
      BY <3>1, <3>2, <3>5
    <3> QED BY <3>2, <3>6, <3>7 DEF RunInv
  <2>10. CASE SaveOffset
    BY <2>0, <2>10 DEF SaveOffset
  <2>11. CASE StoreFails
    <3>1. /\ spool' = spool /\ log' = log /\ quota' = quota /\ aside' = aside /\ landed' = landed
          /\ run.st \in {"park", "halting", "trim", "offset"} /\ Retry
      BY <2>11 DEF StoreFails, consumerFrame, source, target
    <3>2. CASE run' = NoRun
      BY <2>0, <3>1, <3>2
    <3>3. CASE run' # NoRun
      <4>1. run' = [run EXCEPT !.st = IF run.work = "failed" THEN "failed" ELSE "trim",
                               !.tries = run.tries + 1]
        BY <3>1, <3>3 DEF Retry
      <4>2. /\ run'.n = run.n /\ run'.items = run.items /\ run'.work = run.work
            /\ run'.st = IF run.work = "failed" THEN "failed" ELSE "trim"
        BY <1>0, <4>1 DEF RunType
      <4>3. run'.st = "trim" => run.st \in {"trim", "offset"}
        BY <3>1, <4>2 DEF RunInv
      <4>4. run'.st \in {"failed", "trim"} /\ (run'.st = "failed" => run'.work = "failed")
        BY <4>2
      <4>5. run.st \in {"trim", "offset"} => \A p \in run.items : IsRow(p) => p \in landed \cup aside
        BY DEF RunInv
      <4> QED BY <1>a, <3>1, <4>2, <4>3, <4>4, <4>5
    <3> QED BY <3>2, <3>3
  <2> QED BY <1>3, <2>1, <2>2, <2>3, <2>4, <2>5, <2>6, <2>7, <2>8, <2>9, <2>10, <2>11 DEF ConsumerStep
<1>4. CASE UNCHANGED vars
  <2>1. spool' = spool /\ log' = log /\ quota' = quota /\ run' = run /\ landed' = landed /\ aside' = aside
    BY <1>4 DEF vars, target, consumer, source
  <2>2. /\ run.st \in {"none", "offset"} => run.n = 0
        /\ run.st \in {"failed", "park", "halting"} => run.work = "failed"
        /\ run.st = "park" => run.del \subseteq landed
        /\ run.st \in {"trim", "offset"} => \A p \in run.items : IsRow(p) => p \in landed \cup aside
    BY DEF RunInv
  <2>3. landed \subseteq landed' /\ aside \subseteq aside' /\ landed' \cup aside' = landed \cup aside
    BY <2>1
  <2> QED BY <1>a, <2>1, <2>2, <2>3
<1> QED BY <1>1, <1>2, <1>3, <1>4 DEF Next

(* Types, rest and run hold together in every reachable state. *)
LEMMA BaseNext == Types /\ RestInv /\ RunInv /\ [Next]_vars => (Types /\ RestInv /\ RunInv)'
<1>1. RunInv => Fits
  BY DEF RunInv, Fits
<1>2. CASE UNCHANGED vars
  <2>1. Types => Types'
    BY <1>2 DEF vars, Types, SourceType, StoreType, TargetType, LifeType, MarkType, ReaderType,
                ConsumerType, FaultType, source, store, target, life, reader, consumer
  <2> QED BY <1>2, <2>1, RestNext, RunNext
<1>3. CASE Next
  <2>1. Types /\ RunInv => Types'
    BY <1>1, <1>3, TypeLifecycle, TypeReader, TypeConsumer DEF Next
  <2> QED BY <1>3, <2>1, RestNext, RunNext
<1> QED BY <1>2, <1>3

-----------------------------------------------------------------------------
(* the spool forgets nothing *)

(* p is in the batch being spooled, and not yet in the spool *)
InPut(p) == put.st \in {"wait", "append"} /\ p \in Items(put.items)
(* p is in the batch that waits for the one before *)
InAhead(p) == ahead.reach # 0 /\ p \in Items(ahead.items)

(* What is behind a saved position, the watermark or the reader is safe, or *)
(* still in the reader's hands.                                             *)
SkipInv ==
  /\ put.st # "none" => put.reach # 0
  /\ \A p \in Positions : p <= job.cursor \/ p <= slot => Safe(p)
  /\ \A p \in Positions : p <= wm \/ (put.st = "save" /\ p <= put.reach) => Safe(p)
  /\ \A p \in Positions : put.st # "none" /\ p <= put.reach => Safe(p) \/ InPut(p)
  /\ Registered /\ halted = "no" =>
       \A p \in Positions : p < next \/ (ahead.reach # 0 /\ p <= ahead.reach) =>
         Safe(p) \/ InPut(p) \/ InAhead(p)

(* At first nothing has been read. *)
LEMMA SkipInit == Init => SkipInv
BY LastPosNat, EmptyFields DEF Init, SkipInv, Positions, Registered

(* What is safe stays so while the spool only grows. *)
LEMMA SafeWhileGrowing ==
  ASSUME Types, log' = log, landed \subseteq landed', aside \subseteq aside',
         NEW s \in Seq(Positions), spool' = spool \o s, NEW p, Safe(p)
  PROVE  Safe(p)'
<1>1. spool \in Seq(Positions)
  BY DEF Types
<1>2. \A i \in DOMAIN spool : i \in DOMAIN spool' /\ spool'[i] = spool[i]
  BY <1>1, ConcatFacts
<1> QED BY <1>2 DEF Safe, IsRow, Spooled

(* What a consumer step leaves alone. *)
LEMMA ConsumerLeaves ==
  ASSUME Types, ConsumerStep
  PROVE  /\ log' = log /\ slot' = slot /\ next' = next /\ phase' = phase /\ wm' = wm
         /\ put' = put /\ ahead' = ahead /\ job'.cursor = job.cursor
         /\ halted' = "no" => halted = "no"
         /\ landed \subseteq landed' /\ aside \subseteq aside'
         /\ spool' = spool \/ Trim
<1>0. run.items \subseteq Positions /\ job \in JobType
  BY DEF Types, ConsumerType, RunType, StoreType
<1>1. /\ log' = log /\ slot' = slot /\ next' = next /\ phase' = phase /\ wm' = wm
      /\ put' = put /\ ahead' = ahead
  BY DEF ConsumerStep, ConsumerEnds, TakeRun, DeliverOk, DeliverFails, HandleFailed, StopRun,
         ParkFull, Park, Trim, SaveOffset, StoreFails, consumerFrame, source, reader
<1>2. spool' = spool \/ Trim
  BY DEF ConsumerStep, ConsumerEnds, TakeRun, DeliverOk, DeliverFails, HandleFailed, StopRun,
         ParkFull, Park, SaveOffset, StoreFails
<1>3. landed \subseteq landed' /\ aside \subseteq aside'
  <2>1. CASE DeliverOk
    BY <1>0, <2>1, LandFacts DEF DeliverOk, Types
  <2>2. CASE DeliverFails
    <3>1. PICK S \in SUBSET run.items : Land(S)
      BY <2>2 DEF DeliverFails
    <3> QED BY <1>0, <2>2, <3>1, LandFacts DEF DeliverFails, Types
  <2>3. CASE HandleFailed
    <3>1. PICK S \in SUBSET run.items : Land(S)
      BY <2>3 DEF HandleFailed
    <3> QED BY <1>0, <2>3, <3>1, LandFacts DEF HandleFailed, Types
  <2>4. CASE ConsumerEnds \/ TakeRun \/ StopRun \/ ParkFull \/ Park \/ Trim \/ SaveOffset \/ StoreFails
    BY <2>4 DEF ConsumerEnds, TakeRun, StopRun, ParkFull, Park, Trim, SaveOffset, StoreFails, target
  <2> QED BY <2>1, <2>2, <2>3, <2>4 DEF ConsumerStep
<1>4. job'.cursor = job.cursor /\ (halted' = "no" => halted = "no")
  <2>1. CASE StopRun
    BY <2>1, HaltFacts DEF StopRun, Types
  <2>2. CASE StoreFails
    <3>1. (job' = job /\ halted' = halted) \/ HaltTo("failed")
      BY <2>2 DEF StoreFails, Retry
    <3> QED BY <3>1, HaltFacts DEF Types
  <2>3. CASE SaveOffset
    BY <1>0, <2>3 DEF SaveOffset, JobType
  <2>4. CASE ConsumerEnds \/ TakeRun \/ DeliverOk \/ DeliverFails \/ HandleFailed \/ ParkFull \/ Park \/ Trim
    BY <2>4 DEF ConsumerEnds, TakeRun, DeliverOk, DeliverFails, HandleFailed, ParkFull, Park, Trim, store
  <2> QED BY <2>1, <2>2, <2>3, <2>4 DEF ConsumerStep
<1> QED BY <1>1, <1>2, <1>3, <1>4

(* A trim takes nothing from the spool that has not been settled. *)
LEMMA SafeUnderTrim ==
  ASSUME Types, RunInv, Trim, NEW p, Safe(p)
  PROVE  Safe(p)'
<1>0. /\ spool \in Seq(Positions) /\ run.n \in Nat /\ quota \in Nat /\ Len(spool) \in Nat
      /\ run.n <= Len(spool)
  BY DEF Types, ConsumerType, RunType, RunInv
<1>1. /\ spool' = SubSeq(spool, run.n + 1, Len(spool)) /\ landed' = landed /\ aside' = aside
      /\ log' = log /\ run.st = "trim"
  BY DEF Trim, target, consumerFrame, source
<1>2. /\ Len(spool') = Len(spool) - run.n /\ spool' \in Seq(Positions)
      /\ \A i \in 1 .. Len(spool) - run.n : spool'[i] = spool[i + run.n]
  BY <1>0, <1>1, DropFacts
<1>3. ASSUME IsRow(p), NEW i \in DOMAIN spool, spool[i] = p
      PROVE  p \in landed \cup aside \/ \E j \in DOMAIN spool' : spool'[j] = p
  <2>0. i \in 1 .. Len(spool) /\ DOMAIN spool' = 1 .. Len(spool')
    BY <1>0, <1>2
  <2>1. CASE i <= run.n
    <3>1. p \in run.items
      BY <1>0, <1>3, <2>0, <2>1 DEF RunInv
    <3> QED BY <1>1, <1>3, <3>1 DEF RunInv
  <2>2. CASE i > run.n
    <3>1. i - run.n \in 1 .. Len(spool) - run.n /\ (i - run.n) + run.n = i
      BY <1>0, <2>0, <2>2
    <3>2. spool'[i - run.n] = p
      BY <1>2, <1>3, <3>1
    <3> QED BY <1>2, <2>0, <3>1, <3>2
  <2> QED BY <1>0, <2>0, <2>1, <2>2
<1>4. IsRow(p) => p \in landed \cup aside \/ \E j \in DOMAIN spool' : spool'[j] = p
  BY <1>3 DEF Safe, Spooled
<1> QED BY <1>1, <1>4 DEF Safe, IsRow, Spooled

(* Whatever is safe stays so. *)
LEMMA SafeStays ==
  ASSUME Types, RunInv, [Next]_vars
  PROVE  log' = log /\ \A p : Safe(p) => Safe(p)'
<1>1. CASE Lifecycle
  <2>1. CASE Crash
    BY <2>1, CrashAppends, SafeWhileGrowing
  <2>2. CASE ~Crash
    <3>1. log' = log /\ landed' = landed /\ aside' = aside /\ spool' = spool
      BY <1>1, <2>2 DEF Lifecycle, Start, Resume, BeginStream, TeardownBegin, TeardownDrop, TeardownEnd,
                        source, target
    <3> QED BY <3>1, NothingAppended, SafeWhileGrowing
  <2> QED BY <2>1, <2>2
<1>2. CASE ReaderStep
  BY <1>2, ReaderAppends, SafeWhileGrowing
<1>3. CASE ConsumerStep
  <2>1. CASE Trim
    BY <1>3, <2>1, SafeUnderTrim, ConsumerLeaves
  <2>2. CASE ~Trim
    <3>1. log' = log /\ landed \subseteq landed' /\ aside \subseteq aside' /\ spool' = spool
      BY <1>3, <2>2, ConsumerLeaves
    <3> QED BY <3>1, NothingAppended, SafeWhileGrowing
  <2> QED BY <2>1, <2>2
<1>4. CASE UNCHANGED vars
  <2>1. log' = log /\ landed' = landed /\ aside' = aside /\ spool' = spool
    BY <1>4 DEF vars, source, target
  <2> QED BY <2>1, NothingAppended, SafeWhileGrowing
<1> QED BY <1>1, <1>2, <1>3, <1>4 DEF Next

(* What neither saves, reads nor hands on leaves everything accounted for. *)
LEMMA SkipFrame ==
  ASSUME SkipInv, \A p : Safe(p) => Safe(p)',
         slot' = slot, next' = next, wm' = wm, put' = put, ahead' = ahead, job'.cursor = job.cursor,
         Registered' /\ halted' = "no" => Registered /\ halted = "no"
  PROVE  SkipInv'
<1>1. \A p : (InPut(p) <=> InPut(p)') /\ (InAhead(p) <=> InAhead(p)')
  BY DEF InPut, InAhead
<1> QED BY <1>1 DEF SkipInv

(* With a stream that is gone only what is stored must be safe. *)
LEMMA SkipAtRest ==
  ASSUME SkipInv, \A p : Safe(p) => Safe(p)', slot' = slot, job'.cursor = job.cursor,
         put' = NoPut, wm' = 0, phase' = "none"
  PROVE  SkipInv'
<1>1. \A p \in Positions : ~(p <= wm')
  BY LastPosNat DEF Positions
<1>2. ~Registered'
  BY DEF Registered
<1> QED BY <1>1, <1>2, EmptyFields DEF SkipInv

(* The lifecycle keeps everything accounted for. *)
LEMMA SkipLifecycle ==
  ASSUME Types, RestInv, RunInv, SkipInv, Lifecycle
  PROVE  SkipInv'
<1>0. log' = log /\ \A p : Safe(p) => Safe(p)'
  BY SafeStays DEF Next
<1>1. CASE BeginStream
  <2>1. /\ put = NoPut /\ ahead = NoBatch /\ put' = put /\ ahead' = ahead /\ wm' = job.cursor
        /\ slot' = slot /\ job'.cursor = job.cursor
    BY <1>1 DEF BeginStream, RestInv, reader, Types, StoreType, JobType
  <2>2. PICK from \in {slot, job.cursor} : next' = from + 1
    BY <1>1 DEF BeginStream
  <2>3. slot \in Nat /\ job.cursor \in Nat
    BY LastPosNat DEF Types, SourceType, StoreType, JobType
  <2>4. \A p \in Positions : p <= job.cursor \/ p <= slot => Safe(p)'
    BY <1>0 DEF SkipInv
  <2>5. \A p \in Positions : p < next' => Safe(p)'
    <3>1. \A p \in Positions : p < next' => p <= from
      BY <2>2, <2>3, LastPosNat DEF Positions
    <3> QED BY <2>2, <2>4, <3>1
  <2>6. put'.st = "none" /\ ahead'.reach = 0
    BY <2>1, EmptyFields
  <2> QED BY <2>1, <2>4, <2>5, <2>6 DEF SkipInv
<1>2. ASSUME NEW by \in {"none", "user"}, TeardownBegin(by) PROVE SkipInv'
  <2>1. /\ slot' = slot /\ next' = next /\ wm' = wm /\ put' = put /\ ahead' = ahead /\ job' = job
        /\ halted' = halted /\ phase = "live"
    BY <1>2 DEF TeardownBegin, source, store, reader
  <2> QED BY <1>0, <2>1, SkipFrame DEF Registered
<1>3. CASE TeardownDrop
  <2>1. /\ slot' = slot /\ next' = next /\ wm' = wm /\ put' = put /\ ahead' = ahead /\ job' = job
        /\ halted' = halted /\ phase' = "closing"
    BY <1>3 DEF TeardownDrop, source, store, reader
  <2> QED BY <1>0, <2>1, SkipFrame DEF Registered
<1>4. CASE TeardownEnd
  <2>1. slot' = slot /\ job'.cursor = job.cursor /\ put' = NoPut /\ wm' = 0 /\ phase' = "none"
    BY <1>4 DEF TeardownEnd, Forget, source, Types, StoreType, JobType
  <2> QED BY <1>0, <2>1, SkipAtRest
<1>5. CASE Crash
  <2>1. slot' = slot /\ job' = job /\ put' = NoPut /\ wm' = 0 /\ phase' = "none"
    BY <1>5 DEF Crash, Forget, source, store
  <2> QED BY <1>0, <2>1, SkipAtRest
<1> QED BY <1>1, <1>2, <1>3, <1>4, <1>5 DEF Lifecycle, Start, Resume

(* The reader hands every row on: from the log to its batch, from the batch *)
(* to the spool, and only then past the watermark and the cursor.           *)
LEMMA SkipReader ==
  ASSUME Types, RestInv, RunInv, SkipInv, ReaderStep
  PROVE  SkipInv'
<1>0. log' = log /\ \A p : Safe(p) => Safe(p)'
  BY SafeStays DEF Next
<1>t. /\ put \in PutType /\ ahead \in BatchType /\ wm \in 0 .. LastPos /\ log \in [Positions -> Entry]
      /\ spool \in Seq(Positions) /\ put.items \in Seq(Positions)
  BY SpoolAssumption DEF Types, ReaderType, MarkType, SourceType, PutType
<1>1. CASE Read
  <2>1. PICK hi \in next .. LastPos : next' = hi + 1 /\ ahead' \in Batch(next, hi)
    BY <1>1 DEF Read
  <2>2. /\ Registered /\ halted = "no" /\ ~ChainBusy
        /\ slot' = slot /\ put' = put /\ wm' = wm /\ job' = job
    BY <1>1 DEF Read, readerFrame, store
  <2>3. next \in Positions /\ hi \in Positions /\ log \in Logs
    BY <1>1, <2>1, LastPosNat DEF Types, SourceType, Positions, Read
  <2>4. /\ Items(ahead'.items) = {p \in next .. hi : log[p].kind # "skip" /\ p > wm}
        /\ ahead'.reach = IF hi > wm THEN hi ELSE 0
    BY <1>t, <2>1, <2>3, BatchFacts, Zenon
  <2>5. \A p : InPut(p) <=> InPut(p)'
    BY <2>2 DEF InPut
  <2>6. ASSUME NEW p \in Positions, p <= hi PROVE Safe(p)' \/ InPut(p)' \/ InAhead(p)'
    <3>1. CASE p < next
      <4>1. ~InAhead(p)
        BY <2>2 DEF ChainBusy, InAhead
      <4> QED BY <1>0, <2>2, <2>5, <3>1, <4>1 DEF SkipInv
    <3>2. CASE ~(p < next) /\ IsRow(p) /\ p > wm
      <4>1. p \in next .. hi
        BY <2>3, <2>6, <3>2, LastPosNat DEF Positions
      <4>2. p \in Items(ahead'.items)
        BY <2>4, <3>2, <4>1 DEF IsRow
      <4>3. ahead'.reach # 0
        BY <1>t, <2>3, <2>4, <2>6, <3>2, LastPosNat DEF Positions
      <4> QED BY <4>2, <4>3 DEF InAhead
    <3>3. CASE ~IsRow(p)
      BY <1>0, <3>3 DEF Safe
    <3>4. CASE ~(p > wm)
      <4>1. p <= wm
        BY <1>t, <3>4, LastPosNat DEF Positions
      <4> QED BY <1>0, <4>1 DEF SkipInv
    <3> QED BY <3>1, <3>2, <3>3, <3>4
  <2>7. \A p \in Positions : p < next' \/ (ahead'.reach # 0 /\ p <= ahead'.reach) => p <= hi
    BY <2>1, <2>3, <2>4, LastPosNat DEF Positions
  <2> QED BY <1>0, <2>2, <2>5, <2>6, <2>7 DEF SkipInv
<1>2. CASE FlushTake
  <2>1. /\ ahead.reach # 0 /\ put.st = "none" /\ ahead' = NoBatch /\ slot' = slot /\ next' = next
        /\ wm' = wm /\ job' = job /\ halted' = halted /\ phase' = phase
    BY <1>2 DEF FlushTake, source, readerFrame, store, life
  <2>2. CASE Registered /\ halted = "no"
    <3>1. put' = [NoPut EXCEPT !.st = "wait", !.items = ahead.items, !.reach = ahead.reach]
      BY <1>2, <2>2 DEF FlushTake
    <3>2. put'.st = "wait" /\ put'.items = ahead.items /\ put'.reach = ahead.reach
      BY <3>1 DEF NoPut
    <3>4. \A p : InAhead(p) => InPut(p)'
      BY <3>2 DEF InAhead, InPut
    <3>5. \A p \in Positions : p < next \/ p <= ahead.reach => Safe(p)' \/ InPut(p)'
      <4>1. \A p \in Positions : p < next \/ p <= ahead.reach => Safe(p) \/ InPut(p) \/ InAhead(p)
        BY <2>1, <2>2 DEF SkipInv
      <4>2. \A p : ~InPut(p)
        BY <2>1 DEF InPut
      <4> QED BY <1>0, <3>4, <4>1, <4>2
    <3>6. ahead'.reach = 0
      BY <2>1, EmptyFields
    <3> QED BY <1>0, <2>1, <3>2, <3>5, <3>6 DEF SkipInv
  <2>3. CASE ~(Registered /\ halted = "no")
    <3>1. put' = NoPut /\ put'.st = "none" /\ ~(Registered' /\ halted' = "no")
      BY <1>2, <2>1, <2>3, EmptyFields DEF FlushTake, Registered
    <3> QED BY <1>0, <2>1, <3>1 DEF SkipInv
  <2> QED BY <2>2, <2>3
<1>3. CASE HasRoom
  <2>1. /\ put.st = "wait" /\ ahead' = ahead /\ slot' = slot /\ next' = next
        /\ wm' = wm /\ job' = job /\ halted' = halted /\ phase' = phase
    BY <1>3 DEF HasRoom, source, store, life
  <2>2. CASE ~Registered \/ halted = "yes"
    <3>1. put' = NoPut /\ put'.st = "none" /\ ~(Registered' /\ halted' = "no")
      BY <1>3, <2>1, <2>2, EmptyFields DEF HasRoom, Registered
    <3> QED BY <1>0, <2>1, <3>1 DEF SkipInv
  <2>3. CASE ~(~Registered \/ halted = "yes")
    <3>1. put' = [put EXCEPT !.st = IF put.items = <<>> THEN "save" ELSE "append"]
      BY <1>3, <2>3 DEF HasRoom
    <3>2. /\ put'.items = put.items /\ put'.reach = put.reach
          /\ put'.st = IF put.items = <<>> THEN "save" ELSE "append"
      BY <1>t, <3>1 DEF PutType
    <3>3. \A p : InPut(p) => InPut(p)'
      BY <2>1, <3>2 DEF InPut, Items
    <3>4. put'.st = "save" => \A p : ~InPut(p)
      BY <3>2 DEF InPut, Items
    <3>5. \A p : InAhead(p) => InAhead(p)'
      BY <2>1 DEF InAhead
    <3>6. \A p \in Positions : p <= put.reach => Safe(p) \/ InPut(p)
      BY <2>1 DEF SkipInv
    <3>7. put.reach # 0 /\ \A p \in Positions : p <= wm => Safe(p)
      BY <2>1 DEF SkipInv
    <3>8. Registered' <=> Registered
      BY <2>1 DEF Registered
    <3> QED BY <1>0, <2>1, <3>2, <3>3, <3>4, <3>5, <3>6, <3>7, <3>8 DEF SkipInv
  <2> QED BY <2>2, <2>3
<1>4. CASE Append_
  <2>1. /\ put.st = "append" /\ ahead' = ahead /\ slot' = slot /\ next' = next
        /\ wm' = wm /\ job' = job /\ halted' = halted /\ phase' = phase
        /\ spool' = spool \o put.items /\ put' = [put EXCEPT !.st = "save"]
    BY <1>4 DEF Append_, source, store, life, readerFrame
  <2>2. put'.items = put.items /\ put'.reach = put.reach /\ put'.st = "save"
    BY <1>t, <2>1 DEF PutType
  <2>3. ASSUME NEW p, InPut(p) PROVE Safe(p)'
    <3>1. PICK i \in DOMAIN put.items : put.items[i] = p
      BY <2>3 DEF InPut, Items
    <3>2. Len(spool) + i \in DOMAIN spool' /\ spool'[Len(spool) + i] = put.items[i]
      BY <1>t, <2>1, <3>1, ConcatFacts
    <3> QED BY <3>1, <3>2 DEF Safe, Spooled
  <2>4. \A p : InAhead(p) => InAhead(p)'
    BY <2>1 DEF InAhead
  <2>5. put.reach # 0 /\ \A p \in Positions : p <= put.reach => Safe(p) \/ InPut(p)
    BY <2>1 DEF SkipInv
  <2>6. Registered' <=> Registered
    BY <2>1 DEF Registered
  <2> QED BY <1>0, <2>1, <2>2, <2>3, <2>4, <2>5, <2>6 DEF SkipInv
<1>5. CASE AppendFails
  <2>1. /\ put.st = "append" /\ ahead' = ahead /\ slot' = slot /\ next' = next
        /\ wm' = wm /\ phase' = phase
    BY <1>5 DEF AppendFails, source
  <2>2. CASE put.tries + 1 < AppendAttempts
    <3>1. put' = [put EXCEPT !.tries = put.tries + 1] /\ job' = job /\ halted' = halted
      BY <1>5, <2>2 DEF AppendFails
    <3>2. put'.items = put.items /\ put'.reach = put.reach /\ put'.st = "append"
      BY <1>t, <2>1, <3>1 DEF PutType
    <3>3. \A p : InPut(p) => InPut(p)'
      BY <3>2 DEF InPut
    <3>4. \A p : InAhead(p) => InAhead(p)'
      BY <2>1 DEF InAhead
    <3>5. put.reach # 0 /\ \A p \in Positions : p <= put.reach => Safe(p) \/ InPut(p)
      BY <2>1 DEF SkipInv
    <3>6. Registered' <=> Registered
      BY <2>1 DEF Registered
    <3> QED BY <1>0, <2>1, <3>1, <3>2, <3>3, <3>4, <3>5, <3>6 DEF SkipInv
  <2>3. CASE ~(put.tries + 1 < AppendAttempts)
    <3>1. put' = NoPut /\ HaltTo("failed")
      BY <1>5, <2>3 DEF AppendFails
    <3>2. job'.cursor = job.cursor /\ halted' = "yes"
      BY <3>1, HaltFacts DEF Types
    <3> QED BY <1>0, <2>1, <3>1, <3>2, EmptyFields DEF SkipInv
  <2> QED BY <2>2, <2>3
<1>6. CASE SaveCursor \/ SaveCursorFails
  <2>1. /\ put.st = "save" /\ ahead' = ahead /\ next' = next /\ put' = NoPut
        /\ wm' = put.reach /\ phase' = phase /\ halted' = halted
        /\ slot' \in {slot, put.reach} /\ job'.cursor \in {job.cursor, put.reach}
    <3>1. job \in JobType
      BY DEF Types, StoreType
    <3>2. job' = job \/ job' = [job EXCEPT !.cursor = put.reach]
      BY <1>6 DEF SaveCursor, SaveCursorFails, store
    <3>3. job'.cursor \in {job.cursor, put.reach}
      BY <3>1, <3>2 DEF JobType
    <3> QED BY <1>6, <3>3 DEF SaveCursor, SaveCursorFails, source, life
  <2>2. \A p \in Positions : p <= put.reach => Safe(p)
    BY <2>1 DEF SkipInv
  <2>3. \A p : ~InPut(p)
    BY <2>1 DEF InPut
  <2>4. \A p : InAhead(p) => InAhead(p)'
    BY <2>1 DEF InAhead
  <2>5. Registered' <=> Registered
    BY <2>1 DEF Registered
  <2> QED BY <1>0, <2>1, <2>2, <2>3, <2>4, <2>5, EmptyFields DEF SkipInv
<1> QED BY <1>1, <1>2, <1>3, <1>4, <1>5, <1>6 DEF ReaderStep

(* Every step keeps everything accounted for. *)
LEMMA SkipNext == Types /\ RestInv /\ RunInv /\ SkipInv /\ [Next]_vars => SkipInv'
<1> SUFFICES ASSUME Types, RestInv, RunInv, SkipInv, [Next]_vars PROVE SkipInv'
  OBVIOUS
<1>1. CASE ConsumerStep
  <2>1. /\ slot' = slot /\ next' = next /\ wm' = wm /\ put' = put /\ ahead' = ahead
        /\ job'.cursor = job.cursor /\ phase' = phase /\ (halted' = "no" => halted = "no")
    BY <1>1, ConsumerLeaves
  <2> QED BY <2>1, SafeStays, SkipFrame DEF Registered
<1>2. CASE UNCHANGED vars
  <2>1. /\ slot' = slot /\ next' = next /\ wm' = wm /\ put' = put /\ ahead' = ahead
        /\ job'.cursor = job.cursor /\ phase' = phase /\ halted' = halted
    BY <1>2 DEF vars, source, store, life, reader
  <2> QED BY <2>1, SafeStays, SkipFrame DEF Registered
<1> QED BY <1>1, <1>2, SkipLifecycle, SkipReader DEF Next

(* Every variable of the pipeline with the spool keeps its type. *)
THEOREM SpoolTypes == Spec => []TypeOK
<1>1. Init => Types /\ RestInv /\ RunInv
  BY TypeInit, RestInit
<1> QED BY <1>1, BaseNext, TypesMeanTypeOK, PTL DEF Spec

(* However appends, saves, deliveries and trims fail, whoever stops the     *)
(* bridge and whenever the process dies, a row behind the saved cursor or   *)
(* behind what the source may forget is in the spool until it is delivered  *)
(* or set aside (spoolBatch, deliverSpooled, trimThrough).                  *)
THEOREM SpoolForgetsNothing == Spec => []NothingSkipped
<1>1. Init => Types /\ RestInv /\ RunInv /\ SkipInv
  BY TypeInit, RestInit, SkipInit
<1>2. SkipInv => NothingSkipped
  BY DEF SkipInv, NothingSkipped, Safe
<1> QED BY <1>1, <1>2, BaseNext, SkipNext, PTL DEF Spec

-----------------------------------------------------------------------------
(* the order of what the reader has taken *)

(* Slot, cursor, watermark, the batch being spooled, the one that waits and *)
(* the place of the reader follow one another, and between the watermark    *)
(* and the reader no row is missing.                                        *)
OrderInv ==
  /\ slot <= job.cursor
  /\ phase # "none" => job.cursor <= wm
  /\ ahead.reach < next
  /\ put.st # "none" => wm < put.reach /\ put.reach < next
  /\ ahead.reach # 0 => wm < ahead.reach /\ (put.st # "none" => put.reach < ahead.reach)
  /\ Ascends(put.items) /\ \A p \in Items(put.items) : wm < p /\ p <= put.reach
  /\ Ascends(ahead.items)
  /\ \A p \in Items(ahead.items) :
       wm < p /\ p <= ahead.reach /\ (put.st # "none" => put.reach < p)
  /\ put.st \in {"wait", "append"} =>
       \A p \in Positions : wm < p /\ p <= put.reach /\ IsRow(p) => InPut(p)
  /\ Registered /\ halted = "no" =>
       \A p \in Positions : wm < p /\ p < next /\ IsRow(p) =>
         InPut(p) \/ InAhead(p) \/ (put.st = "save" /\ p <= put.reach)

(* The empty batches have nothing out of order. *)
LEMMA EmptyOrder ==
  /\ Ascends(NoPut.items) /\ Items(NoPut.items) = {}
  /\ Ascends(NoBatch.items) /\ Items(NoBatch.items) = {}
BY DEF NoPut, NoBatch, Ascends, Items

(* At first nothing has been taken. *)
LEMMA OrderInit == Init => OrderInv
BY EmptyFields, EmptyOrder DEF Init, OrderInv, Registered

(* What neither saves, reads nor hands on keeps the order. *)
LEMMA OrderFrame ==
  ASSUME OrderInv, log' = log,
         slot' = slot, next' = next, wm' = wm, put' = put, ahead' = ahead, job'.cursor = job.cursor,
         phase' # "none" => phase # "none",
         Registered' /\ halted' = "no" => Registered /\ halted = "no"
  PROVE  OrderInv'
<1>1. \A p : (InPut(p) <=> InPut(p)') /\ (InAhead(p) <=> InAhead(p)') /\ (IsRow(p) <=> IsRow(p)')
  BY DEF InPut, InAhead, IsRow
<1>2. /\ Ascends(put'.items) <=> Ascends(put.items)
      /\ Ascends(ahead'.items) <=> Ascends(ahead.items)
      /\ Items(put'.items) = Items(put.items) /\ Items(ahead'.items) = Items(ahead.items)
  OBVIOUS
<1> QED BY <1>1, <1>2 DEF OrderInv

(* Without a stream nothing is out of order. *)
LEMMA OrderAtRest ==
  ASSUME Types, OrderInv, slot' = slot, job'.cursor = job.cursor, next' = next,
         put' = NoPut, ahead' = NoBatch, phase' = "none"
  PROVE  OrderInv'
<1>1. ~Registered'
  BY DEF Registered
<1>2. 0 < next
  BY LastPosNat DEF Types, SourceType
<1> QED BY <1>1, <1>2, EmptyFields, EmptyOrder DEF OrderInv

(* The reader keeps the order. *)
LEMMA OrderReader ==
  ASSUME Types, RestInv, OrderInv, ReaderStep
  PROVE  OrderInv'
<1>t. /\ put \in PutType /\ ahead \in BatchType /\ wm \in 0 .. LastPos /\ log \in [Positions -> Entry]
      /\ put.items \in Seq(Positions) /\ put.reach \in 0 .. LastPos /\ ahead.reach \in 0 .. LastPos
      /\ next \in 1 .. LastPos + 1 /\ job.cursor \in 0 .. LastPos /\ slot \in 0 .. LastPos
  BY SpoolAssumption DEF Types, ReaderType, MarkType, SourceType, PutType, BatchType, StoreType, JobType
<1>p. \A p \in Positions : p \in Nat
  BY LastPosNat DEF Positions
<1>r. log' = log /\ \A p : IsRow(p)' <=> IsRow(p)
  BY ReaderAppends DEF IsRow
<1>1. CASE Read
  <2>1. PICK hi \in next .. LastPos : next' = hi + 1 /\ ahead' \in Batch(next, hi)
    BY <1>1 DEF Read
  <2>2. /\ Registered /\ halted = "no" /\ ~ChainBusy /\ phase' = phase
        /\ slot' = slot /\ put' = put /\ wm' = wm /\ job' = job
    BY <1>1 DEF Read, readerFrame, store, life
  <2>3. next \in Positions /\ hi \in Positions /\ log \in Logs
    BY <1>1, <2>1, LastPosNat DEF Types, SourceType, Positions, Read
  <2>4. /\ Items(ahead'.items) = {p \in next .. hi : log[p].kind # "skip" /\ p > wm}
        /\ ahead'.reach = IF hi > wm THEN hi ELSE 0
        /\ Ascends(ahead'.items)
    BY <1>t, <2>1, <2>3, BatchFacts, Zenon
  <2>5. \A p : InPut(p) <=> InPut(p)'
    BY <2>2 DEF InPut
  <2>6. ahead'.reach < next' /\ (ahead'.reach # 0 => wm < ahead'.reach /\ hi = ahead'.reach)
    BY <1>t, <1>p, <2>1, <2>3, <2>4
  <2>7. put.st # "none" => put.reach < next /\ wm < put.reach
    BY DEF OrderInv
  <2>8. put.st # "none" => put.reach < next' /\ (ahead'.reach # 0 => put.reach < ahead'.reach)
    BY <1>t, <1>p, <2>1, <2>3, <2>6, <2>7
  <2>9. \A p \in Items(ahead'.items) :
           wm < p /\ p <= ahead'.reach /\ (put.st # "none" => put.reach < p)
    BY <1>t, <1>p, <2>3, <2>4, <2>7
  <2>10. ASSUME NEW p \in Positions, wm < p, p < next', IsRow(p)
         PROVE  InPut(p)' \/ InAhead(p)' \/ (put.st = "save" /\ p <= put.reach)
    <3>1. CASE p < next
      <4>1. ~InAhead(p)
        BY <2>2 DEF ChainBusy, InAhead
      <4> QED BY <2>2, <2>5, <2>10, <3>1, <4>1 DEF OrderInv
    <3>2. CASE ~(p < next)
      <4>1. p \in next .. hi /\ hi > wm
        BY <1>t, <1>p, <2>1, <2>3, <2>10, <3>2
      <4>2. p \in Items(ahead'.items) /\ ahead'.reach # 0
        BY <1>p, <2>3, <2>4, <2>10, <4>1, LastPosNat DEF IsRow, Positions
      <4> QED BY <4>2 DEF InAhead
    <3> QED BY <3>1, <3>2
  <2>11. put.st \in {"wait", "append"} =>
           \A p \in Positions : wm < p /\ p <= put.reach /\ IsRow(p) => InPut(p)
    BY DEF OrderInv
  <2>12. /\ slot <= job.cursor /\ (phase # "none" => job.cursor <= wm)
         /\ Ascends(put.items) /\ \A p \in Items(put.items) : wm < p /\ p <= put.reach
    BY DEF OrderInv
  <2> QED BY <1>r, <2>2, <2>4, <2>5, <2>6, <2>7, <2>8, <2>9, <2>10, <2>11, <2>12 DEF OrderInv
<1>2. CASE FlushTake
  <2>1. /\ ahead.reach # 0 /\ put.st = "none" /\ ahead' = NoBatch /\ slot' = slot /\ next' = next
        /\ wm' = wm /\ job' = job /\ halted' = halted /\ phase' = phase
    BY <1>2 DEF FlushTake, source, readerFrame, store, life
  <2>2. CASE Registered /\ halted = "no"
    <3>1. put' = [NoPut EXCEPT !.st = "wait", !.items = ahead.items, !.reach = ahead.reach]
      BY <1>2, <2>2 DEF FlushTake
    <3>2. put'.st = "wait" /\ put'.items = ahead.items /\ put'.reach = ahead.reach
      BY <3>1 DEF NoPut
    <3>3. \A p : ~InPut(p) /\ (InAhead(p) => InPut(p)')
      BY <2>1, <3>2 DEF InAhead, InPut
    <3>4. \A p \in Positions : wm < p /\ p < next /\ IsRow(p) => InPut(p)'
      BY <2>1, <2>2, <3>3 DEF OrderInv
    <3>5. \A p \in Positions : p <= ahead.reach => p < next
      BY <1>t, <1>p DEF OrderInv
    <3>6. ahead'.reach = 0 /\ Ascends(ahead'.items) /\ Items(ahead'.items) = {} /\ 0 < next
      BY <1>t, <2>1, EmptyFields, EmptyOrder
    <3>7. /\ slot <= job.cursor /\ (phase # "none" => job.cursor <= wm)
          /\ Ascends(ahead.items) /\ (\A p \in Items(ahead.items) : wm < p /\ p <= ahead.reach)
          /\ ahead.reach < next /\ wm < ahead.reach
      BY <2>1 DEF OrderInv
    <3> QED BY <1>r, <2>1, <3>2, <3>4, <3>5, <3>6, <3>7 DEF OrderInv
  <2>3. CASE ~(Registered /\ halted = "no")
    <3>1. put' = NoPut /\ put'.st = "none" /\ ~(Registered' /\ halted' = "no")
      BY <1>2, <2>1, <2>3, EmptyFields DEF FlushTake, Registered
    <3>2. ahead'.reach = 0 /\ 0 < next
      BY <1>t, <2>1, EmptyFields
    <3> QED BY <2>1, <3>1, <3>2, EmptyOrder DEF OrderInv
  <2> QED BY <2>2, <2>3
<1>3. ASSUME put.st # "none", slot' = slot, next' = next, wm' = wm, job'.cursor = job.cursor,
             phase' = phase, ahead' = ahead, put' = NoPut, ~(Registered' /\ halted' = "no")
      PROVE  OrderInv'
  <2>1. /\ slot <= job.cursor /\ (phase # "none" => job.cursor <= wm) /\ ahead.reach < next
        /\ Ascends(ahead.items) /\ (\A p \in Items(ahead.items) : wm < p /\ p <= ahead.reach)
        /\ (ahead.reach # 0 => wm < ahead.reach)
    BY DEF OrderInv
  <2> QED BY <1>3, <2>1, EmptyFields, EmptyOrder DEF OrderInv
<1>4. ASSUME put.st \in {"wait", "append"}, slot' = slot, next' = next, wm' = wm, job'.cursor = job.cursor,
             phase' = phase, ahead' = ahead, put'.items = put.items, put'.reach = put.reach,
             put'.st \in {"wait", "append", "save"},
             Registered' /\ halted' = "no" => Registered /\ halted = "no"
      PROVE  OrderInv'
  <2>1. \A p : (InAhead(p) <=> InAhead(p)') /\ (put'.st # "save" /\ InPut(p) => InPut(p)')
    BY <1>4 DEF InAhead, InPut
  <2>2. /\ slot <= job.cursor /\ (phase # "none" => job.cursor <= wm) /\ ahead.reach < next
        /\ Ascends(ahead.items) /\ (\A p \in Items(ahead.items) : wm < p /\ p <= ahead.reach /\ put.reach < p)
        /\ (ahead.reach # 0 => wm < ahead.reach /\ put.reach < ahead.reach)
        /\ wm < put.reach /\ put.reach < next
        /\ Ascends(put.items) /\ (\A p \in Items(put.items) : wm < p /\ p <= put.reach)
        /\ \A p \in Positions : wm < p /\ p <= put.reach /\ IsRow(p) => InPut(p)
    BY <1>4 DEF OrderInv
  <2>3. ASSUME Registered, halted = "no", NEW p \in Positions, wm < p, p < next, IsRow(p)
        PROVE  InPut(p)' \/ InAhead(p)' \/ (put'.st = "save" /\ p <= put.reach)
    <3>1. InPut(p) \/ InAhead(p)
      BY <1>4, <2>3 DEF OrderInv
    <3>2. InPut(p) => p <= put.reach
      BY <2>2 DEF InPut
    <3> QED BY <2>1, <3>1, <3>2
  <2> QED BY <1>4, <1>r, <2>1, <2>2, <2>3 DEF OrderInv
<1>5. CASE HasRoom
  <2>1. /\ put.st = "wait" /\ ahead' = ahead /\ slot' = slot /\ next' = next
        /\ wm' = wm /\ job' = job /\ halted' = halted /\ phase' = phase
    BY <1>5 DEF HasRoom, source, store, life
  <2>2. CASE ~Registered \/ halted = "yes"
    <3>1. put' = NoPut /\ ~(Registered' /\ halted' = "no")
      BY <1>5, <2>1, <2>2 DEF HasRoom, Registered
    <3> QED BY <1>3, <2>1, <3>1
  <2>3. CASE ~(~Registered \/ halted = "yes")
    <3>1. put' = [put EXCEPT !.st = IF put.items = <<>> THEN "save" ELSE "append"]
      BY <1>5, <2>3 DEF HasRoom
    <3>2. put'.items = put.items /\ put'.reach = put.reach /\ put'.st \in {"append", "save"}
      BY <1>t, <3>1 DEF PutType
    <3> QED BY <1>4, <2>1, <2>3, <3>2
  <2> QED BY <2>2, <2>3
<1>6. CASE Append_
  <2>1. /\ put.st = "append" /\ ahead' = ahead /\ slot' = slot /\ next' = next
        /\ wm' = wm /\ job' = job /\ halted' = halted /\ phase' = phase
        /\ put' = [put EXCEPT !.st = "save"]
    BY <1>6 DEF Append_, source, store, life, readerFrame
  <2>2. put'.items = put.items /\ put'.reach = put.reach /\ put'.st = "save"
    BY <1>t, <2>1 DEF PutType
  <2> QED BY <1>4, <2>1, <2>2 DEF Registered
<1>7. CASE AppendFails
  <2>1. /\ put.st = "append" /\ ahead' = ahead /\ slot' = slot /\ next' = next
        /\ wm' = wm /\ phase' = phase
    BY <1>7 DEF AppendFails, source
  <2>2. CASE put.tries + 1 < AppendAttempts
    <3>1. put' = [put EXCEPT !.tries = put.tries + 1] /\ job' = job /\ halted' = halted
      BY <1>7, <2>2 DEF AppendFails
    <3>2. put'.items = put.items /\ put'.reach = put.reach /\ put'.st = "append"
      BY <1>t, <2>1, <3>1 DEF PutType
    <3> QED BY <1>4, <2>1, <3>1, <3>2 DEF Registered
  <2>3. CASE ~(put.tries + 1 < AppendAttempts)
    <3>1. put' = NoPut /\ HaltTo("failed")
      BY <1>7, <2>3 DEF AppendFails
    <3>2. job'.cursor = job.cursor /\ halted' = "yes"
      BY <3>1, HaltFacts DEF Types
    <3> QED BY <1>3, <2>1, <3>1, <3>2
  <2> QED BY <2>2, <2>3
<1>8. CASE SaveCursor \/ SaveCursorFails
  <2>1. /\ put.st = "save" /\ ahead' = ahead /\ next' = next /\ put' = NoPut
        /\ wm' = put.reach /\ phase' = phase /\ halted' = halted
        /\ (slot' = slot /\ job'.cursor = job.cursor)
             \/ (slot' \in {slot, put.reach} /\ job'.cursor = put.reach)
    <3>1. job \in JobType
      BY DEF Types, StoreType
    <3>2. CASE SaveCursor
      <4>1. job' = [job EXCEPT !.cursor = put.reach] /\ slot' \in {slot, put.reach}
        BY <3>2 DEF SaveCursor
      <4>2. job'.cursor = put.reach
        BY <3>1, <4>1 DEF JobType
      <4> QED BY <3>2, <4>1, <4>2 DEF SaveCursor, life
    <3>3. CASE SaveCursorFails
      BY <3>3 DEF SaveCursorFails, source, life, store
    <3> QED BY <1>8, <3>2, <3>3
  <2>2. phase # "none"
    BY <2>1, EmptyFields DEF RestInv
  <2>3. /\ slot <= job.cursor /\ job.cursor <= wm /\ ahead.reach < next
        /\ Ascends(ahead.items) /\ (\A p \in Items(ahead.items) : put.reach < p /\ p <= ahead.reach)
        /\ (ahead.reach # 0 => put.reach < ahead.reach)
        /\ wm < put.reach /\ put.reach < next
    BY <2>1, <2>2 DEF OrderInv
  <2>4. slot' <= job'.cursor /\ job'.cursor <= wm'
    BY <1>t, <2>1, <2>3
  <2>5. \A p : InAhead(p) => InAhead(p)'
    BY <2>1 DEF InAhead
  <2>6. ASSUME Registered, halted = "no", NEW p \in Positions, put.reach < p, p < next, IsRow(p)
        PROVE  InAhead(p)'
    <3>1. wm < p /\ ~(p <= put.reach)
      BY <1>t, <1>p, <2>3, <2>6
    <3>2. ~InPut(p)
      BY <2>1 DEF InPut
    <3> QED BY <2>5, <2>6, <3>1, <3>2 DEF OrderInv
  <2>7. Registered' <=> Registered
    BY <2>1 DEF Registered
  <2> QED BY <1>r, <2>1, <2>3, <2>4, <2>6, <2>7, EmptyFields, EmptyOrder DEF OrderInv
<1> QED BY <1>1, <1>2, <1>5, <1>6, <1>7, <1>8 DEF ReaderStep

(* Every step keeps the order. *)
LEMMA OrderNext == Types /\ RestInv /\ OrderInv /\ [Next]_vars => OrderInv'
<1> SUFFICES ASSUME Types, RestInv, OrderInv, [Next]_vars PROVE OrderInv'
  OBVIOUS
<1>1. CASE Lifecycle
  <2>1. CASE BeginStream
    <3>1. /\ ahead = NoBatch /\ put = NoPut /\ ahead' = ahead /\ put' = put /\ wm' = job.cursor
          /\ slot' = slot /\ job'.cursor = job.cursor
      BY <2>1 DEF BeginStream, RestInv, reader, Types, StoreType, JobType
    <3>2. PICK from \in {slot, job.cursor} : next' = from + 1
      BY <2>1 DEF BeginStream
    <3>3. slot \in Nat /\ job.cursor \in Nat /\ slot <= job.cursor
      BY LastPosNat DEF Types, SourceType, StoreType, JobType, OrderInv
    <3>4. \A p \in Positions : p < next' => ~(wm' < p)
      BY <3>1, <3>2, <3>3, LastPosNat DEF Positions
    <3>5. 0 < next'
      BY <3>2, <3>3
    <3>6. ahead'.reach = 0 /\ put'.st = "none"
      BY <3>1, EmptyFields
    <3>7. Ascends(put'.items) /\ Items(put'.items) = {} /\ Ascends(ahead'.items) /\ Items(ahead'.items) = {}
      BY <3>1, EmptyOrder
    <3> QED BY <3>1, <3>3, <3>4, <3>5, <3>6, <3>7 DEF OrderInv
  <2>2. ASSUME NEW by \in {"none", "user"}, TeardownBegin(by) PROVE OrderInv'
    <3>1. /\ slot' = slot /\ next' = next /\ wm' = wm /\ put' = put /\ ahead' = ahead /\ job' = job
          /\ halted' = halted /\ phase = "live" /\ log' = log
      BY <2>2 DEF TeardownBegin, source, store, reader
    <3> QED BY <3>1, OrderFrame DEF Registered
  <2>3. CASE TeardownDrop
    <3>1. /\ slot' = slot /\ next' = next /\ wm' = wm /\ put' = put /\ ahead' = ahead /\ job' = job
          /\ halted' = halted /\ phase' = "closing" /\ phase # "none" /\ log' = log
      BY <2>3 DEF TeardownDrop, source, store, reader
    <3> QED BY <3>1, OrderFrame DEF Registered
  <2>4. CASE TeardownEnd \/ Crash
    <3>1. slot' = slot /\ job'.cursor = job.cursor /\ put' = NoPut /\ ahead' = NoBatch /\ phase' = "none"
          /\ next' = next
      BY <2>4 DEF TeardownEnd, Crash, Forget, source, store, Types, StoreType, JobType
    <3> QED BY <3>1, OrderAtRest
  <2> QED BY <1>1, <2>1, <2>2, <2>3, <2>4 DEF Lifecycle, Start, Resume
<1>2. CASE ReaderStep
  BY <1>2, OrderReader
<1>3. CASE ConsumerStep
  <2>1. /\ slot' = slot /\ next' = next /\ wm' = wm /\ put' = put /\ ahead' = ahead /\ log' = log
        /\ job'.cursor = job.cursor /\ phase' = phase /\ (halted' = "no" => halted = "no")
    BY <1>3, ConsumerLeaves
  <2> QED BY <2>1, OrderFrame DEF Registered
<1>4. CASE UNCHANGED vars
  <2>1. /\ slot' = slot /\ next' = next /\ wm' = wm /\ put' = put /\ ahead' = ahead /\ log' = log
        /\ job'.cursor = job.cursor /\ phase' = phase /\ halted' = halted
    BY <1>4 DEF vars, source, store, life, reader
  <2> QED BY <2>1, OrderFrame DEF Registered
<1> QED BY <1>1, <1>2, <1>3, <1>4 DEF Next

-----------------------------------------------------------------------------
(* the last word on a key is a fresh one *)

(* The key holds p or something newer, and nothing older is on its way to it. *)
OnTop(p, k) ==
  /\ dest[k] >= p
  /\ \A i \in DOMAIN spool : Hits(spool[i], k) => spool[i] >= p
  /\ \A d \in run.items : Hits(d, k) => d >= p

(* p is in the spool, and nothing older than p is behind it. *)
Coming(p, k) ==
  \E j \in DOMAIN spool :
    spool[j] = p /\ \A i \in DOMAIN spool : i > j /\ Hits(spool[i], k) => spool[i] >= p

(* p is taken care of as far as key k is concerned. *)
Held(p, k) == p \in aside \/ OnTop(p, k) \/ Coming(p, k)

(* p is behind a saved position, or in a batch that is in the spool. *)
Owned(p) == p <= wm \/ p <= job.cursor \/ (put.st = "save" /\ p <= put.reach)

(* The spool takes care of everything that is behind a saved position. *)
FreshInv ==
  \A k \in Keys : \A p \in Positions : Owned(p) /\ Hits(p, k) => Held(p, k)

(* The rows of a run have different keys; what is about to be trimmed was   *)
(* written or set aside, what isolation delivered was written.              *)
RunFresh ==
  /\ \A d \in run.items : \A e \in run.items : \A k \in Keys : Hits(d, k) /\ Hits(e, k) => d = e
  /\ run.st \in {"trim", "offset"} =>
       \A d \in run.items : \A k \in Keys : Hits(d, k) => d \in aside \/ dest[k] >= d
  /\ run.st = "park" => \A d \in run.del : \A k \in Keys : Hits(d, k) => dest[k] >= d

(* At first nothing is taken care of, and nothing has to be. *)
LEMMA FreshInit == Init => FreshInv /\ RunFresh
<1> SUFFICES ASSUME Init PROVE FreshInv /\ RunFresh
  OBVIOUS
<1>1. run = NoRun /\ put = NoPut /\ wm = 0 /\ job.cursor = 0
  BY DEF Init
<1>2. \A p \in Positions : ~Owned(p)
  BY <1>1, EmptyFields, LastPosNat DEF Owned, Positions
<1> QED BY <1>1, <1>2, EmptyFields DEF FreshInv, RunFresh

(* What is taken care of stays so while the spool grows by what is newer, a *)
(* key changes only to a row of the run, and a run is taken from the spool. *)
LEMMA HeldStays ==
  ASSUME Types, log' = log, aside \subseteq aside', NEW k \in Keys, NEW p \in Positions, Held(p, k),
         dest'[k] = dest[k] \/ (dest'[k] \in run.items /\ Hits(dest'[k], k)),
         \A d \in run'.items : d \in run.items \cup Items(spool),
         NEW s \in Seq(Positions), spool' = spool \o s,
         \A d \in Items(s) : Hits(d, k) => d >= p
  PROVE  Held(p, k)'
<1>0. spool \in Seq(Positions)
  BY DEF Types
<1>h. \A d : Hits(d, k)' <=> Hits(d, k)
  BY DEF Hits
<1>1. /\ Len(spool) \in Nat /\ Len(s) \in Nat
      /\ DOMAIN spool = 1 .. Len(spool) /\ DOMAIN s = 1 .. Len(s)
      /\ \A i \in DOMAIN spool : i \in DOMAIN spool' /\ spool'[i] = spool[i]
      /\ \A i \in DOMAIN spool' :
              \/ i \in DOMAIN spool
              \/ i > Len(spool) /\ i - Len(spool) \in DOMAIN s /\ spool'[i] = s[i - Len(spool)]
  BY <1>0, ConcatFacts
<1>2. ASSUME NEW i \in DOMAIN spool', i \notin DOMAIN spool, Hits(spool'[i], k) PROVE spool'[i] >= p
  <2>1. spool'[i] \in Items(s)
    BY <1>1, <1>2, Zenon DEF Items
  <2> QED BY <1>2, <2>1
<1>3. CASE OnTop(p, k)
  <2>1. dest'[k] >= p
    BY <1>3 DEF OnTop
  <2>2. \A i \in DOMAIN spool' : Hits(spool'[i], k) => spool'[i] >= p
    BY <1>1, <1>2, <1>3 DEF OnTop
  <2>3. \A d \in run'.items : Hits(d, k) => d >= p
    BY <1>3 DEF OnTop, Items
  <2>4. OnTop(p, k)'
    BY <1>h, <2>1, <2>2, <2>3 DEF OnTop
  <2> QED BY <2>4 DEF Held
<1>4. CASE Coming(p, k)
  <2>1. PICK j \in DOMAIN spool :
          spool[j] = p /\ \A i \in DOMAIN spool : i > j /\ Hits(spool[i], k) => spool[i] >= p
    BY <1>4 DEF Coming
  <2>2. j \in DOMAIN spool' /\ spool'[j] = p
    BY <1>1, <2>1
  <2>3. \A i \in DOMAIN spool' : i > j /\ Hits(spool'[i], k) => spool'[i] >= p
    BY <1>1, <1>2, <2>1
  <2>4. Coming(p, k)'
    BY <1>h, <2>2, <2>3 DEF Coming
  <2> QED BY <2>4 DEF Held
<1>5. CASE p \in aside
  BY <1>5 DEF Held
<1> QED BY <1>3, <1>4, <1>5 DEF Held

(* A trim takes from the spool only what is on top of its key or set aside. *)
LEMMA HeldUnderTrim ==
  ASSUME Types, RunInv, RunFresh, Trim, NEW k \in Keys, NEW p \in Positions, Hits(p, k), Held(p, k)
  PROVE  Held(p, k)'
<1>0. /\ spool \in Seq(Positions) /\ run.n \in Nat /\ quota \in Nat /\ Len(spool) \in Nat
      /\ run.n <= Len(spool) /\ run \in RunType
  BY DEF Types, ConsumerType, RunType, RunInv
<1>1. /\ spool' = SubSeq(spool, run.n + 1, Len(spool)) /\ aside' = aside /\ dest' = dest
      /\ log' = log /\ run.st = "trim" /\ run' = [run EXCEPT !.st = "offset", !.n = 0]
  BY DEF Trim, target, consumerFrame, source
<1>2. /\ Len(spool') = Len(spool) - run.n /\ spool' \in Seq(Positions)
      /\ \A i \in 1 .. Len(spool) - run.n : spool'[i] = spool[i + run.n]
  BY <1>0, <1>1, DropFacts
<1>3. /\ DOMAIN spool = 1 .. Len(spool) /\ DOMAIN spool' = 1 .. Len(spool) - run.n
      /\ \A i \in DOMAIN spool' : i + run.n \in DOMAIN spool /\ spool'[i] = spool[i + run.n]
  <2>1. DOMAIN spool = 1 .. Len(spool) /\ DOMAIN spool' = 1 .. Len(spool')
    BY <1>0, <1>2
  <2>2. DOMAIN spool' = 1 .. Len(spool) - run.n
    BY <1>2, <2>1
  <2>3. \A i \in 1 .. Len(spool) - run.n : i + run.n \in 1 .. Len(spool)
    BY <1>0
  <2> QED BY <1>2, <2>1, <2>2, <2>3
<1>h. \A d : Hits(d, k)' <=> Hits(d, k)
  BY <1>1 DEF Hits
<1>r. run'.items = run.items
  BY <1>0, <1>1 DEF RunType
<1>4. CASE OnTop(p, k)
  <2>1. \A i \in DOMAIN spool' : Hits(spool'[i], k) => spool'[i] >= p
    BY <1>3, <1>4 DEF OnTop
  <2>2. OnTop(p, k)'
    BY <1>1, <1>4, <1>h, <1>r, <2>1 DEF OnTop
  <2> QED BY <2>2 DEF Held
<1>5. CASE Coming(p, k)
  <2>1. PICK j \in DOMAIN spool :
          spool[j] = p /\ \A i \in DOMAIN spool : i > j /\ Hits(spool[i], k) => spool[i] >= p
    BY <1>5 DEF Coming
  <2>2. CASE j > run.n
    <3>1. j - run.n \in DOMAIN spool' /\ (j - run.n) + run.n = j
      BY <1>0, <1>3, <2>1, <2>2
    <3>2. spool'[j - run.n] = p
      BY <1>3, <2>1, <3>1
    <3>3. \A i \in DOMAIN spool' : i > j - run.n => i + run.n > j
      BY <1>0, <1>3, <2>1
    <3>4. \A i \in DOMAIN spool' : i > j - run.n /\ Hits(spool'[i], k) => spool'[i] >= p
      BY <1>3, <2>1, <3>3
    <3>5. Coming(p, k)'
      BY <1>h, <3>1, <3>2, <3>4 DEF Coming
    <3> QED BY <3>5 DEF Held
  <2>3. CASE ~(j > run.n)
    <3>1. j \in 1 .. run.n
      BY <1>0, <1>3, <2>1, <2>3
    <3>2. p \in run.items
      BY <2>1, <3>1 DEF RunInv
    <3>3. p \in aside \/ dest[k] >= p
      BY <1>1, <3>2 DEF RunFresh
    <3>4. \A d \in run.items : Hits(d, k) => d >= p
      <4>1. \A d \in run.items : Hits(d, k) => d = p
        BY <3>2 DEF RunFresh
      <4>2. p >= p
        BY LastPosNat DEF Positions
      <4> QED BY <4>1, <4>2
    <3>5. \A i \in DOMAIN spool' : i + run.n > j
      BY <1>0, <1>3, <3>1
    <3>6. \A i \in DOMAIN spool' : Hits(spool'[i], k) => spool'[i] >= p
      BY <1>3, <2>1, <3>5
    <3>7. dest[k] >= p => OnTop(p, k)'
      BY <1>1, <1>h, <1>r, <3>4, <3>6 DEF OnTop
    <3> QED BY <1>1, <3>3, <3>7 DEF Held
  <2> QED BY <2>2, <2>3
<1>6. CASE p \in aside
  BY <1>1, <1>6 DEF Held
<1> QED BY <1>4, <1>5, <1>6 DEF Held

(* Every step keeps the keys of a run apart, and settles a run before it is trimmed. *)
LEMMA RunFreshNext == Types /\ RestInv /\ RunInv /\ RunFresh /\ [Next]_vars => RunFresh'
<1> SUFFICES ASSUME Types, RestInv, RunInv, RunFresh, [Next]_vars PROVE RunFresh'
  OBVIOUS
<1>0. /\ spool \in Seq(Positions) /\ run \in RunType /\ quota \in Nat
      /\ Len(spool) \in Nat /\ run.items \subseteq Positions /\ log \in [Positions -> Entry]
  BY SpoolAssumption DEF Types, ConsumerType, RunType, SourceType
<1>z. \A p \in Positions : log[p] \in Entry
  BY <1>0
<1>p. \A p \in Positions : p \in Nat
  BY LastPosNat DEF Positions
<1>u. /\ \A d \in run.items : \A e \in run.items : \A k \in Keys : Hits(d, k) /\ Hits(e, k) => d = e
      /\ run.st \in {"trim", "offset"} =>
           \A d \in run.items : \A k \in Keys : Hits(d, k) => d \in aside \/ dest[k] >= d
      /\ run.st = "park" => \A d \in run.del : \A k \in Keys : Hits(d, k) => dest[k] >= d
  BY DEF RunFresh
<1>a. ASSUME log' = log, run'.items = run.items,
             run'.st \in {"trim", "offset"} =>
               \A d \in run.items : \A k \in Keys : Hits(d, k) => d \in aside' \/ dest'[k] >= d,
             run'.st = "park" => \A d \in run'.del : \A k \in Keys : Hits(d, k) => dest'[k] >= d
      PROVE  RunFresh'
  <2>1. \A d, k : Hits(d, k)' <=> Hits(d, k)
    BY <1>a DEF Hits
  <2> QED BY <1>a, <1>u, <2>1 DEF RunFresh
<1>b. ASSUME run' = NoRun PROVE RunFresh'
  BY <1>b, EmptyFields DEF RunFresh
<1>c. ASSUME run' = run, log' = log, aside' = aside, dest' = dest PROVE RunFresh'
  BY <1>a, <1>c, <1>u
<1>d. ASSUME NEW S \in SUBSET run.items, Land(S), NEW d \in S, NEW k \in Keys, Hits(d, k)
      PROVE  dest'[k] >= d
  <2>1. dest'[k] \in S /\ Hits(dest'[k], k)
    BY <1>0, <1>d, LandFacts DEF Types
  <2>2. dest'[k] = d
    BY <1>d, <1>u, <2>1
  <2> QED BY <1>0, <1>p, <1>d, <2>2
<1>1. CASE Lifecycle
  <2>1. CASE TeardownEnd \/ Crash
    <3>1. run' = NoRun
      BY <2>1 DEF TeardownEnd, Crash, Forget
    <3> QED BY <1>b, <3>1
  <2>2. CASE ~(TeardownEnd \/ Crash)
    <3>1. run' = run /\ log' = log /\ aside' = aside /\ dest' = dest
      BY <1>1, <2>2 DEF Lifecycle, Start, Resume, BeginStream, TeardownBegin, TeardownDrop,
                        source, target, consumer
    <3> QED BY <1>c, <3>1
  <2> QED BY <2>1, <2>2
<1>2. CASE ReaderStep
  <2>1. run' = run /\ log' = log /\ aside' = aside /\ dest' = dest
    BY <1>2, ReaderAppends DEF consumer
  <2> QED BY <1>c, <2>1
<1>3. CASE ConsumerStep
  <2>1. CASE ConsumerEnds
    <3>1. run' = run /\ log' = log /\ aside' = aside /\ dest' = dest
      BY <2>1 DEF ConsumerEnds, target, consumerFrame, source
    <3> QED BY <1>c, <3>1
  <2>2. CASE TakeRun
    <3>1. PICK n \in 1 .. Len(spool) :
             /\ run' = [NoRun EXCEPT !.st = IF IsNotice(spool[1]) THEN "trim" ELSE "write",
                                     !.work = IF IsNotice(spool[1]) THEN "notice" ELSE "ok",
                                     !.items = {spool[i] : i \in 1 .. n}, !.n = n,
                                     !.nextSeq = seq + 1]
             /\ \A i \in 2 .. n : /\ log[spool[i]].op \notin {"truncate", "notice"}
                                  /\ \A j \in 1 .. i - 1 : log[spool[j]].key # log[spool[i]].key
             /\ n > 1 => log[spool[1]].op \notin {"truncate", "notice"}
      BY <2>2, TakeFacts, Zenon DEF RunInv, Fits
    <3>2. /\ run'.items = {spool[i] : i \in 1 .. n}
          /\ run'.st = IF IsNotice(spool[1]) THEN "trim" ELSE "write"
      BY <3>1 DEF NoRun
    <3>3. log' = log /\ \A d, k : Hits(d, k)' <=> Hits(d, k)
      BY <2>2 DEF TakeRun, consumerFrame, source, Hits
    <3>4. \A i \in 1 .. n : spool[i] \in Positions /\ log[spool[i]] \in Entry
      BY <1>0, <1>z, <3>1
    <3>5. ASSUME n > 1, NEW i \in 1 .. n, NEW k \in Keys, Hits(spool[i], k)
          PROVE  log[spool[i]].key = k
      <4>1. log[spool[i]].op \notin {"truncate", "notice"}
        <5>1. CASE i = 1
          BY <3>1, <3>5, <5>1
        <5>2. CASE i # 1
          <6>1. i \in 2 .. n
            BY <3>1, <3>5, <5>2
          <6> QED BY <3>1, <6>1
        <5> QED BY <5>1, <5>2
      <4>2. log[spool[i]].kind # "truncate"
        BY <3>4, <3>5, <4>1 DEF Entry
      <4> QED BY <3>5, <4>2 DEF Hits
    <3>6. ASSUME NEW i \in 1 .. n, NEW j \in 1 .. n, j < i, NEW k \in Keys,
                 Hits(spool[i], k), Hits(spool[j], k)
          PROVE  FALSE
      <4>1. n > 1 /\ i \in 2 .. n /\ j \in 1 .. i - 1
        BY <3>1, <3>6
      <4>2. log[spool[j]].key # log[spool[i]].key
        BY <3>1, <4>1
      <4>3. log[spool[i]].key = k /\ log[spool[j]].key = k
        BY <3>5, <3>6, <4>1
      <4> QED BY <4>2, <4>3
    <3>7. ASSUME NEW d \in run'.items, NEW e \in run'.items, NEW k \in Keys, Hits(d, k), Hits(e, k)
          PROVE  d = e
      <4>1. PICK i \in 1 .. n : d = spool[i]
        BY <3>2, <3>7
      <4>2. PICK j \in 1 .. n : e = spool[j]
        BY <3>2, <3>7
      <4>3. ~(i < j) /\ ~(j < i)
        BY <3>6, <3>7, <4>1, <4>2
      <4>4. i = j
        BY <3>1, <4>3
      <4> QED BY <4>1, <4>2, <4>4
    <3>8. ASSUME IsNotice(spool[1]), NEW d \in run'.items, NEW k \in Keys PROVE ~Hits(d, k)
      <4>1. log[spool[1]].kind = "notice" /\ 1 \in 1 .. n
        BY <3>1, <3>8 DEF IsNotice
      <4>2. log[spool[1]].op = "notice"
        BY <3>4, <4>1 DEF Entry
      <4>3. ~(n > 1)
        BY <3>1, <4>2
      <4>4. n = 1 /\ d = spool[1]
        BY <3>1, <3>2, <3>8, <4>3
      <4> QED BY <4>1, <4>4 DEF Hits
    <3>9. run'.st \in {"trim", "write"} /\ (run'.st = "trim" => IsNotice(spool[1]))
      BY <3>2
    <3> QED BY <3>3, <3>7, <3>8, <3>9 DEF RunFresh
  <2>3. CASE DeliverOk
    <3>1. log' = log /\ Land(run.items)
      BY <2>3 DEF DeliverOk, consumerFrame, source
    <3>2. CASE halted = "yes"
      BY <1>b, <2>3, <3>2 DEF DeliverOk
    <3>3. CASE halted # "yes"
      <4>1. run' = [run EXCEPT !.st = "trim"]
        BY <2>3, <3>3 DEF DeliverOk
      <4>2. run'.st = "trim" /\ run'.items = run.items
        BY <1>0, <4>1 DEF RunType
      <4>3. \A d \in run.items : \A k \in Keys : Hits(d, k) => dest'[k] >= d
        BY <1>d, <3>1
      <4> QED BY <1>a, <3>1, <4>2, <4>3
    <3> QED BY <3>2, <3>3
  <2>4. CASE DeliverFails
    <3>1. log' = log
      BY <2>4 DEF DeliverFails, consumerFrame, source
    <3>2. CASE halted = "yes"
      BY <1>b, <2>4, <3>2 DEF DeliverFails
    <3>3. CASE halted # "yes"
      <4>1. run' = [run EXCEPT !.st = "failed", !.work = "failed"]
        BY <2>4, <3>3 DEF DeliverFails
      <4>2. run'.st = "failed" /\ run'.items = run.items
        BY <1>0, <4>1 DEF RunType
      <4> QED BY <1>a, <3>1, <4>2
    <3> QED BY <3>2, <3>3
  <2>5. CASE HandleFailed
    <3>1. PICK D \in SUBSET run.items, stop \in BOOLEAN :
             /\ Land(D)
             /\ run' = [run EXCEPT
                          !.del = D,
                          !.nextSeq = seq + IF D # {} /\ D # run.items THEN 2 ELSE 1,
                          !.st = IF stop THEN "halting"
                                 ELSE IF D = run.items THEN "trim"
                                 ELSE IF consec' >= MaxConsecutive THEN "halting" ELSE "park"]
      BY <2>5 DEF HandleFailed
    <3>2. log' = log
      BY <2>5 DEF HandleFailed, consumerFrame, source
    <3>3. /\ run'.items = run.items /\ run'.del = D
          /\ run'.st = IF stop THEN "halting"
                       ELSE IF D = run.items THEN "trim"
                       ELSE IF consec' >= MaxConsecutive THEN "halting" ELSE "park"
      BY <1>0, <3>1 DEF RunType
    <3>4. run'.st \in {"halting", "trim", "park"} /\ (run'.st = "trim" => D = run.items)
      BY <3>3
    <3>5. \A d \in D : \A k \in Keys : Hits(d, k) => dest'[k] >= d
      BY <1>d, <3>1
    <3> QED BY <1>a, <3>2, <3>3, <3>4, <3>5
  <2>6. CASE StopRun \/ SaveOffset
    BY <1>b, <2>6 DEF StopRun, SaveOffset
  <2>7. CASE ParkFull
    <3>1. log' = log /\ run' = [run EXCEPT !.st = "halting"]
      BY <2>7 DEF ParkFull, consumerFrame, source
    <3>2. run'.st = "halting" /\ run'.items = run.items
      BY <1>0, <3>1 DEF RunType
    <3> QED BY <1>a, <3>1, <3>2
  <2>8. CASE Park
    <3>1. /\ log' = log /\ aside' = aside \cup AtFault /\ dest' = dest /\ run.st = "park"
          /\ run' = [run EXCEPT !.st = "trim"]
      BY <2>8 DEF Park, consumerFrame, source
    <3>2. run'.st = "trim" /\ run'.items = run.items
      BY <1>0, <3>1 DEF RunType
    <3>3. \A d \in run.items : d \in aside' \/ d \in run.del
      BY <3>1 DEF AtFault
    <3>4. \A d \in run.items : \A k \in Keys : Hits(d, k) => d \in aside' \/ dest'[k] >= d
      BY <1>u, <3>1, <3>3
    <3> QED BY <1>a, <3>1, <3>2, <3>4
  <2>9. CASE Trim
    <3>1. /\ log' = log /\ aside' = aside /\ dest' = dest /\ run.st = "trim"
          /\ run' = [run EXCEPT !.st = "offset", !.n = 0]
      BY <2>9 DEF Trim, consumerFrame, source, target
    <3>2. run'.st = "offset" /\ run'.items = run.items
      BY <1>0, <3>1 DEF RunType
    <3> QED BY <1>a, <1>u, <3>1, <3>2
  <2>10. CASE StoreFails
    <3>1. /\ log' = log /\ aside' = aside /\ dest' = dest
          /\ run.st \in {"park", "halting", "trim", "offset"} /\ Retry
      BY <2>10 DEF StoreFails, consumerFrame, source, target
    <3>2. CASE run' = NoRun
      BY <1>b, <3>2
    <3>3. CASE run' # NoRun
      <4>1. run' = [run EXCEPT !.st = IF run.work = "failed" THEN "failed" ELSE "trim",
                               !.tries = run.tries + 1]
        BY <3>1, <3>3 DEF Retry
      <4>2. run'.items = run.items /\ run'.st = IF run.work = "failed" THEN "failed" ELSE "trim"
        BY <1>0, <4>1 DEF RunType
      <4>3. run'.st \in {"failed", "trim"} /\ (run'.st = "trim" => run.st \in {"trim", "offset"})
        BY <3>1, <4>2 DEF RunInv
      <4> QED BY <1>a, <1>u, <3>1, <4>2, <4>3
    <3> QED BY <3>2, <3>3
  <2> QED BY <1>3, <2>1, <2>2, <2>3, <2>4, <2>5, <2>6, <2>7, <2>8, <2>9, <2>10 DEF ConsumerStep
<1>4. CASE UNCHANGED vars
  <2>1. run' = run /\ log' = log /\ aside' = aside /\ dest' = dest
    BY <1>4 DEF vars, target, consumer, source
  <2> QED BY <1>c, <2>1
<1> QED BY <1>1, <1>2, <1>3, <1>4 DEF Next

(* What the consumer leaves of the destination: its keys, or a row of the run. *)
LEMMA DestSteps ==
  ASSUME Types, RunInv, ConsumerStep, NEW k \in Keys
  PROVE  /\ dest'[k] = dest[k] \/ (dest'[k] \in run.items /\ Hits(dest'[k], k))
         /\ Trim \/ \A d \in run'.items : d \in run.items \cup Items(spool)
<1>0. run.items \subseteq Positions /\ run \in RunType
  BY DEF Types, ConsumerType, RunType
<1>1. ASSUME NEW S \in SUBSET run.items, Land(S)
      PROVE  dest'[k] = dest[k] \/ (dest'[k] \in run.items /\ Hits(dest'[k], k))
  <2>1. IF \E p \in S : Hits(p, k) THEN dest'[k] \in S /\ Hits(dest'[k], k) ELSE dest'[k] = dest[k]
    BY <1>0, <1>1, LandFacts DEF Types
  <2> QED BY <1>1, <2>1
<1>2. CASE DeliverOk \/ DeliverFails \/ HandleFailed
  <2>1. PICK S \in SUBSET run.items : Land(S)
    BY <1>2 DEF DeliverOk, DeliverFails, HandleFailed
  <2>2. run' = NoRun \/ run'.items = run.items
    <3>1. CASE DeliverOk
      BY <1>0, <3>1 DEF DeliverOk, RunType
    <3>2. CASE DeliverFails
      BY <1>0, <3>2 DEF DeliverFails, RunType
    <3>3. CASE HandleFailed
      BY <1>0, <3>3 DEF HandleFailed, RunType
    <3> QED BY <1>2, <3>1, <3>2, <3>3
  <2> QED BY <1>1, <2>1, <2>2, EmptyFields
<1>3. CASE TakeRun
  <2>1. dest' = dest
    BY <1>3 DEF TakeRun, target
  <2>2. PICK n \in 1 .. Len(spool) :
          run' = [NoRun EXCEPT !.st = IF IsNotice(spool[1]) THEN "trim" ELSE "write",
                               !.work = IF IsNotice(spool[1]) THEN "notice" ELSE "ok",
                               !.items = {spool[i] : i \in 1 .. n}, !.n = n,
                               !.nextSeq = seq + 1]
    BY <1>3, TakeFacts, Zenon DEF RunInv, Fits
  <2>3. run'.items = {spool[i] : i \in 1 .. n}
    BY <2>2 DEF NoRun
  <2>4. \A i \in 1 .. n : i \in DOMAIN spool
    BY <2>2 DEF Types
  <2>5. \A d \in run'.items : d \in Items(spool)
    BY <2>3, <2>4 DEF Items
  <2> QED BY <2>1, <2>5
<1>4. CASE ConsumerEnds \/ StopRun \/ ParkFull \/ Park \/ SaveOffset \/ StoreFails
  <2>1. dest' = dest
    BY <1>4 DEF ConsumerEnds, StopRun, ParkFull, Park, SaveOffset, StoreFails, target
  <2>2. run' = NoRun \/ run'.items = run.items
    <3>1. CASE ConsumerEnds \/ StopRun \/ ParkFull \/ Park \/ SaveOffset
      BY <1>0, <3>1 DEF ConsumerEnds, StopRun, ParkFull, Park, SaveOffset, RunType
    <3>2. CASE StoreFails
      BY <1>0, <3>2 DEF StoreFails, Retry, RunType
    <3> QED BY <1>4, <3>1, <3>2
  <2> QED BY <2>1, <2>2, EmptyFields
<1>5. CASE Trim
  BY <1>5 DEF Trim, target
<1> QED BY <1>2, <1>3, <1>4, <1>5 DEF ConsumerStep

(* Whatever is owned and was before stays held, when nothing new is owned. *)
LEMMA FreshFrame ==
  ASSUME FreshInv, log' = log,
         \A p \in Positions : Owned(p)' => Owned(p),
         \A k \in Keys : \A p \in Positions : Owned(p) /\ Hits(p, k) /\ Held(p, k) => Held(p, k)'
  PROVE  FreshInv'
<1>1. \A d, k : Hits(d, k)' <=> Hits(d, k)
  BY DEF Hits
<1>2. ASSUME NEW k \in Keys, NEW p \in Positions, Owned(p)', Hits(p, k)'
      PROVE  Held(p, k)'
  <2>1. Owned(p) /\ Hits(p, k)
    BY <1>1, <1>2
  <2>2. Held(p, k)
    BY <2>1 DEF FreshInv
  <2> QED BY <2>1, <2>2
<1> QED BY <1>2 DEF FreshInv

(* What changes neither the spool nor the destination leaves every row held. *)
LEMMA HeldInPeace ==
  ASSUME Types, log' = log, aside' = aside, dest' = dest, spool' = spool,
         run' = run \/ run' = NoRun, NEW k \in Keys, NEW p \in Positions, Held(p, k)
  PROVE  Held(p, k)'
<1>1. spool' = spool \o <<>> /\ <<>> \in Seq(Positions) /\ Items(<<>>) = {}
  BY NothingAppended DEF Items
<1>2. \A d \in run'.items : d \in run.items \cup Items(spool)
  BY EmptyFields
<1> QED BY <1>1, <1>2, HeldStays

(* What an append adds is newer than what is owned before it. *)
LEMMA NewerThanOwned ==
  ASSUME Types, RestInv, OrderInv, put.st = "append", NEW p \in Positions, Owned(p),
         NEW d \in Items(put.items)
  PROVE  d >= p
<1>1. phase # "none"
  BY EmptyFields DEF RestInv
<1>2. job.cursor <= wm /\ wm < d
  BY <1>1 DEF OrderInv
<1>3. d \in Nat /\ p \in Nat /\ wm \in Nat /\ job.cursor \in Nat
  <2>1. d \in Positions
    BY DEF Items, Types, ReaderType, PutType
  <2> QED BY <2>1, LastPosNat DEF Positions, Types, MarkType, StoreType, JobType
<1>4. p <= wm \/ p <= job.cursor
  BY DEF Owned
<1> QED BY <1>2, <1>3, <1>4

(* Every step of the lifecycle keeps what is owned held. *)
LEMMA FreshLifecycle ==
  ASSUME Types, RestInv, OrderInv, FreshInv, Lifecycle
  PROVE  FreshInv'
<1>0. /\ job \in JobType /\ wm \in 0 .. LastPos /\ run.items \subseteq Positions
      /\ put.items \in Seq(Positions)
  BY DEF Types, StoreType, MarkType, ConsumerType, RunType, ReaderType, PutType
<1>p. \A p \in Positions : ~(p <= 0)
  BY LastPosNat DEF Positions
<1>1. CASE BeginStream
  <2>1. /\ wm' = job.cursor /\ put' = put /\ put = NoPut /\ log' = log /\ aside' = aside
        /\ dest' = dest /\ spool' = spool /\ run' = run
    BY <1>1 DEF BeginStream, RestInv, reader, target
  <2>2. job'.cursor = job.cursor
    BY <1>0, <1>1 DEF BeginStream, JobType
  <2>3. \A p \in Positions : Owned(p)' => Owned(p)
    BY <2>1, <2>2, EmptyFields DEF Owned
  <2> QED BY <2>1, <2>3, FreshFrame, HeldInPeace
<1>2. ASSUME NEW by \in {"none", "user"}, TeardownBegin(by) PROVE FreshInv'
  <2>1. /\ wm' = wm /\ put' = put /\ log' = log /\ aside' = aside /\ job' = job
        /\ dest' = dest /\ spool' = spool /\ run' = run
    BY <1>2 DEF TeardownBegin, source, store, target, reader, consumer
  <2>2. \A p \in Positions : Owned(p)' => Owned(p)
    BY <2>1 DEF Owned
  <2> QED BY <2>1, <2>2, FreshFrame, HeldInPeace
<1>3. CASE TeardownDrop
  <2>1. /\ wm' = wm /\ put' = put /\ log' = log /\ aside' = aside /\ job' = job
        /\ dest' = dest /\ spool' = spool /\ run' = run
    BY <1>3 DEF TeardownDrop, source, store, target, reader, consumer
  <2>2. \A p \in Positions : Owned(p)' => Owned(p)
    BY <2>1 DEF Owned
  <2> QED BY <2>1, <2>2, FreshFrame, HeldInPeace
<1>4. CASE TeardownEnd
  <2>1. /\ wm' = 0 /\ put' = NoPut /\ log' = log /\ aside' = aside
        /\ dest' = dest /\ spool' = spool /\ run' = NoRun
    BY <1>4 DEF TeardownEnd, Forget, source, target
  <2>2. job'.cursor = job.cursor
    BY <1>0, <1>4 DEF TeardownEnd, JobType
  <2>3. \A p \in Positions : Owned(p)' => Owned(p)
    BY <1>p, <2>1, <2>2, EmptyFields DEF Owned
  <2> QED BY <2>1, <2>3, FreshFrame, HeldInPeace
<1>5. CASE Crash
  <2>1. wm' = 0 /\ put' = NoPut /\ log' = log /\ aside' = aside /\ run' = NoRun /\ job' = job
    BY <1>5 DEF Crash, Forget, source, store
  <2>2. \A p \in Positions : Owned(p)' => Owned(p)
    BY <1>p, <2>1, EmptyFields DEF Owned
  <2>3. PICK S \in SUBSET run.items : Land(S)
    BY <1>5, CrashAppends
  <2>4. PICK s \in Seq(Positions) :
          /\ spool' = spool \o s
          /\ put.st = "append" => Items(s) \subseteq Items(put.items)
          /\ put.st # "append" => Items(s) = {}
    BY <1>5, CrashAppends, Zenon
  <2>5. ASSUME NEW k \in Keys, NEW p \in Positions, Owned(p), Held(p, k) PROVE Held(p, k)'
    <3>1. IF \E q \in S : Hits(q, k) THEN dest'[k] \in S /\ Hits(dest'[k], k) ELSE dest'[k] = dest[k]
      BY <1>0, <2>3, LandFacts DEF Types
    <3>2. dest'[k] = dest[k] \/ (dest'[k] \in run.items /\ Hits(dest'[k], k))
      BY <2>3, <3>1
    <3>3. \A d \in Items(s) : d >= p
      BY <2>4, <2>5, NewerThanOwned
    <3>4. \A d \in run'.items : d \in run.items \cup Items(spool)
      BY <2>1, EmptyFields
    <3> QED BY <2>1, <2>4, <2>5, <3>2, <3>3, <3>4, HeldStays
  <2> QED BY <2>1, <2>2, <2>5, FreshFrame
<1> QED BY <1>1, <1>2, <1>3, <1>4, <1>5 DEF Lifecycle, Start, Resume

(* The reader owns a row only once it is in the spool with nothing older behind it. *)
LEMMA FreshReader ==
  ASSUME Types, RestInv, OrderInv, FreshInv, ReaderStep
  PROVE  FreshInv'
<1>0. /\ job \in JobType /\ wm \in 0 .. LastPos /\ put \in PutType /\ put.reach \in 0 .. LastPos
      /\ put.items \in Seq(Positions) /\ spool \in Seq(Positions)
  BY DEF Types, StoreType, MarkType, ReaderType, PutType
<1>p. \A p \in Positions : p \in Nat
  BY LastPosNat DEF Positions
<1>1. log' = log /\ aside' = aside /\ dest' = dest /\ run' = run
  BY ReaderAppends DEF consumer
<1>2. ASSUME spool' = spool, \A p \in Positions : Owned(p)' => Owned(p) PROVE FreshInv'
  BY <1>1, <1>2, FreshFrame, HeldInPeace
<1>3. CASE Read
  <2>1. wm' = wm /\ put' = put /\ job' = job /\ spool' = spool
    BY <1>3 DEF Read, readerFrame, store
  <2>2. \A p \in Positions : Owned(p)' => Owned(p)
    BY <2>1 DEF Owned
  <2> QED BY <1>2, <2>1, <2>2
<1>4. CASE FlushTake
  <2>1. wm' = wm /\ job' = job /\ spool' = spool
    BY <1>4 DEF FlushTake, readerFrame, store
  <2>2. put'.st # "save"
    <3>1. [NoPut EXCEPT !.st = "wait", !.items = ahead.items, !.reach = ahead.reach].st = "wait"
      BY DEF NoPut
    <3> QED BY <1>4, <3>1, EmptyFields DEF FlushTake
  <2>3. \A p \in Positions : Owned(p)' => Owned(p)
    BY <2>1, <2>2 DEF Owned
  <2> QED BY <1>2, <2>1, <2>3
<1>5. CASE HasRoom
  <2>1. wm' = wm /\ job' = job /\ spool' = spool /\ put.st = "wait"
    BY <1>5 DEF HasRoom, store
  <2>2. CASE put'.st # "save"
    <3>1. \A p \in Positions : Owned(p)' => Owned(p)
      BY <2>1, <2>2 DEF Owned
    <3> QED BY <1>2, <2>1, <3>1
  <2>3. CASE put'.st = "save"
    <3>1. put' = [put EXCEPT !.st = IF put.items = <<>> THEN "save" ELSE "append"]
      BY <1>5, <2>3, EmptyFields DEF HasRoom
    <3>2. put.items = <<>> /\ put'.reach = put.reach
      BY <1>0, <2>3, <3>1 DEF PutType
    <3>3. \A p : ~InPut(p)
      BY <3>2 DEF InPut, Items
    <3>4. \A p \in Positions : wm < p /\ p <= put.reach => ~IsRow(p)
      BY <2>1, <3>3 DEF OrderInv
    <3>5. ASSUME NEW k \in Keys, NEW p \in Positions, Owned(p)', Hits(p, k)'
          PROVE  Held(p, k)'
      <4>1. Hits(p, k) /\ IsRow(p)
        BY <1>1, <3>5 DEF Hits, IsRow
      <4>2. p <= wm \/ p <= job.cursor
        BY <1>0, <1>p, <2>1, <3>2, <3>4, <3>5, <4>1 DEF Owned
      <4>3. Held(p, k)
        BY <4>1, <4>2 DEF FreshInv, Owned
      <4> QED BY <1>1, <2>1, <4>3, HeldInPeace
    <3> QED BY <3>5 DEF FreshInv
  <2> QED BY <2>2, <2>3
<1>6. ASSUME put.st = "append", NEW s \in Seq(Positions), spool' = spool \o s,
             Items(s) \subseteq Items(put.items), NEW k \in Keys, NEW p \in Positions,
             Owned(p), Hits(p, k)
      PROVE  Held(p, k)'
  <2>1. Held(p, k)
    BY <1>6 DEF FreshInv
  <2>2. \A d \in Items(s) : d >= p
    BY <1>6, NewerThanOwned
  <2> QED BY <1>1, <1>6, <2>1, <2>2, HeldStays
<1>7. CASE Append_
  <2>1. /\ wm' = wm /\ job' = job /\ put.st = "append" /\ spool' = spool \o put.items
        /\ put' = [put EXCEPT !.st = "save"]
    BY <1>7 DEF Append_, readerFrame, store
  <2>2. put'.reach = put.reach
    BY <1>0, <2>1 DEF PutType
  <2>3. ASSUME NEW k \in Keys, NEW p \in Positions, Owned(p)', Hits(p, k)'
        PROVE  Held(p, k)'
    <3>1. Hits(p, k) /\ IsRow(p)
      BY <1>1, <2>3 DEF Hits, IsRow
    <3>2. CASE Owned(p)
      BY <1>0, <1>6, <2>1, <3>1, <3>2
    <3>3. CASE ~Owned(p)
      <4>1. wm < p /\ p <= put.reach
        BY <1>0, <1>p, <2>1, <2>2, <2>3, <3>3 DEF Owned
      <4>2. InPut(p)
        BY <2>1, <3>1, <4>1 DEF OrderInv
      <4>3. PICK i \in DOMAIN put.items : put.items[i] = p
        BY <4>2 DEF InPut, Items
      <4>4. /\ Len(spool) \in Nat /\ DOMAIN spool = 1 .. Len(spool)
            /\ DOMAIN put.items = 1 .. Len(put.items)
            /\ \A j \in DOMAIN put.items :
                 Len(spool) + j \in DOMAIN spool' /\ spool'[Len(spool) + j] = put.items[j]
            /\ \A j \in DOMAIN spool' :
                 \/ j \in DOMAIN spool
                 \/ j > Len(spool) /\ j - Len(spool) \in DOMAIN put.items
                      /\ spool'[j] = put.items[j - Len(spool)]
        <5>1. PICK t : t = put.items
          OBVIOUS
        <5>2. t \in Seq(Positions) /\ spool' = spool \o t
          BY <1>0, <2>1, <5>1
        <5>3. /\ Len(spool) \in Nat /\ DOMAIN spool = 1 .. Len(spool)
              /\ DOMAIN t = 1 .. Len(t)
              /\ \A j \in DOMAIN t : Len(spool) + j \in DOMAIN spool' /\ spool'[Len(spool) + j] = t[j]
              /\ \A j \in DOMAIN spool' :
                   \/ j \in DOMAIN spool
                   \/ j > Len(spool) /\ j - Len(spool) \in DOMAIN t /\ spool'[j] = t[j - Len(spool)]
          BY <1>0, <5>2, ConcatFacts, SMTT(60)
        <5> QED BY <5>1, <5>3
      <4>5. ASSUME NEW j \in DOMAIN spool', j > Len(spool) + i PROVE spool'[j] >= p
        <5>1. j - Len(spool) \in DOMAIN put.items /\ spool'[j] = put.items[j - Len(spool)]
          BY <4>3, <4>4, <4>5
        <5>2. i < j - Len(spool)
          <6>1. Len(spool) \in Int /\ i \in Int /\ j \in Int
            <7>1. \A x \in DOMAIN put.items : x \in Int
              BY <1>0
            <7>3. Len(spool) \in Int
              BY <1>0
            <7>4. j \in Int
              <8>1. DOMAIN (spool \o put.items) = 1 .. Len(spool) + Len(put.items)
                BY <1>0, ConcatFacts
              <8> QED BY <2>1, <4>5, <8>1
            <7> QED BY <4>3, <7>1, <7>3, <7>4
          <6> QED BY <4>5, <6>1
        <5>3. Ascends(put.items)
          BY DEF OrderInv
        <5>4. put.items[i] < put.items[j - Len(spool)]
          BY <4>3, <5>1, <5>2, <5>3 DEF Ascends
        <5>5. put.items[j - Len(spool)] \in Nat
          BY <1>0, <1>p, <5>1
        <5> QED BY <1>p, <4>3, <5>1, <5>4, <5>5
      <4>6. Len(spool) + i \in DOMAIN spool' /\ spool'[Len(spool) + i] = p
        BY <4>3, <4>4
      <4>7. Coming(p, k)'
        BY <4>5, <4>6 DEF Coming
      <4> QED BY <4>7 DEF Held
    <3> QED BY <3>2, <3>3
  <2> QED BY <2>3 DEF FreshInv
<1>8. CASE AppendFails
  <2>1. wm' = wm /\ put.st = "append"
    BY <1>8 DEF AppendFails
  <2>2. put'.st # "save" /\ job'.cursor = job.cursor
    <3>1. CASE put.tries + 1 < AppendAttempts
      <4>1. put' = [put EXCEPT !.tries = put.tries + 1] /\ job' = job
        BY <1>8, <3>1 DEF AppendFails
      <4> QED BY <1>0, <2>1, <4>1 DEF PutType
    <3>2. CASE ~(put.tries + 1 < AppendAttempts)
      <4>1. put' = NoPut /\ HaltTo("failed")
        BY <1>8, <3>2 DEF AppendFails
      <4> QED BY <4>1, EmptyFields, HaltFacts DEF Types
    <3> QED BY <3>1, <3>2
  <2>3. \A p \in Positions : Owned(p)' => Owned(p)
    BY <2>1, <2>2 DEF Owned
  <2>4. PICK s \in Partly(put.items) : spool' = spool \o s
    BY <1>8 DEF AppendFails
  <2>5. s \in Seq(Positions) /\ Items(s) \subseteq Items(put.items)
    BY <1>0, <2>4, PartlyFacts, Zenon
  <2>6. \A k \in Keys : \A p \in Positions : Owned(p) /\ Hits(p, k) => Held(p, k)'
    BY <1>6, <2>1, <2>4, <2>5
  <2> QED BY <1>1, <2>3, <2>6, FreshFrame
<1>9. CASE SaveCursor \/ SaveCursorFails
  <2>1. put.st = "save" /\ wm' = put.reach /\ put' = NoPut /\ spool' = spool
    BY <1>9 DEF SaveCursor, SaveCursorFails
  <2>2. job'.cursor = job.cursor \/ job'.cursor = put.reach
    BY <1>0, <1>9 DEF SaveCursor, SaveCursorFails, store, JobType
  <2>3. \A p \in Positions : Owned(p)' => Owned(p)
    BY <2>1, <2>2, EmptyFields DEF Owned
  <2> QED BY <1>2, <2>1, <2>3
<1> QED BY <1>3, <1>4, <1>5, <1>7, <1>8, <1>9 DEF ReaderStep

(* Every step keeps what is owned held. *)
LEMMA FreshNext ==
  Types /\ RestInv /\ RunInv /\ OrderInv /\ RunFresh /\ FreshInv /\ [Next]_vars => FreshInv'
<1> SUFFICES ASSUME Types, RestInv, RunInv, OrderInv, RunFresh, FreshInv, [Next]_vars
             PROVE  FreshInv'
  OBVIOUS
<1>1. CASE ConsumerStep
  <2>1. /\ log' = log /\ wm' = wm /\ put' = put /\ job'.cursor = job.cursor /\ aside \subseteq aside'
        /\ spool' = spool \/ Trim
    BY <1>1, ConsumerLeaves
  <2>2. \A p \in Positions : Owned(p)' => Owned(p)
    BY <2>1 DEF Owned
  <2>3. ASSUME NEW k \in Keys, NEW p \in Positions, Hits(p, k), Held(p, k) PROVE Held(p, k)'
    <3>1. CASE Trim
      BY <2>3, <3>1, HeldUnderTrim
    <3>2. CASE ~Trim
      <4>1. /\ dest'[k] = dest[k] \/ (dest'[k] \in run.items /\ Hits(dest'[k], k))
            /\ \A d \in run'.items : d \in run.items \cup Items(spool)
        BY <1>1, <3>2, DestSteps
      <4>2. spool' = spool \o <<>> /\ <<>> \in Seq(Positions) /\ Items(<<>>) = {}
        BY <2>1, <3>2, NothingAppended DEF Items
      <4> QED BY <2>1, <2>3, <4>1, <4>2, HeldStays
    <3> QED BY <3>1, <3>2
  <2> QED BY <2>1, <2>2, <2>3, FreshFrame
<1>2. CASE UNCHANGED vars
  <2>1. /\ wm' = wm /\ put' = put /\ log' = log /\ aside' = aside /\ job' = job
        /\ dest' = dest /\ spool' = spool /\ run' = run
    BY <1>2 DEF vars, source, store, target, reader, consumer
  <2>2. \A p \in Positions : Owned(p)' => Owned(p)
    BY <2>1 DEF Owned
  <2> QED BY <2>1, <2>2, FreshFrame, HeldInPeace
<1> QED BY <1>1, <1>2, FreshLifecycle, FreshReader DEF Next

(* Among the hits of a key in the spool there is a last one. *)
LEMMA LastHit ==
  ASSUME spool \in Seq(Positions), NEW hits \in SUBSET DOMAIN spool, hits # {}
  PROVE  \E m \in hits : \A j \in hits : j <= m
<1> DEFINE T == {Len(spool) - i : i \in hits}
<1>1. Len(spool) \in Nat /\ DOMAIN spool = 1 .. Len(spool)
  OBVIOUS
<1>2. T \subseteq Nat /\ T # {}
  BY <1>1
<1>3. PICK t \in T : \A u \in T : ~(u < t)
  <2> HIDE DEF T
  <2>1. IsWellFoundedOn(OpToRel(<, Nat), Nat)
    BY NatLessThanWellFounded
  <2>2. PICK t \in T : \A u \in T : ~(<<u, t>> \in OpToRel(<, Nat))
    BY <1>2, <2>1, WFMin, Zenon
  <2>3. \A i, j \in Nat : i < j => <<i, j>> \in OpToRel(<, Nat)
    BY DEF OpToRel
  <2> QED BY <1>2, <2>2, <2>3
<1>4. PICK m \in hits : t = Len(spool) - m
  BY <1>3
<1>5. ASSUME NEW j \in hits PROVE j <= m
  <2>1. ~(Len(spool) - j < Len(spool) - m)
    BY <1>3, <1>4, <1>5
  <2> QED BY <1>1, <1>4, <1>5, <2>1
<1> QED BY <1>5

(* What is held has not been, and will not be, overwritten by something older. *)
LEMMA HeldIsFresh ==
  ASSUME Types, NEW k \in Keys, NEW p \in Positions, Hits(p, k), Held(p, k)
  PROVE  LastWord(k) >= p \/ p \in aside
<1> DEFINE hits == {i \in DOMAIN spool : Hits(spool[i], k)}
<1>0. spool \in Seq(Positions)
  BY DEF Types
<1>1. LastWord(k) = IF hits = {} THEN dest[k] ELSE spool[CHOOSE i \in hits : \A j \in hits : j <= i]
  BY DEF LastWord
<1>2. ASSUME hits # {}
      PROVE  \E m \in hits : LastWord(k) = spool[m] /\ \A j \in hits : j <= m
  <2>1. PICK m : m = CHOOSE i \in hits : \A j \in hits : j <= i
    OBVIOUS
  <2>2. m \in hits /\ \A j \in hits : j <= m
    <3>1. hits \in SUBSET DOMAIN spool
      OBVIOUS
    <3> HIDE DEF hits
    <3>2. \E i \in hits : \A j \in hits : j <= i
      BY <1>0, <1>2, <3>1, LastHit
    <3> QED BY <2>1, <3>2
  <2>3. LastWord(k) = spool[m]
    <3> HIDE DEF hits
    <3> QED BY <1>1, <1>2, <2>1
  <2> QED BY <2>2, <2>3
<1>3. CASE OnTop(p, k)
  <2>1. CASE hits = {}
    BY <1>1, <1>3, <2>1 DEF OnTop
  <2>2. CASE hits # {}
    BY <1>2, <1>3, <2>2 DEF OnTop
  <2> QED BY <2>1, <2>2
<1>4. CASE Coming(p, k)
  <2>1. PICK j \in DOMAIN spool :
          spool[j] = p /\ \A i \in DOMAIN spool : i > j /\ Hits(spool[i], k) => spool[i] >= p
    BY <1>4 DEF Coming
  <2>2. j \in hits
    BY <2>1
  <2>3. PICK m \in hits : LastWord(k) = spool[m] /\ j <= m
    BY <1>2, <2>2
  <2>4. m \in DOMAIN spool /\ Hits(spool[m], k)
    BY <2>3
  <2>5. m = j \/ m > j
    BY <1>0, <2>1, <2>3, <2>4
  <2>6. p >= p
    BY LastPosNat DEF Positions
  <2> QED BY <2>1, <2>3, <2>4, <2>5, <2>6
<1> QED BY <1>3, <1>4 DEF Held

(* However often batches are appended again, in whole or in part, and       *)
(* however deliveries and trims fail, once the spool is drained no key will *)
(* hold something older than a change behind the saved cursor, unless that  *)
(* change was set aside (append, spoolBatch, deliverSpooled, trimThrough).  *)
THEOREM SpoolLastWordFresh == Spec => []LastWordFresh
<1>1. Init => Types /\ RestInv /\ RunInv /\ OrderInv /\ RunFresh /\ FreshInv
  BY TypeInit, RestInit, OrderInit, FreshInit
<1>2. Types /\ FreshInv => LastWordFresh
  <2> SUFFICES ASSUME Types, FreshInv, NEW k \in Keys, NEW p \in 1 .. job.cursor, Hits(p, k)
               PROVE  LastWord(k) >= p \/ p \in aside
    BY DEF LastWordFresh
  <2>1. p \in Positions /\ p <= job.cursor
    BY LastPosNat DEF Types, StoreType, JobType, Positions
  <2>2. Held(p, k)
    BY <2>1 DEF FreshInv, Owned
  <2> QED BY <2>1, <2>2, HeldIsFresh
<1> QED BY <1>1, <1>2, BaseNext, OrderNext, RunFreshNext, FreshNext, PTL DEF Spec
=============================================================================
