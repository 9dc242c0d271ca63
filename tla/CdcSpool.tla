------------------------------ MODULE CdcSpool ------------------------------
(***************************************************************************)
(* The change pipeline with the spool on (bridge-cdc.service.ts with        *)
(* cdc-spool.service.ts).  The reader appends batches to a bounded queue in *)
(* Redis and may then confirm them to the source; a consumer drains the     *)
(* queue into the destination, trims what it has settled and saves its      *)
(* sequence number.                                                         *)
(*                                                                          *)
(* How batches are built is CdcPipeline's matter: here the reader takes any *)
(* few consecutive positions.  The delivery timeline is CdcPipeline's too:  *)
(* a record that fails is a failure of the step behind it.                  *)
(***************************************************************************)
EXTENDS Naturals, Sequences, FiniteSets

CONSTANTS
  LastPos,        \* the source's change log holds positions 1 .. LastPos
  Keys,           \* primary-key values of the source table
  Logs,           \* the change logs to consider, each [1..LastPos -> Entry]
  MaxBatch,       \* positions per batch, and entries per spool read
  SpoolMax,       \* runtimeConfig.cdcSpoolMax
  AppendAttempts, \* how often spoolBatch() tries to append: three
  SettleAttempts, \* SETTLE_ATTEMPTS
  MaxConsecutive, \* runtimeConfig.maxConsecutiveFailures
  DeadLetterMax,  \* runtimeConfig.deadLetterMaxRows
  OnError,        \* bridge.delivery.onError
  Budgets         \* how often each kind of failure may happen

Positions == 1 .. LastPos
(* what the log holds at a position; "skip" is a commit or a filtered row *)
Entry ==
  [kind : {"row"}, key : Keys, op : {"upsert", "delete"}]
    \cup [kind : {"truncate"}, key : Keys, op : {"truncate"}]
    \cup [kind : {"notice"}, key : Keys, op : {"notice"}]
    \cup [kind : {"skip"}, key : Keys, op : {"none"}]
FaultKinds ==
  {"crash",  \* the process dies
   "spool",  \* a Redis command fails, an append possibly in part
   "store",  \* a metadata-store write fails without effect
   "dest",   \* a delivery fails
   "stop",   \* somebody stops the bridge
   "any"}    \* all of these together

ASSUME SpoolAssumption ==
  /\ LastPos \in Nat
  /\ Logs \subseteq [Positions -> Entry]
  /\ MaxBatch \in Nat \ {0} /\ SpoolMax \in Nat \ {0}
  /\ AppendAttempts \in Nat \ {0} /\ SettleAttempts \in Nat \ {0}
  /\ MaxConsecutive \in Nat \ {0} /\ DeadLetterMax \in Nat
  /\ OnError \in {"abort", "continue"}
  /\ Budgets \in [FaultKinds -> Nat]

VARIABLES
  log, slot, next,     \* the source: its log, confirmed position, reading position
  job, dlq,            \* the store: [status, offset, cursor]; dead letters [seq, pos]
  spool,               \* the queue in Redis: positions, oldest first
  dest, landed, aside, \* the destination; history: positions applied, set aside
  phase, stopper, halted, wm, seq, \* the stream object, as in CdcPipeline
  ahead,  \* the batch a flush holds while the one before is being spooled
  put,    \* the batch being spooled
  cons,   \* the consumer's loop: "on" or "off"
  quota,  \* entries of its last read it has still to deliver
  run,    \* the run it is delivering
  consec, budget

source == <<log, slot, next>>
store  == <<job, dlq>>
target == <<dest, landed, aside>>
life   == <<phase, stopper, halted>>
reader == <<ahead, put>>
consumer == <<cons, quota, run>>
vars == <<source, store, spool, target, life, wm, seq, reader, consumer, consec, budget>>

NoBatch == [items |-> <<>>, reach |-> 0]
NoPut == [st |-> "none", items |-> <<>>, reach |-> 0, tries |-> 0]
NoRun == [st |-> "none", items |-> {}, del |-> {}, n |-> 0, nextSeq |-> 0, tries |-> 0,
          work |-> "none"]

(* The type of every variable. *)
TypeOK ==
  /\ log \in Logs /\ slot \in 0 .. LastPos /\ next \in 1 .. LastPos + 1
  /\ job \in [status : {"running", "paused", "failed"}, offset : Nat,
              cursor : 0 .. LastPos]
  /\ dlq \subseteq [seq : Nat, pos : Positions]
  /\ spool \in Seq(Positions)
  /\ dest \in [Keys -> 0 .. LastPos] /\ landed \subseteq Positions
  /\ aside \subseteq Positions
  /\ phase \in {"none", "live", "draining", "closing"} /\ stopper \in {"none", "user"}
  /\ halted \in {"no", "yes"} /\ wm \in 0 .. LastPos /\ seq \in Nat
  /\ ahead \in [items : Seq(Positions), reach : 0 .. LastPos]
  /\ put \in [st : {"none", "wait", "append", "save"}, items : Seq(Positions),
              reach : 0 .. LastPos, tries : Nat]
  /\ cons \in {"on", "off"} /\ quota \in Nat
  /\ run \in [st : {"none", "write", "failed", "halting", "park", "trim", "offset"},
              items : SUBSET Positions, del : SUBSET Positions, n : Nat,
              nextSeq : Nat, tries : Nat, work : {"none", "ok", "failed", "notice"}]
  /\ consec \in Nat /\ budget \in [FaultKinds -> Nat]

-----------------------------------------------------------------------------
(* Vocabulary *)

Registered == phase \in {"live", "draining"}
IsRow(p) == log[p].kind \in {"row", "truncate"}
Hits(p, k) == log[p].kind = "truncate" \/ (log[p].kind = "row" /\ log[p].key = k)
Spend(f) ==
  /\ budget[f] > 0 /\ budget["any"] > 0
  /\ budget' = [budget EXCEPT ![f] = @ - 1, !["any"] = @ - 1]
(* The rows of a run have different keys. *)
Land(S) ==
  /\ landed' = landed \cup S
  /\ dest' = [k \in Keys |-> IF \E p \in S : Hits(p, k)
                               THEN CHOOSE p \in S : Hits(p, k) ELSE dest[k]]
HaltTo(status) ==
  /\ halted' = "yes"
  /\ IF halted = "yes" THEN UNCHANGED job
     ELSE job' \in {job, [job EXCEPT !.status = status]}
(* the positions of S in their order: a set with one member *)
InOrder(S) ==
  {s \in [1 .. Cardinality(S) -> S] :
     /\ \A p \in S : \E i \in DOMAIN s : s[i] = p
     /\ \A i, j \in DOMAIN s : i < j => s[i] < s[j]}
(* what of a batch, whose items are in order, may be in the spool after an  *)
(* append that did not end: any of them, still in order                     *)
Partly(items) == UNION {InOrder(S) : S \in SUBSET {items[i] : i \in DOMAIN items}}
(* the batch of the positions lo .. hi: rows and notices, and how far it reaches *)
Batch(lo, hi) ==
  {[items |-> s, reach |-> IF hi > wm THEN hi ELSE 0] :
     s \in InOrder({p \in lo .. hi : log[p].kind # "skip" /\ p > wm})}
Alone(p) == log[p].kind \in {"notice", "truncate"}
IsNotice(p) == log[p].kind = "notice"

(* deliverableRuns(): entry i cannot share a delivery with those before it *)
Breaks(s, i) ==
  \/ log[s[i]].op # log[s[i - 1]].op
  \/ log[s[i]].op \in {"truncate", "notice"}
  \/ \E j \in 1 .. i - 1 : log[s[j]].key = log[s[i]].key
(* the length of the first run of s *)
RunLength(s) ==
  CHOOSE n \in 1 .. Len(s) :
    /\ \A i \in 2 .. n : ~Breaks(s, i)
    /\ n = Len(s) \/ Breaks(s, n + 1)

-----------------------------------------------------------------------------
(* Starting and stopping, as in CdcPipeline *)

Forget ==
  /\ phase' = "none" /\ stopper' = "none" /\ halted' = "no" /\ wm' = 0 /\ seq' = 0
  /\ ahead' = NoBatch /\ put' = NoPut /\ cons' = "off" /\ quota' = 0 /\ run' = NoRun
  /\ consec' = 0

(* beginStream() and startConsumer() *)
BeginStream ==
  /\ phase = "none"
  /\ job' = [job EXCEPT !.status = "running"]
  /\ phase' = "live" /\ cons' = "on"
  /\ wm' = job.cursor /\ seq' = job.offset
  /\ \E from \in {slot, job.cursor} : next' = from + 1
  /\ UNCHANGED <<log, slot, dlq, spool, target, stopper, halted, reader, quota, run,
                 consec, budget>>

Start == job.status # "running" /\ BeginStream
Resume == job.status = "running" /\ BeginStream

TeardownBegin(by) ==
  /\ phase = "live"
  /\ IF by = "none" THEN halted = "yes" /\ UNCHANGED budget ELSE Spend("stop")
  /\ phase' = "draining" /\ stopper' = by
  /\ UNCHANGED <<source, store, spool, target, halted, wm, seq, reader, consumer, consec>>

(* A task of the promise chain is unfinished: a flush that waits for the   *)
(* batch before, or a notice being spooled.                                *)
ChainBusy ==
  ahead.reach # 0 \/ (put.st # "none" /\ \E i \in DOMAIN put.items : IsNotice(put.items[i]))

(* The chain has settled; the stream is deregistered, the consumer told.   *)
TeardownDrop ==
  /\ phase = "draining" /\ ~ChainBusy
  /\ phase' = "closing"
  /\ UNCHANGED <<source, store, spool, target, stopper, halted, wm, seq, reader,
                 consumer, consec, budget>>

(* The consumer and the batch being spooled have been waited for. *)
TeardownEnd ==
  /\ phase = "closing" /\ cons = "off" /\ put.st = "none"
  /\ job' = IF stopper = "user" /\ job.status = "running"
              THEN [job EXCEPT !.status = "paused"] ELSE job
  /\ Forget
  /\ UNCHANGED <<source, dlq, spool, target, budget>>

Crash ==
  /\ phase # "none" /\ Spend("crash")
  /\ \E S \in SUBSET (IF run.st = "write" THEN run.items ELSE {}) : Land(S)
  /\ \E s \in Partly(IF put.st = "append" THEN put.items ELSE <<>>) : spool' = spool \o s
  /\ Forget
  /\ UNCHANGED <<source, store, aside>>

-----------------------------------------------------------------------------
(* The reader *)

readerFrame == <<store, target, life, wm, seq, consumer, consec, budget>>

(* A batch has been read, up to hi; a notice or a truncate is one of its   *)
(* own.  What is at or behind the watermark is dropped.  Its flush waits   *)
(* while the batch before it is being spooled.                             *)
Read ==
  /\ Registered /\ halted = "no" /\ ~ChainBusy /\ next <= LastPos
  /\ \E hi \in next .. LastPos :
       /\ hi < next + MaxBatch
       /\ \A p \in next .. hi : Alone(p) => next = hi
       /\ next' = hi + 1
       /\ ahead' \in Batch(next, hi)
  /\ UNCHANGED <<log, slot, spool, put, readerFrame>>

(* flush(), once the batch before is spooled. *)
FlushTake ==
  /\ ahead.reach # 0 /\ put.st = "none"
  /\ ahead' = NoBatch
  /\ put' = IF Registered /\ halted = "no"
              THEN [NoPut EXCEPT !.st = "wait", !.items = ahead.items,
                                 !.reach = ahead.reach]
              ELSE NoPut
  /\ UNCHANGED <<source, spool, readerFrame>>

(* spoolBatch(): waiting for room, for as long as the stream is registered.*)
(* The depth is advisory: if it cannot be read the append is tried.        *)
HasRoom ==
  /\ put.st = "wait"
  /\ \/ ~Registered /\ UNCHANGED budget
     \/ Registered /\ Len(spool) < SpoolMax /\ UNCHANGED budget
     \/ Registered /\ Len(spool) >= SpoolMax /\ Spend("spool")
  /\ put' = IF ~Registered \/ halted = "yes" THEN NoPut
            ELSE [put EXCEPT !.st = IF put.items = <<>> THEN "save" ELSE "append"]
  /\ UNCHANGED <<source, spool, ahead, store, target, life, wm, seq, consumer, consec>>

Append_ ==
  /\ put.st = "append"
  /\ spool' = spool \o put.items
  /\ put' = [put EXCEPT !.st = "save"]
  /\ UNCHANGED <<source, ahead, readerFrame>>

(* Slip: an append that keeps failing is let go, and the cursor advances. *)
AppendGivesUp ==
  /\ put.st = "append" /\ Spend("spool")
  /\ \E s \in Partly(put.items) : spool' = spool \o s
  /\ put' = IF put.tries + 1 < AppendAttempts THEN [put EXCEPT !.tries = @ + 1]
            ELSE [put EXCEPT !.st = "save"]
  /\ UNCHANGED <<source, ahead, store, target, life, wm, seq, consumer, consec>>

(* The pipeline of XADDs fails: any of them may have taken effect.  After  *)
(* the last attempt the bridge halts without advancing.                    *)
AppendFails ==
  /\ put.st = "append" /\ Spend("spool")
  /\ \E s \in Partly(put.items) : spool' = spool \o s
  /\ IF put.tries + 1 < AppendAttempts
       THEN put' = [put EXCEPT !.tries = @ + 1] /\ UNCHANGED <<job, halted>>
       ELSE put' = NoPut /\ HaltTo("failed")
  /\ UNCHANGED <<source, ahead, dlq, target, phase, stopper, wm, seq, consumer, consec>>

(* The batch is in the spool: the position is saved and confirmed.  The    *)
(* source may only be told at the end of a transaction.                    *)
SaveCursor ==
  /\ put.st = "save"
  /\ wm' = put.reach
  /\ job' = [job EXCEPT !.cursor = put.reach]
  /\ slot' \in {slot} \cup (IF log[put.reach].kind = "skip" THEN {put.reach} ELSE {})
  /\ put' = NoPut
  /\ UNCHANGED <<log, next, spool, ahead, dlq, target, life, seq, consumer, consec,
                 budget>>

(* A save that fails is let go: the source will hand these over again. *)
SaveCursorFails ==
  /\ put.st = "save" /\ Spend("store")
  /\ wm' = put.reach
  /\ put' = NoPut
  /\ UNCHANGED <<source, store, spool, ahead, target, life, seq, consumer, consec>>

-----------------------------------------------------------------------------
(* The consumer *)

consumerFrame == <<source, phase, stopper, wm, reader>>

ConsumerEnds ==
  /\ cons = "on" /\ run.st = "none"
  /\ halted = "yes" \/ phase = "closing"
  /\ cons' = "off"
  /\ UNCHANGED <<consumerFrame, store, spool, target, halted, seq, quota, run, consec,
                 budget>>

(* The next run of what was last read, or of what is read now. *)
TakeRun ==
  /\ cons = "on" /\ run.st = "none" /\ spool # <<>>
  /\ halted = "no" /\ phase # "closing"
  /\ LET q == IF quota > 0 THEN quota
              ELSE IF Len(spool) < MaxBatch THEN Len(spool) ELSE MaxBatch
         n == RunLength(SubSeq(spool, 1, q))
         items == {spool[i] : i \in 1 .. n}
         notice == IsNotice(spool[1]) IN
       /\ quota' = q - n
       /\ run' = [NoRun EXCEPT !.st = IF notice THEN "trim" ELSE "write",
                               !.work = IF notice THEN "notice" ELSE "ok",
                               !.items = items, !.n = n, !.nextSeq = seq + 1]
  /\ UNCHANGED <<consumerFrame, store, spool, target, halted, seq, cons, consec, budget>>

(* attempt(), then settle(), which does nothing on a halted stream. *)
DeliverOk ==
  /\ run.st = "write"
  /\ Land(run.items)
  /\ run' = IF halted = "yes" THEN NoRun ELSE [run EXCEPT !.st = "trim"]
  /\ consec' = IF halted = "yes" THEN consec ELSE 0
  /\ UNCHANGED <<consumerFrame, store, spool, aside, halted, seq, cons, quota, budget>>

DeliverFails ==
  /\ run.st = "write" /\ Spend("dest")
  /\ \E S \in SUBSET run.items : Land(S)
  /\ run' = IF halted = "yes" THEN NoRun
            ELSE [run EXCEPT !.st = "failed", !.work = "failed"]
  /\ UNCHANGED <<consumerFrame, store, spool, aside, halted, seq, cons, quota, consec>>

(* handleFailedBatch(): D is what isolation delivered.  The policy, or a   *)
(* failure that is not confined to a few rows, stops the bridge.           *)
HandleFailed ==
  /\ run.st = "failed"
  /\ \E D \in IF OnError = "continue" /\ Cardinality(run.items) > 1
                THEN SUBSET run.items ELSE {{}},
        stop \in IF OnError = "abort" THEN {TRUE}
                 ELSE {FALSE, Cardinality(run.items) > 1} :
       /\ Land(D)
       /\ consec' = IF stop THEN consec ELSE IF D # {} THEN 0 ELSE consec + 1
       /\ run' = [run EXCEPT
                    !.del = D,
                    !.nextSeq = seq + IF D # {} /\ D # run.items THEN 2 ELSE 1,
                    !.st = IF stop THEN "halting"
                           ELSE IF D = run.items THEN "trim"
                           ELSE IF consec' >= MaxConsecutive THEN "halting" ELSE "park"]
  /\ UNCHANGED <<consumerFrame, store, spool, aside, halted, seq, cons, quota, budget>>

StopRun ==
  /\ run.st = "halting"
  /\ HaltTo("paused")
  /\ run' = NoRun
  /\ UNCHANGED <<consumerFrame, dlq, spool, target, seq, cons, quota, consec, budget>>

AtFault == run.items \ run.del
(* pendingRows(): parking would overrun the queue, so the bridge stops. *)
ParkFull ==
  /\ run.st = "park" /\ Cardinality(dlq) + Cardinality(AtFault) > DeadLetterMax
  /\ run' = [run EXCEPT !.st = "halting"]
  /\ UNCHANGED <<consumerFrame, store, spool, target, halted, seq, cons, quota, consec,
                 budget>>

(* park(): whatever is pending from this sequence on is replaced. *)
Park ==
  /\ run.st = "park" /\ Cardinality(dlq) + Cardinality(AtFault) <= DeadLetterMax
  /\ dlq' = {e \in dlq : e.seq < seq}
              \cup {[seq |-> IF run.del # {} THEN seq + 1 ELSE seq, pos |-> p] :
                      p \in AtFault}
  /\ aside' = aside \cup AtFault
  /\ run' = [run EXCEPT !.st = "trim"]
  /\ UNCHANGED <<consumerFrame, job, spool, dest, landed, halted, seq, cons, quota,
                 consec, budget>>

(* Slip: the whole stream is trimmed, not only up to the run's last entry. *)
TrimAll ==
  /\ run.st = "trim"
  /\ spool' = <<>>
  /\ quota' = 0
  /\ run' = [run EXCEPT !.st = "offset", !.n = 0]
  /\ UNCHANGED <<consumerFrame, store, target, halted, seq, cons, consec, budget>>

(* trimThrough(): a second time it finds nothing left to trim. *)
Trim ==
  /\ run.st = "trim"
  /\ spool' = SubSeq(spool, run.n + 1, Len(spool))
  /\ run' = [run EXCEPT !.st = "offset", !.n = 0]
  /\ UNCHANGED <<consumerFrame, store, target, halted, seq, cons, quota, consec, budget>>

SaveOffset ==
  /\ run.st = "offset"
  /\ job' = [job EXCEPT !.offset = run.nextSeq]
  /\ seq' = run.nextSeq
  /\ run' = NoRun
  /\ UNCHANGED <<consumerFrame, dlq, spool, target, halted, cons, quota, consec, budget>>

(* settle(): the work is begun again, as often as allowed; then it halts.  *)
Retry ==
  IF halted = "yes" THEN run' = NoRun /\ UNCHANGED <<job, halted>>
  ELSE IF run.tries + 1 < SettleAttempts
  THEN /\ run' = [run EXCEPT !.st = IF run.work = "failed" THEN "failed" ELSE "trim",
                             !.tries = @ + 1]
       /\ UNCHANGED <<job, halted>>
  ELSE run' = NoRun /\ HaltTo("failed")

StoreFails ==
  /\ run.st \in {"park", "halting", "trim", "offset"}
  /\ \/ Spend("store")
     \/ run.st = "trim" /\ Spend("spool")
  /\ Retry
  /\ UNCHANGED <<consumerFrame, dlq, spool, target, seq, cons, quota, consec>>

-----------------------------------------------------------------------------

Init ==
  /\ log \in Logs /\ slot = 0 /\ next = 1
  /\ job = [status |-> "paused", offset |-> 0, cursor |-> 0] /\ dlq = {}
  /\ spool = <<>>
  /\ dest = [k \in Keys |-> 0] /\ landed = {} /\ aside = {}
  /\ phase = "none" /\ stopper = "none" /\ halted = "no" /\ wm = 0 /\ seq = 0
  /\ ahead = NoBatch /\ put = NoPut /\ cons = "off" /\ quota = 0 /\ run = NoRun
  /\ consec = 0 /\ budget = Budgets

Lifecycle ==
  \/ Start \/ Resume \/ TeardownDrop \/ TeardownEnd \/ Crash
  \/ \E by \in {"none", "user"} : TeardownBegin(by)
ReaderStep ==
  \/ Read \/ FlushTake \/ HasRoom \/ Append_ \/ AppendFails \/ SaveCursor
  \/ SaveCursorFails
ConsumerStep ==
  \/ ConsumerEnds \/ TakeRun \/ DeliverOk \/ DeliverFails \/ HandleFailed
  \/ StopRun \/ ParkFull \/ Park \/ Trim \/ SaveOffset \/ StoreFails
Next == Lifecycle \/ ReaderStep \/ ConsumerStep

(* The event loop runs what can run; an awaited call answers; a halt tears *)
(* the stream down.                                                        *)
Fairness ==
  /\ WF_vars(ReaderStep) /\ WF_vars(ConsumerStep) /\ WF_vars(Resume)
  /\ WF_vars(TeardownBegin("none")) /\ WF_vars(TeardownDrop) /\ WF_vars(TeardownEnd)

Spec == Init /\ [][Next]_vars
FairSpec == Spec /\ Fairness

-----------------------------------------------------------------------------
(* Properties *)

Spooled(p) == \E i \in DOMAIN spool : spool[i] = p

(* The spool forgets nothing: a row behind the saved cursor, or behind     *)
(* what the source may forget, is in the spool until it has been delivered *)
(* or set aside (spoolBatch: the cursor may only advance once the spool    *)
(* has the changes; deliverSpooled: trimmed only once delivered or parked).*)
NothingSkipped ==
  \A p \in Positions : (p <= job.cursor \/ p <= slot) /\ IsRow(p) =>
    p \in landed \cup aside \/ Spooled(p)

(* A row that has been read is in the destination, in the dead-letter      *)
(* queue, or still to come (the README's "one of three places").  It is    *)
(* not kept under BudgetCrash of MCCdcSpool: see the project's findings.   *)
NothingLost ==
  \A p \in Positions : (p <= job.cursor \/ p <= slot) /\ IsRow(p) =>
    p \in landed \/ Spooled(p) \/ \E e \in dlq : e.pos = p

(* what key k will hold once the spool is drained *)
LastWord(k) ==
  LET hits == {i \in DOMAIN spool : Hits(spool[i], k)} IN
    IF hits = {} THEN dest[k]
    ELSE spool[CHOOSE i \in hits : \A j \in hits : j <= i]

(* However often batches are appended again, in whole or in part, the last *)
(* word on a key is never older than a change behind the saved cursor,     *)
(* unless that change was set aside (append, spoolBatch, trimThrough).     *)
LastWordFresh ==
  \A k \in Keys : \A p \in 1 .. job.cursor :
    IsRow(p) /\ Hits(p, k) => LastWord(k) >= p \/ p \in aside

(* A halted stream is torn down, so that the bridge can be started again.  *)
(* It is not under BudgetFull of MCCdcSpool: see the project's findings.   *)
HaltEnds == halted = "yes" ~> phase = "none"
=============================================================================
