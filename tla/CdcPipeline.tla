---------------------------- MODULE CdcPipeline ----------------------------
(***************************************************************************)
(* The change pipeline of one event-based bridge, delivering directly to    *)
(* its destination (bridge-cdc.service.ts, spool off, which is the          *)
(* default).  A provider reads the source's change log and queues every     *)
(* event on the stream's promise chain; the chain builds batches; at most   *)
(* one batch at a time is in flight, being written, recorded and            *)
(* checkpointed; failures park rows in the dead-letter queue or halt the    *)
(* bridge; the process may crash and the source connection may drop.        *)
(*                                                                          *)
(* A JavaScript task runs to its next await without interruption, so one    *)
(* action is one such run.  The metadata store, the destination and the     *)
(* source are reached by awaits; each may fail.  One process reads the      *)
(* bridge and one stream exists at a time.                                  *)
(***************************************************************************)
EXTENDS Naturals, Sequences, FiniteSets

CONSTANTS
  LastPos,        \* the source's change log holds positions 1 .. LastPos
  Keys,           \* primary-key values of the source table
  Logs,           \* the change logs to consider, each [1..LastPos -> Entry]
  MaxBatch,       \* rows per delivery (maxBatch / byteCappedBatch)
  Window,         \* events one source connection may have outstanding
  OnError,        \* bridge.delivery.onError
  CanIsolate,     \* a database destination without append-only targets
  SettleAttempts, \* SETTLE_ATTEMPTS
  MaxConsecutive, \* runtimeConfig.maxConsecutiveFailures
  DeadLetterMax,  \* runtimeConfig.deadLetterMaxRows
  LongLinger,     \* may cdcLingerMs outlast the provider's reconnect backoff?
  Budgets         \* how often each kind of failure may happen

Positions == 1 .. LastPos
Kinds == {"row", "truncate", "skip", "notice"}
Ops == {"upsert", "delete", "none"}
(* One entry of the change log.  `drop` marks a row (or truncate) that the  *)
(* bridge passes over: filtered out, or its own write coming back.          *)
Entry == [kind : Kinds, key : Keys, op : Ops, drop : BOOLEAN]

FaultKinds ==
  {"crash",     \* the process dies
   "connection",\* the source connection drops and is reopened
   "store",     \* a metadata-store write fails without effect
   "reply",     \* a metadata-store write takes effect, its answer is lost
   "dest",      \* a delivery fails
   "source",    \* the source cannot be read, or its table has changed
   "stop"}      \* somebody stops the bridge, or another process leads

ASSUME ConstantsAssumption ==
  /\ LastPos \in Nat
  /\ Logs \subseteq [Positions -> Entry]
  /\ MaxBatch \in Nat \ {0}
  /\ Window \in Nat \ {0}
  /\ OnError \in {"abort", "continue"}
  /\ CanIsolate \in BOOLEAN
  /\ SettleAttempts \in Nat \ {0}
  /\ MaxConsecutive \in Nat \ {0}
  /\ DeadLetterMax \in Nat
  /\ LongLinger \in BOOLEAN
  /\ Budgets \in [FaultKinds -> Nat]

VARIABLES
  (* the source *)
  log,      \* its change log
  slot,     \* the position it may forget: the slot's confirmed position
  next,     \* the next position the current connection will hand over
  (* the metadata store *)
  job,      \* [status, offset, cursor] of the bridge's job row
  dlq,      \* pending dead-letter rows: [seq, pos]
  cells,    \* the delivery timeline: [seq, pos, as]
  (* the destination *)
  dest,     \* position of the change each key was last written by
  landed,   \* history: every position ever applied
  (* the stream object, lost in a crash *)
  phase,    \* "none", "live", "draining" (teardown waits), "closing" (deregistered)
  stopper,  \* who asked for the teardown: "none", "user", "lead"
  drain,    \* chain tasks the teardown still waits for
  halted,   \* "yes" from the instant a failure stops the bridge
  wm,       \* watermark
  seq,
  buffer,   \* positions accepted but not yet delivered
  tail,     \* tailCursor, 0 for null
  timer,    \* the linger timer: "off" or "set"
  chain,    \* the promise chain: tasks not finished, the first one running
  pc,       \* where the first task stands
  flight,   \* the delivery in flight
  consec,   \* consecutiveFailures
  budget    \* failures still allowed

source == <<log, slot, next>>
store  == <<job, dlq, cells>>
target == <<dest, landed>>
life   == <<phase, stopper, drain, halted>>
batch  == <<buffer, tail, timer>>
vars == <<source, store, target, life, wm, seq, batch, chain, pc, flight,
          consec, budget>>

-----------------------------------------------------------------------------
(* Types *)

Statuses == {"running", "paused", "failed"}
TaskKinds == {"event", "flush", "fatal"}
Task == [kind : TaskKinds, pos : 0 .. LastPos, from : {"current", "old"}]
Continuations == {"join", "truncate", "notice", "stop", "end"}
PcAt == {"idle", "look", "await", "ready", "noting"}
FlightStates ==
  {"none", "write", "record", "failed", "halting", "park", "recordDelivered",
   "recordFailed", "notice", "persist"}
Flight ==
  [st : FlightStates, work : {"none", "ok", "failed", "notice", "empty"},
   items : SUBSET Positions, del : SUBSET Positions,
   reach : 0 .. LastPos, seq : Nat, nextSeq : Nat, tries : Nat]

NoFlight ==
  [st |-> "none", work |-> "none", items |-> {}, del |-> {}, reach |-> 0,
   seq |-> 0, nextSeq |-> 0, tries |-> 0]
Idle == [at |-> "idle", then |-> "end"]

SourceOK ==
  log \in Logs /\ slot \in 0 .. LastPos /\ next \in 1 .. LastPos + 1
StoreOK ==
  /\ job \in [status : Statuses, offset : Nat, cursor : 0 .. LastPos]
  /\ dlq \subseteq [seq : Nat, pos : Positions]
  /\ cells \subseteq [seq : Nat, pos : Positions, as : {"delivered", "failed"}]
TargetOK == dest \in [Keys -> 0 .. LastPos] /\ landed \subseteq Positions
LifeOK ==
  /\ phase \in {"none", "live", "draining", "closing"}
  /\ stopper \in {"none", "user", "lead"}
  /\ drain \in Nat /\ halted \in {"no", "yes"}
CounterOK ==
  wm \in 0 .. LastPos /\ seq \in Nat /\ consec \in Nat /\ budget \in [FaultKinds -> Nat]
BatchOK ==
  buffer \subseteq Positions /\ tail \in 0 .. LastPos /\ timer \in {"off", "set"}
ChainOK == chain \in Seq(Task) /\ pc \in [at : PcAt, then : Continuations]

(* The type of every variable. *)
TypeOK ==
  /\ SourceOK /\ StoreOK /\ TargetOK /\ LifeOK /\ CounterOK /\ BatchOK
  /\ ChainOK /\ flight \in Flight

-----------------------------------------------------------------------------
(* Vocabulary *)

(* streams.get(bridgeId) === stream *)
Registered == phase \in {"live", "draining"}
IsRow(p) == log[p].kind \in {"row", "truncate"} /\ ~log[p].drop
Writing == flight.st # "none"
Head1 == chain[1]

(* keys a change at p overwrites at the destination *)
Hits(p, k) == log[p].kind = "truncate" \/ log[p].key = k
(* p is the last change of S to key k *)
LastHit(p, S, k) == Hits(p, k) /\ \A q \in S : Hits(q, k) => q <= p
Applied(S) ==
  [k \in Keys |-> IF \E p \in S : LastHit(p, S, k)
                   THEN CHOOSE p \in S : LastHit(p, S, k) ELSE dest[k]]
Land(S) == landed' = landed \cup S /\ dest' = Applied(S)

Spend(f) == budget[f] > 0 /\ budget' = [budget EXCEPT ![f] = @ - 1]

(* The first task is done: the next one may start, and a teardown that     *)
(* waits for the chain as it was has one task less to wait for.            *)
Pop ==
  /\ chain' = Tail(chain)
  /\ pc' = Idle
  /\ drain' = IF drain > 0 THEN drain - 1 ELSE 0

(* A flush has returned to the task that called it. *)
Return(then) ==
  IF then = "end"
    THEN Pop
    ELSE pc' = [at |-> "ready", then |-> then] /\ UNCHANGED <<chain, drain>>

(* flush(), up to its await.  The caller gives tail as it leaves it. *)
EnterFlush(then, tail1) ==
  /\ timer' = "off"
  /\ IF tail1 = 0 \/ halted = "yes"
       THEN Return(then)
       ELSE pc' = [at |-> "await", then |-> then] /\ UNCHANGED <<chain, drain>>

(* notePosition(): the pending batch reaches p, without a row. *)
Note(p) ==
  IF Registered /\ halted = "no" /\ p > (IF tail # 0 THEN tail ELSE wm)
    THEN tail' = p /\ timer' = "set"
    ELSE UNCHANGED <<tail, timer>>

(* Slip: a partial batch is left without a timer. *)
PushNoTimer(p) ==
  /\ buffer' = buffer \cup {p}
  /\ tail' = p
  /\ IF Cardinality(buffer') >= MaxBatch
       THEN EnterFlush("end", p)
       ELSE UNCHANGED timer /\ Pop

(* The change at p joins the batch; a full batch is flushed at once, a     *)
(* partial one after a linger.                                             *)
Push(p) ==
  /\ buffer' = buffer \cup {p}
  /\ tail' = p
  /\ IF Cardinality(buffer') >= MaxBatch
       THEN EnterFlush("end", p)
       ELSE timer' = "set" /\ Pop

(* May p not join the batch?  Another operation, or a key already in it. *)
Conflicts(p) ==
  \E q \in buffer : log[q].op # log[p].op \/ log[q].key = log[p].key

(* halt(): the flag is set before anything is awaited; the status is saved *)
(* if the store can be reached.                                            *)
HaltTo(status) ==
  /\ halted' = "yes"
  /\ IF halted = "yes"
       THEN UNCHANGED job
       ELSE job' \in {job, [job EXCEPT !.status = status]}

-----------------------------------------------------------------------------
(* Starting and stopping *)

(* The stream object is gone, and everything in it. *)
Forget ==
  /\ phase' = "none" /\ stopper' = "none" /\ drain' = 0 /\ halted' = "no"
  /\ wm' = 0 /\ seq' = 0
  /\ buffer' = {} /\ tail' = 0 /\ timer' = "off"
  /\ chain' = <<>> /\ pc' = Idle /\ flight' = NoFlight /\ consec' = 0

(* beginStream(): a stream from the saved position.  Slots are replayed    *)
(* from what they confirmed, other logs from the saved cursor.             *)
BeginStream ==
  /\ phase = "none"
  /\ job' = [job EXCEPT !.status = "running"]
  /\ phase' = "live"
  /\ wm' = job.cursor /\ seq' = job.offset
  /\ \E from \in {slot, job.cursor} : next' = from + 1
  /\ UNCHANGED <<log, slot, dlq, cells, target, stopper, drain, halted, batch,
                 chain, pc, flight, consec, budget>>

(* start(): somebody starts a bridge that is not running. *)
Start == job.status # "running" /\ BeginStream

(* resumeAll(): at election, and every so often, every job marked running  *)
(* that is not being read is read.                                         *)
Resume == job.status = "running" /\ BeginStream

(* Slip: the halt awaits the teardown that awaits the halting task. *)
TeardownAwaitsItself(by) ==
  /\ phase = "live"
  /\ IF by = "none" THEN halted = "yes" /\ UNCHANGED budget ELSE Spend("stop")
  /\ phase' = "draining"
  /\ stopper' = by
  /\ drain' = Len(chain) + 1
  /\ UNCHANGED <<source, store, target, halted, wm, seq, batch, chain, pc,
                 flight, consec>>

(* teardown() as far as its first await.  Called by stop(), by standDown() *)
(* when the lead is lost, and after a halt.                                *)
TeardownBegin(by) ==
  /\ phase = "live"
  /\ IF by = "none" THEN halted = "yes" /\ UNCHANGED budget ELSE Spend("stop")
  /\ phase' = "draining"
  /\ stopper' = by
  /\ drain' = Len(chain)
  /\ UNCHANGED <<source, store, target, halted, wm, seq, batch, chain, pc,
                 flight, consec>>

(* The chain has settled: the stream is deregistered, its timer cleared. *)
TeardownDrop ==
  /\ phase = "draining" /\ drain = 0
  /\ phase' = "closing"
  /\ timer' = "off"
  /\ UNCHANGED <<source, store, target, stopper, drain, halted, wm, seq,
                 buffer, tail, chain, pc, flight, consec, budget>>

(* The delivery in flight has finished: the handle is stopped, and what is *)
(* still buffered is dropped.  stop() then marks a running job paused.     *)
TeardownEnd ==
  /\ phase = "closing" /\ ~Writing
  /\ job' = IF stopper = "user" /\ job.status = "running"
              THEN [job EXCEPT !.status = "paused"] ELSE job
  /\ Forget
  /\ UNCHANGED <<source, dlq, cells, target, budget>>

(* The process dies.  A delivery being written may have landed in part. *)
Crash ==
  /\ phase # "none"
  /\ Spend("crash")
  /\ \E S \in SUBSET (IF flight.st = "write" THEN flight.items ELSE {}) : Land(S)
  /\ Forget
  /\ UNCHANGED <<source, store>>

-----------------------------------------------------------------------------
(* The provider *)

Outstanding == {i \in 1 .. Len(chain) : chain[i].from = "current"}

(* handleChange, handleSkip, handleNotice: the event is queued. *)
Hand ==
  /\ Registered /\ next <= LastPos
  /\ Cardinality(Outstanding) < Window
  /\ chain' = Append(chain, [kind |-> "event", pos |-> next, from |-> "current"])
  /\ next' = next + 1
  /\ UNCHANGED <<log, slot, store, target, life, wm, seq, batch, pc, flight,
                 consec, budget>>

(* The connection drops and is reopened: the source starts over behind the *)
(* confirmed position, whatever is still queued from the old connection.   *)
(* The provider waits a second or more before it reconnects, so unless the *)
(* linger (50 ms by default) is configured longer, it has fired by then.   *)
Reconnect ==
  /\ Registered
  /\ timer = "set" => LongLinger
  /\ Spend("connection")
  /\ next' = slot + 1
  /\ chain' = [i \in 1 .. Len(chain) |-> [chain[i] EXCEPT !.from = "old"]]
  /\ UNCHANGED <<log, slot, store, target, life, wm, seq, batch, pc, flight,
                 consec>>

(* A keepalive, with nothing of this bridge's in flight and between two     *)
(* transactions: the source may forget what the server has got to, which may *)
(* leave out transactions that publish nothing.                             *)
Heartbeat(p) ==
  /\ phase # "none" /\ Outstanding = {}
  /\ next > 1 => log[next - 1].kind = "skip"
  /\ next - 1 <= wm
  /\ p >= next - 1 /\ \A q \in next .. p : log[q].kind = "skip"
  /\ p > slot /\ slot' = p
  /\ next' = p + 1
  /\ UNCHANGED <<log, store, target, life, wm, seq, batch, chain, pc, flight,
                 consec, budget>>

(* handleFatal: the source cannot be read any more; queued like an event. *)
HandFatal ==
  /\ Registered
  /\ Spend("source")
  /\ chain' = Append(chain, [kind |-> "fatal", pos |-> 0, from |-> "old"])
  /\ UNCHANGED <<source, store, target, life, wm, seq, batch, pc, flight, consec>>

(* The linger is over: a flush is queued on the same chain. *)
TimerFire ==
  /\ timer = "set"
  /\ timer' = "off"
  /\ chain' = IF Registered
                THEN Append(chain, [kind |-> "flush", pos |-> 0, from |-> "old"])
                ELSE chain
  /\ UNCHANGED <<source, store, target, life, wm, seq, buffer, tail, pc, flight,
                 consec, budget>>

-----------------------------------------------------------------------------
(* The chain: one task at a time *)

TaskReady == pc.at = "idle" /\ chain # <<>>
chainFrame == <<source, store, target, phase, stopper, halted, wm, seq, flight,
                consec, budget>>

(* Nothing to do for this task: the stream is gone or halted, or the event *)
(* is at or behind the watermark.  A bare position is only noted.          *)
DropTask ==
  /\ TaskReady
  /\ \/ Head1.kind # "flush" /\ (~Registered \/ halted = "yes")
     \/ Head1.kind = "event" /\ log[Head1.pos].kind # "skip" /\ Head1.pos <= wm
  /\ Pop
  /\ UNCHANGED <<chainFrame, batch>>

(* handleSkip *)
PassSkip ==
  /\ TaskReady /\ Registered /\ halted = "no"
  /\ Head1.kind = "event" /\ log[Head1.pos].kind = "skip"
  /\ Note(Head1.pos)
  /\ Pop
  /\ UNCHANGED <<chainFrame, buffer>>

(* Slip: positions already done are processed again. *)
LookAgain ==
  /\ TaskReady /\ Registered /\ halted = "no"
  /\ Head1.kind = "event" /\ log[Head1.pos].kind = "row"
  /\ pc' = [at |-> "look", then |-> "end"]
  /\ UNCHANGED <<chainFrame, batch, chain, drain>>

(* accept(), as far as its awaits: completing the row, looking into a      *)
(* change of the table, recognising an echo.                               *)
Look ==
  /\ TaskReady /\ Registered /\ halted = "no"
  /\ Head1.kind = "event" /\ log[Head1.pos].kind = "row" /\ Head1.pos > wm
  /\ pc' = [at |-> "look", then |-> "end"]
  /\ UNCHANGED <<chainFrame, batch, chain, drain>>

(* A truncate, a notice, a fatal error and the timer all begin by flushing *)
(* what was read before them.                                              *)
FlushFirst ==
  /\ TaskReady
  /\ \/ Head1.kind = "flush" /\ EnterFlush("end", tail)
     \/ /\ Registered /\ halted = "no"
        /\ \/ /\ Head1.kind = "event" /\ Head1.pos > wm
              /\ log[Head1.pos].kind \in {"truncate", "notice"}
              /\ EnterFlush(log[Head1.pos].kind, tail)
           \/ Head1.kind = "fatal" /\ EnterFlush("stop", tail)
  /\ UNCHANGED <<chainFrame, buffer, tail>>

(* A filtered-out row, or this instance's own write coming back. *)
PassDropped ==
  /\ pc.at = "look" /\ log[Head1.pos].drop
  /\ Note(Head1.pos)
  /\ Pop
  /\ UNCHANGED <<chainFrame, buffer>>

(* The row joins the batch, behind a flush if it conflicts with it. *)
Join ==
  /\ pc.at = "look" /\ ~log[Head1.pos].drop
  /\ IF Conflicts(Head1.pos)
       THEN EnterFlush("join", tail) /\ UNCHANGED <<buffer, tail>>
       ELSE Push(Head1.pos)
  /\ UNCHANGED chainFrame

(* A column the bridge maps is gone: what was read before is delivered,    *)
(* then the bridge stops, short of this row.                               *)
DriftStop ==
  /\ pc.at = "look"
  /\ budget["source"] > 0
  /\ budget' = [budget EXCEPT !["source"] = @ - 1]
  /\ IF Registered /\ halted = "no" THEN EnterFlush("stop", tail)
                              ELSE Pop /\ UNCHANGED timer
  /\ UNCHANGED <<source, store, target, phase, stopper, halted, wm, seq, flight,
                 consec, buffer, tail>>

(* completeRow(): the row could not be read back.  The bridge is halted    *)
(* with a delivery possibly still in flight.                               *)
RereadFails ==
  /\ pc.at = "look"
  /\ Spend("source")
  /\ IF Registered THEN HaltTo("failed") ELSE UNCHANGED <<halted, job>>
  /\ Pop
  /\ UNCHANGED <<source, dlq, cells, target, phase, stopper, wm, seq, batch,
                 flight, consec>>

(* flush(), after its await: the batch is taken and its delivery begun. *)
FlushTake ==
  /\ pc.at = "await" /\ ~Writing
  /\ IF Registered /\ halted = "no" /\ tail # 0
       THEN /\ flight' = [st |-> IF buffer = {} THEN "persist" ELSE "write",
                          work |-> IF buffer = {} THEN "empty" ELSE "ok",
                          items |-> buffer, del |-> {}, reach |-> tail,
                          seq |-> seq, nextSeq |-> seq, tries |-> 0]
            /\ buffer' = {} /\ tail' = 0
       ELSE UNCHANGED <<flight, buffer, tail>>
  /\ Return(pc.then)
  /\ UNCHANGED <<source, store, target, phase, stopper, halted, wm, seq, timer,
                 consec, budget>>

(* accept(), behind the flush a conflict made necessary. *)
JoinAfterFlush ==
  /\ pc = [at |-> "ready", then |-> "join"]
  /\ IF Registered THEN Push(Head1.pos) ELSE Pop /\ UNCHANGED batch
  /\ UNCHANGED chainFrame

(* A truncate goes alone: pushed behind one flush and in front of another. *)
TruncateAfterFlush ==
  /\ pc = [at |-> "ready", then |-> "truncate"]
  /\ LET p == Head1.pos IN
       IF ~Registered \/ halted = "yes" THEN Pop /\ UNCHANGED batch
       ELSE IF log[p].drop THEN Note(p) /\ Pop /\ UNCHANGED buffer
       ELSE buffer' = buffer \cup {p} /\ tail' = p /\ EnterFlush("end", p)
  /\ UNCHANGED chainFrame

(* handleNotice(), once everything before it has been delivered. *)
NoticeAfterFlush ==
  /\ pc = [at |-> "ready", then |-> "notice"] /\ ~Writing
  /\ IF ~Registered \/ halted = "yes"
       THEN Pop /\ UNCHANGED flight
       ELSE /\ flight' = [NoFlight EXCEPT !.st = "notice", !.work = "notice",
                            !.reach = Head1.pos, !.seq = seq, !.nextSeq = seq + 1]
            /\ pc' = [at |-> "noting", then |-> "end"]
            /\ UNCHANGED <<chain, drain>>
  /\ UNCHANGED <<source, store, target, phase, stopper, halted, wm, seq, batch,
                 consec, budget>>

NoticeDone ==
  /\ pc.at = "noting" /\ ~Writing
  /\ Pop
  /\ UNCHANGED <<chainFrame, batch>>

(* A fatal error or a changed table: what was read is out, so stop. *)
StopAfterFlush ==
  /\ pc = [at |-> "ready", then |-> "stop"] /\ ~Writing
  /\ HaltTo("failed")
  /\ Pop
  /\ UNCHANGED <<source, dlq, cells, target, phase, stopper, wm, seq, batch,
                 flight, consec, budget>>

-----------------------------------------------------------------------------
(* The delivery in flight *)

flightFrame == <<source, phase, stopper, drain, batch, chain, pc>>

(* Slip: a failed batch is resumed at its checkpoint. *)
RestartAtCheckpoint ==
  CASE flight.work = "ok" -> "record"
    [] flight.work = "notice" -> "notice"
    [] OTHER -> "persist"
(* settle(): the work is begun again, as often as allowed; then the bridge *)
(* stops without advancing.  A halted stream settles nothing more.         *)
Restart ==
  CASE flight.work = "ok" -> "record"
    [] flight.work = "failed" -> "failed"
    [] flight.work = "notice" -> "notice"
    [] OTHER -> "persist"
Retry ==
  IF halted = "yes"
    THEN flight' = NoFlight /\ UNCHANGED halted
    ELSE IF flight.tries + 1 < SettleAttempts
    THEN /\ flight' = [flight EXCEPT !.st = Restart, !.tries = @ + 1]
         /\ UNCHANGED halted
    ELSE flight' = NoFlight /\ halted' = "yes"
RetryStatus(job1) ==
  IF halted = "no" /\ flight.tries + 1 >= SettleAttempts
    THEN job' \in {job1, [job1 EXCEPT !.status = "failed"]}
    ELSE job' = job1

(* A metadata-store write has taken effect: its answer arrives and the     *)
(* work goes on at st, or the answer is lost and settle() starts over.     *)
Answered(st) ==
  \/ /\ flight' = [flight EXCEPT !.st = st]
     /\ UNCHANGED <<job, halted, budget>>
  \/ /\ Spend("reply") /\ Retry /\ RetryStatus(job)

(* A metadata-store write fails. *)
StoreFails ==
  /\ flight.st \in {"record", "halting", "park", "recordDelivered",
                    "recordFailed", "notice", "persist"}
  /\ ~(flight.st = "persist" /\ halted = "yes")
  /\ Spend("store")
  /\ Retry /\ RetryStatus(job)
  /\ UNCHANGED <<flightFrame, dlq, cells, target, wm, seq, consec>>

(* attempt(): the destination has every row of the batch. *)
DeliverOk ==
  /\ flight.st = "write"
  /\ Land(flight.items)
  /\ flight' = IF halted = "yes" THEN NoFlight
                 ELSE [flight EXCEPT !.st = "record", !.del = flight.items,
                                     !.nextSeq = flight.seq + 1]
  /\ UNCHANGED <<flightFrame, store, halted, wm, seq, consec, budget>>

(* attempt(): reported as failed; part of it may have landed all the same. *)
DeliverFails ==
  /\ flight.st = "write"
  /\ Spend("dest")
  /\ \E S \in SUBSET flight.items : Land(S)
  /\ flight' = IF halted = "yes" THEN NoFlight
                 ELSE [flight EXCEPT !.st = "failed", !.work = "failed"]
  /\ UNCHANGED <<flightFrame, store, halted, wm, seq, consec>>

(* record(): the delivery takes the cell of its sequence number. *)
Recorded(s, S, outcome) ==
  cells' = {c \in cells : c.seq # s}
             \cup {[seq |-> s, pos |-> p, as |-> outcome] : p \in S}

RecordOk ==
  /\ flight.st = "record"
  /\ Recorded(flight.seq, flight.items, "delivered")
  /\ consec' = 0
  /\ Answered("persist")
  /\ UNCHANGED <<flightFrame, dlq, target, wm, seq>>

RecordNotice ==
  /\ flight.st = "notice"
  /\ Recorded(flight.seq, {}, "delivered")
  /\ Answered("persist")
  /\ UNCHANGED <<flightFrame, dlq, target, wm, seq, consec>>

(* handleFailedBatch(): which rows are at fault?  Isolation writes the     *)
(* healthy ones in smaller groups; without it every row is at fault.       *)
(* Isolation may also find that the failure is not confined to a few rows. *)
HandleFailed ==
  /\ flight.st = "failed"
  /\ \/ /\ OnError = "abort"
        /\ flight' = [flight EXCEPT !.st = "halting"]
        /\ UNCHANGED <<target, consec>>
     \/ /\ OnError = "continue"
        /\ \E D \in IF CanIsolate /\ Cardinality(flight.items) > 1
                      THEN SUBSET flight.items ELSE {{}} :
             /\ Land(D)
             /\ consec' = IF D # {} THEN 0 ELSE consec + 1
             /\ flight' =
                  [flight EXCEPT
                     !.del = D,
                     !.nextSeq = flight.seq
                                   + IF D # {} /\ D # flight.items THEN 2 ELSE 1,
                     !.st = IF D = flight.items THEN "record"
                              ELSE IF consec' >= MaxConsecutive THEN "halting" ELSE "park"]
     \/ /\ OnError = "continue" /\ CanIsolate
        /\ Cardinality(flight.items) > 1
        /\ \E S \in SUBSET flight.items : Land(S)
        /\ flight' = [flight EXCEPT !.st = "halting"]
        /\ UNCHANGED consec
  /\ UNCHANGED <<flightFrame, store, halted, wm, seq, budget>>

(* Slip: both outcomes of a split batch take one cell. *)
FailedSeqShared == flight.seq
AtFault == flight.items \ flight.del
(* delivered rows take `seq`, the ones set aside the next cell *)
FailedSeq == IF flight.del # {} THEN flight.seq + 1 ELSE flight.seq

(* stop(): recorded at `seq`, which is not consumed, and halted. *)
StopBatch ==
  /\ flight.st = "halting"
  /\ Recorded(flight.seq, flight.items, "failed")
  /\ \/ /\ HaltTo("paused")
        /\ flight' = NoFlight
        /\ UNCHANGED budget
     \/ /\ Spend("reply") /\ Retry /\ RetryStatus(job)
  /\ UNCHANGED <<flightFrame, dlq, target, wm, seq, consec>>

(* pendingRows() and park(): what is pending from this sequence on can     *)
(* only be left over from an earlier attempt at this batch; it is replaced.*)
Park ==
  /\ flight.st = "park"
  /\ IF Cardinality(dlq) + Cardinality(AtFault) > DeadLetterMax
       THEN /\ flight' = [flight EXCEPT !.st = "halting"]
            /\ UNCHANGED <<dlq, job, halted, budget>>
       ELSE /\ dlq' = {e \in dlq : e.seq < flight.seq}
                        \cup {[seq |-> FailedSeq, pos |-> p] : p \in AtFault}
            /\ Answered(IF flight.del # {} THEN "recordDelivered" ELSE "recordFailed")
  /\ UNCHANGED <<flightFrame, cells, target, wm, seq, consec>>

RecordDelivered ==
  /\ flight.st = "recordDelivered"
  /\ Recorded(flight.seq, flight.del, "delivered")
  /\ Answered("recordFailed")
  /\ UNCHANGED <<flightFrame, dlq, target, wm, seq, consec>>

RecordFailed ==
  /\ flight.st = "recordFailed"
  /\ Recorded(FailedSeq, AtFault, "failed")
  /\ Answered("persist")
  /\ UNCHANGED <<flightFrame, dlq, target, wm, seq, consec>>

(* checkpoint(): a halted stream saves nothing. *)
PersistHalted ==
  /\ flight.st = "persist" /\ halted = "yes"
  /\ flight' = NoFlight
  /\ UNCHANGED <<flightFrame, store, target, halted, wm, seq, consec, budget>>

(* checkpoint(): what is saved. *)
Saved == [job EXCEPT !.offset = flight.nextSeq, !.cursor = flight.reach]
(* ack(): the source may only be told at the end of a transaction; a       *)
(* missed ack is let go.                                                   *)
AckTo(c) == slot' \in {slot} \cup (IF log[c].kind = "skip" /\ c > slot
                                     THEN {c} ELSE {})

(* Slip: the stream's own sequence number is not moved on. *)
PersistKeepsSeq ==
  /\ flight.st = "persist" /\ halted = "no"
  /\ job' = Saved
  /\ wm' = flight.reach
  /\ AckTo(flight.reach)
  /\ flight' = NoFlight
  /\ UNCHANGED <<log, next, phase, stopper, drain, batch, chain, pc, dlq, cells,
                 target, halted, seq, consec, budget>>

(* checkpoint(): offset and cursor saved in one write, then the stream's   *)
(* own copy, then the source is told.                                      *)
Persist ==
  /\ flight.st = "persist" /\ halted = "no"
  /\ job' = Saved
  /\ seq' = flight.nextSeq
  /\ wm' = flight.reach
  /\ AckTo(flight.reach)
  /\ flight' = NoFlight
  /\ UNCHANGED <<log, next, phase, stopper, drain, batch, chain, pc, dlq, cells,
                 target, halted, consec, budget>>

(* checkpoint(): saved, but the answer is lost. *)
PersistUnanswered ==
  /\ flight.st = "persist" /\ halted = "no"
  /\ Spend("reply")
  /\ Retry /\ RetryStatus(Saved)
  /\ UNCHANGED <<flightFrame, dlq, cells, target, wm, seq, consec>>

-----------------------------------------------------------------------------

Init ==
  /\ log \in Logs
  /\ slot = 0 /\ next = 1
  /\ job = [status |-> "paused", offset |-> 0, cursor |-> 0]
  /\ dlq = {} /\ cells = {}
  /\ dest = [k \in Keys |-> 0] /\ landed = {}
  /\ phase = "none" /\ stopper = "none" /\ drain = 0 /\ halted = "no"
  /\ wm = 0 /\ seq = 0
  /\ buffer = {} /\ tail = 0 /\ timer = "off"
  /\ chain = <<>> /\ pc = Idle /\ flight = NoFlight
  /\ consec = 0
  /\ budget = Budgets

Lifecycle ==
  \/ Start \/ Resume \/ TeardownDrop \/ TeardownEnd \/ Crash
  \/ \E by \in {"none", "user", "lead"} : TeardownBegin(by)
Provider ==
  \/ Hand \/ Reconnect \/ HandFatal \/ TimerFire
  \/ \E p \in Positions : Heartbeat(p)
ChainStep ==
  \/ DropTask \/ PassSkip \/ Look \/ FlushFirst \/ PassDropped \/ Join
  \/ DriftStop \/ RereadFails \/ FlushTake \/ JoinAfterFlush
  \/ TruncateAfterFlush \/ NoticeAfterFlush \/ NoticeDone \/ StopAfterFlush
FlightStep ==
  \/ DeliverOk \/ DeliverFails \/ RecordOk \/ RecordNotice \/ HandleFailed
  \/ StopBatch \/ Park \/ RecordDelivered \/ RecordFailed \/ PersistHalted
  \/ Persist \/ PersistUnanswered \/ StoreFails
Next == Lifecycle \/ Provider \/ ChainStep \/ FlightStep

(* What the event loop guarantees: a task that can run does, an awaited    *)
(* write answers, a timer fires, the source keeps sending, a teardown      *)
(* proceeds, and the reconciler finds a running job nobody reads.          *)
Fairness ==
  /\ WF_vars(Hand) /\ WF_vars(TimerFire)
  /\ WF_vars(ChainStep) /\ WF_vars(FlightStep)
  /\ WF_vars(TeardownBegin("none")) /\ WF_vars(TeardownDrop)
  /\ WF_vars(TeardownEnd) /\ WF_vars(Resume)

Spec == Init /\ [][Next]_vars
FairSpec == Spec /\ Fairness

-----------------------------------------------------------------------------
(* Properties *)

(* A change is accounted for: applied at the destination at some point, or *)
(* set aside in the dead-letter queue.  Anything else needs no delivery.   *)
Accounted(p) == IsRow(p) => p \in landed \/ \E e \in dlq : e.pos = p
Covered(c) == \A p \in 1 .. c : Accounted(p)

(* A row that has been read is in the destination, in the dead-letter      *)
(* queue, or still ahead of the cursor and of what the source may forget   *)
(* (checkpoint, notePosition, handleFailedBatch, and the README's "one of  *)
(* three places").                                                         *)
NothingLost == Covered(job.cursor) /\ Covered(slot)

(* The timeline says what happened: every row behind the saved cursor has  *)
(* a cell below the saved sequence, green only if the row landed, red only *)
(* if it is in the dead-letter queue under that very sequence.             *)
TimelineTruthful ==
  \A p \in 1 .. job.cursor : IsRow(p) =>
    \E c \in cells :
      /\ c.pos = p /\ c.seq < job.offset
      /\ IF c.as = "delivered" THEN p \in landed ELSE [seq |-> c.seq, pos |-> p] \in dlq

(* What the destination holds of a key is never older than the rows behind *)
(* the cursor that are not parked: no stale row lands on top of a fresh one*)
(* (flush: one delivery at a time, in the order read; accept: a key is at  *)
(* most once in a batch).                                                  *)
DestinationFresh ==
  \A p \in 1 .. job.cursor : \A k \in Keys :
    IsRow(p) /\ Hits(p, k) => dest[k] >= p \/ \E e \in dlq : e.pos = p

(* A sequence number below the saved one is settled: no later delivery     *)
(* rewrites its cell or replaces its parked rows (park's replaceFrom).     *)
SettledStays ==
  [][/\ \A c \in cells : c.seq < job.offset => c \in cells'
     /\ \A e \in dlq : e.seq < job.offset => e \in dlq']_<<cells, dlq>>

(* A bridge marked running delivers or parks every row of the log, or is   *)
(* marked stopped (the linger timer, flush, the reconciler). The cursor is *)
(* not asked for: a reconnect can set it back until the next event.        *)
CatchesUp ==
  job.status = "running" ~> (Covered(LastPos) \/ job.status # "running")

(* A halted stream is always torn down, so the bridge can be started again.*)
HaltEnds == halted = "yes" ~> phase = "none"

-----------------------------------------------------------------------------
(* Why nothing is lost: the inductive invariant behind NothingLost and     *)
(* TimelineTruthful, for stores whose answers are not lost                 *)
(* (budget["reply"] = 0).                                                  *)

(* What the first task of the chain is, wherever it stands. *)
TaskStands ==
  /\ \A i \in 1 .. Len(chain) : chain[i].kind = "event" => chain[i].pos # 0
  /\ pc.at # "idle" => chain # <<>>
  /\ pc.at = "look" => Head1.kind = "event"
  /\ pc.at \in {"await", "ready"} /\ pc.then \in {"join", "truncate", "notice"} =>
       Head1.kind = "event"
  /\ pc.at \in {"await", "ready"} /\ pc.then = "notice" =>
       log[Head1.pos].kind = "notice"
  /\ pc.at = "noting" => Head1.kind = "event" /\ log[Head1.pos].kind = "notice"
  /\ pc.at = "ready" => pc.then # "end"

(* Told truthfully in a cell below n: green and landed, or red and parked  *)
(* under the cell's sequence.                                              *)
ToldBelow(p, n) ==
  \E c \in cells :
    /\ c.pos = p /\ c.seq < n
    /\ IF c.as = "delivered" THEN p \in landed ELSE [seq |-> c.seq, pos |-> p] \in dlq
(* Accounted for in a way no later record() or park() can undo: the        *)
(* sequence of its cell is below the saved one.                            *)
Settled(p) == IsRow(p) => ToldBelow(p, job.offset)
SettledTo(c) == \A p \in 1 .. c : Settled(p)
Pending(p) == Settled(p) \/ p \in flight.items \/ p \in buffer
Live == Registered /\ halted = "no"
(* event i of the chain is at p *)
EventAt(i, p) == chain[i].kind = "event" /\ chain[i].pos = p

(* What is saved, what the source may forget and the watermark are settled.*)
SavedSettled ==
  /\ SettledTo(job.cursor) /\ SettledTo(slot)
  /\ phase # "none" => seq = job.offset /\ SettledTo(wm)

(* A delivery reaches no further than what is settled or in it, and each   *)
(* step of its settlement stands on the ones before.                       *)
FlightCovers ==
  Writing =>
    /\ phase # "none" /\ flight.seq = seq
    /\ \A p \in 1 .. flight.reach : Settled(p) \/ p \in flight.items
FlightSteps ==
  /\ ~Writing => flight = NoFlight
  /\ flight.st = "record" \/ (flight.work = "ok" /\ flight.st # "write") =>
       flight.items \subseteq landed /\ flight.nextSeq = flight.seq + 1
  /\ flight.work \in {"notice", "empty"} => flight.items = {}
  /\ flight.work = "notice" => flight.nextSeq = flight.seq + 1
  /\ flight.work = "empty" => flight.nextSeq = flight.seq
  /\ flight.st \in {"park", "recordDelivered", "recordFailed"} =>
       flight.del \subseteq landed /\ flight.nextSeq = FailedSeq + 1
  /\ flight.st \in {"recordDelivered", "recordFailed"} =>
       \A p \in AtFault : [seq |-> FailedSeq, pos |-> p] \in dlq
  /\ flight.st = "recordFailed" =>
       \A p \in flight.del : [seq |-> flight.seq, pos |-> p, as |-> "delivered"] \in cells
  /\ flight.st = "persist" =>
       flight.nextSeq >= flight.seq /\ \A p \in flight.items : ToldBelow(p, flight.nextSeq)

(* What a step settles: a batch, a failed batch, a notice or a position. *)
FlightWork ==
  /\ Writing => flight.work # "none"
  /\ flight.st = "write" => flight.work = "ok"
  /\ flight.st = "record" => flight.work \in {"ok", "failed"}
  /\ flight.st = "notice" => flight.work = "notice"
  /\ flight.st \in {"failed", "halting", "park", "recordDelivered", "recordFailed"} =>
       flight.work = "failed"

(* The batch being built reaches no further than what is settled, in       *)
(* flight or in it; so does everything queued, in the order it is queued.  *)
BatchCovers ==
  /\ tail = 0 => buffer = {}
  /\ Live /\ tail # 0 => \A p \in 1 .. tail : Pending(p)
QueueCovers ==
  Live =>
    /\ \A i \in 1 .. Len(chain) : chain[i].kind = "event" =>
         \A p \in 1 .. chain[i].pos - 1 :
           Pending(p) \/ \E j \in 1 .. i - 1 : EventAt(j, p)
    /\ \A p \in 1 .. next - 1 :
         Pending(p) \/ \E j \in 1 .. Len(chain) : EventAt(j, p)

(* After its flush the running task finds an empty batch, and a task that  *)
(* waits in a flush only to end has put its change into the batch.         *)
BatchStands ==
  /\ Live /\ pc.at = "ready" => buffer = {}
  /\ Live /\ pc.at = "await" /\ pc.then = "end" /\ Head1.kind = "event" =>
       Head1.pos \in buffer

(* Without a stream there is nothing queued, batched or timed. *)
StreamGone ==
  phase = "none" =>
    chain = <<>> /\ pc = Idle /\ buffer = {} /\ tail = 0 /\ timer = "off"

(* Every row that is behind what is saved, in flight, batched or queued is *)
(* settled or still ahead in one of them, in this order.                   *)
NoLossInv ==
  /\ SavedSettled /\ FlightCovers /\ FlightSteps /\ FlightWork /\ BatchCovers
  /\ QueueCovers /\ BatchStands /\ StreamGone
=============================================================================
