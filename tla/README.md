# SYNCLE: a verification project in TLA+

SYNCLE keeps databases in step. A *bridge* reads changes (or whole tables) from
a source database and writes them to one or more destinations: other databases
or an HTTP endpoint. This directory models the parts of it where a mistake costs
data, checks the models with TLC and proves the central properties with TLAPS. It
is written from the code; paths below are relative to `src/apps/api/src/` unless
they say otherwise.

Contents: [inventory](#inventory) · [plan](#plan) · [modules](#modules) ·
[runs](#runs) · [bounds](#bounds) · [fairness](#fairness) · [proofs](#proofs) ·
[findings](#findings) · [not modelled](#what-is-not-modelled).

## Inventory

Everything runs in one or more Node processes sharing a metadata store
(PostgreSQL through Prisma) and a Redis. A JavaScript task runs to its next
`await` without interruption; every `await` is a point where another task of the
process, or another process, may act.

| Component | State | Operations | What makes it correct |
|---|---|---|---|
| **Change pipeline** `bridges/bridge-cdc.service.ts` | a `Stream` per live bridge: watermark, sequence, buffer, tail position, linger timer, promise chain, delivery in flight, `halted`; the job row's status, offset, cursor | `handleChange/Skip/Notice/Fatal`, `accept`, `flush`, `deliverBatch`, `settle`, `checkpoint`, `handleFailedBatch`, `halt`, `teardown`, `beginStream`, `resumeAll` | no row is lost, order per row is kept, progress never goes back, a halt ends |
| **PostgreSQL stream** `bridges/cdc/providers/postgres-cdc.provider.ts` | the slot's confirmed position, the connection | hand over, reconnect, `ack` | the source forgets only what is saved |
| **Dead-letter queue** `bridges/dead-letter.service.ts` | pending, resolved and discarded rows; bridges being retried | `park`, `retry`, `refresh`, `discard` | holds every row set aside, once; never overruns its limit |
| **Delivery timeline** `bridges/bridge-job.service.ts` | one cell per sequence number, job status | `recordDelivery`, `recordNotice`, `finalize` | says what happened to each row |
| **CDC spool** `bridges/cdc/cdc-spool.service.ts` | a Redis stream per bridge | `append`, `read`, `trimThrough`, `depth` | an entry leaves it only when settled; bounded |
| **Failure isolation** `bridges/cdc/isolate-failures.ts` | queue of segments, result | `split`, one attempt per segment | partitions the batch, writes nothing twice, accuses no healthy row |
| **Destination writers** `bridges/database-sink.service.ts`, `bridge-sink`, `delivery` | — | fan-out, one transaction per target | `succeededTargets` is what committed |
| **Leadership** `common/instance.service.ts` | lease in Redis, `leader`, time of last renewal, requests in flight | heartbeat, step up/down, `askLeader`, `withLock` | a leader cut off gives up in time; there is always going to be one; a running bridge is read |
| **Copy then follow** `bridges/cdc/snapshot-provider.ts` | copy position, held changes | copy pages, hold, hand over | a copied row never lands over a later change |
| **Replay jobs** `bridges/bridge-job.processor.ts`, `job-registry`, `queue.util` | cursor, settled sequences | `execute`, `flush`, cancel | every row sent, a batch not twice after a restart |
| **Shared slots** `providers/postgres-shared-slot.ts` | one slot, a position per bridge | join behind a barrier, open, stop, leave, ack, heartbeat | a member misses nothing and gets it once; the slot follows the slowest member and no further behind |
| **Watch bridges** `bridges/bridge-watch.service.ts` | cursor and offset in the job, a scheduler and a lock in Redis, an interval per process | `start`, `stop`, `runPoll`, `watchQuery`, `advanceCursor`, `adapt`, `reconcile` | nothing skipped, nothing sent twice; polled while it listens, silent when it does not |
| **Echo guard** `bridges/echo-guard.service.ts` | remembered writes per row, with the tables each has been through | `announce`, `recognise`, `route`, `retract` | no loop between bridges, no foreign write dropped |
| **Verify and reconcile** `bridges/bridge-verify.service.ts` | comparison state | compare, look again, repair, remove extras, cancel | a verdict of "in sync" is true; a repair writes the source's present state |
| **Scheduler, retention** | schedules, sweep limits | tick, sweep | one run per tick; nothing pending is swept |
| **Connections, accounts, keys** `connections/`, `auth/`, `common/*rotation*` | pools, sessions, encrypted secrets | borrow/evict, sign in, rotate | no adapter closed in use; a rotation survives a crash |
| Adapters, type mapping, UI, website (`packages/core`, `apps/web`, `website`) | — | query building, conversions, presentation | left to unit tests |

**How they interact.** A provider calls the pipeline's handlers; the handlers
queue tasks on the stream's promise chain. The chain builds a batch and starts
its delivery without waiting for it, so reading overlaps writing; the next
`flush` waits for the delivery in flight. A delivery goes through the sink to
the destination, then to the timeline, the dead-letter queue and the job row in
the store, then to the provider's `ack`. A failure calls `halt`, which schedules
`teardown`, which waits for the chain. A start, a reconciler tick or a change of
leader begins a stream from the saved cursor. With the spool on, the first half
ends in Redis and a consumer loop does the second half.

**What is hard.** (1) Reading, delivering and tearing down interleave at every
`await`. (2) Every settlement is three or four writes to different stores, and
the process may die between any two. (3) A write may take effect although its
answer says otherwise. (4) A reconnect replays what is still in memory.
(5) A failing batch is split, and part of it parked. (6) Two loops wait for each
other through a bounded queue. (7) Several processes may each believe they lead.
(8) A copy, a replay, a retry and a repair write the rows the live stream writes.
(9) A BullMQ entry may be worked on by two workers.
(10) Bridges read what bridges write, through logs of their own pace. (11) A table
is polled while it changes, in pages, with transactions that commit late.
`PROJECT.json` lists these hazards at their lines.

## Plan

Done, in this order:

1. `CdcPipeline`, with `CdcPipelineProofs`: the direct pipeline.
2. `CdcSpool`, with `CdcSpoolProofs`: the pipeline through Redis.
3. `Isolation`, with `IsolationProofs`: the search for the rows at fault, and the
   fan-out under it.
4. `Leadership`, the abstract `Lease` it implements, and `LeadershipProofs`.
5. `Lifecycle`: starting, stopping and resuming a bridge over several processes,
   built on `Lease`.
6. `ReplayJob`, with `ReplayJobProofs`: batches, cursor, retries, cancel, a worker
   taking over.
7. `SnapshotCopy`, with `SnapshotCopyProofs`: copy then follow, for engines with and
   without a log.
8. `Repairs`: the stream, a retry of dead letters and a verification at once.
9. `SharedSlot`, with `SharedSlotProofs`: several bridges on one slot.
10. `EchoGuard`: bridges that feed each other.
11. `WatchPoll`, with `WatchPollProofs`: a table that is polled.

Left, most valuable first: proofs about `Repairs` (what two writers of a row may
leave behind), `EchoGuard` (`NoWayBack`) and `Lifecycle`; an abstract
`ReliableTransfer` (each log position is ahead, applied or parked, and only moves
forward) that `CdcPipeline` refines; when polls are scheduled; the adapter pool with
its SSH tunnels; key rotation; schedule arithmetic.

## Modules

### CdcPipeline — the direct change pipeline (spool off, the default)

The source is a fixed log of positions `1 .. LastPos`; an entry is a row with a
key and an operation, a truncate, a notice, or a skip (a commit, a position
without a row). `drop` marks what the bridge passes over: filtered rows and its
own writes coming back. Rows carry no data besides their position: the
destination maps each key to the position it was last written by, which is what
"fresh" and "stale" need.

| Variables | Code |
|---|---|
| `slot`, `next` | the slot's confirmed position; what the connection hands over next |
| `job`, `dlq`, `cells` | job row (`status`, `cursorOffset`, `cursorJson`), pending dead letters, timeline cells |
| `dest`, `landed` | the destination; history of everything applied |
| `phase`, `stopper`, `drain`, `halted` | membership in `streams`, the progress of `teardown`, `Stream.halted` |
| `wm`, `seq`, `buffer`, `tail`, `timer`, `consec` | the fields of `Stream` of those names |
| `chain`, `pc` | the promise chain and where its first task stands |
| `flight` | the delivery in flight and the step of its settlement |
| `budget` | failures still allowed |

Actions follow the awaits. *Provider*: `Hand` queues an event, `Reconnect` starts
over behind the slot, `Heartbeat` is the keepalive that moves the slot over
transactions that publish nothing while nothing is in flight, `HandFatal`, `TimerFire`. *Chain*: `Look` is `accept` up
to its awaits, then `Join`, `PassDropped`, `FlushFirst` (a full batch, a repeated
key, another operation, a truncate or notice); `FlushTake` is `flush` behind its
wait; the `…AfterFlush` actions go on from there; `DriftStop` and `RereadFails`
are the two other ways a task can stop the bridge. *Flight*: `DeliverOk/Fails`,
`RecordOk`, `HandleFailed` with `StopBatch`, `Park`, `RecordDelivered`,
`RecordFailed`, then `Persist` (`checkpoint`); `StoreFails` and
`PersistUnanswered` are the failures `settle` retries. *Lifecycle*: `Start`,
`Resume`, the three stages of `teardown`, `Crash`.

A failed delivery may have landed any part of its rows. A crash keeps what the
store, the source and the destination hold, with any part of the batch being
written.

### CdcSpool — the pipeline through Redis (opt-in)

The reader (`Read`, `FlushTake`, `HasRoom`, `Append_`, `AppendFails`,
`SaveCursor`) and the consumer (`TakeRun`, `DeliverOk/Fails`, `HandleFailed`,
`Park`, `Trim`, `SaveOffset`) run side by side on one queue. A failed append may
have landed any part of the batch. How a batch is built is `CdcPipeline`'s
matter: here the reader takes any few consecutive positions. Timeline cells are
left out; a record that fails is a failure of the step behind it.

### Isolation — which rows are at fault

`isolateFailures` line by line over intervals of rows, each attempt a delivery
that commits or fails target by target (`DatabaseSinkService.deliver`). A refusal
`(row, target)` lasts; a blip is momentary. Targets have transactions: without
them (MongoDB, Redis) a failed target may hold part of a segment and rows are
written again, which those engines absorb by idempotent writes.

### Leadership and Lease — who leads

`Leadership` is `common/instance.service.ts` against a clock that ticks once per
beat (three beats to a lease). A beat is a command (`Beat`, `BeatFails`,
`AnswerLost`), its answer (`AfterKept`, `AfterLost`, `AfterWon`, `AfterTaken`,
`AfterFailure` with the fence at line 234) and, after an election, the listeners,
which the chain of beats waits for. `holder` and `left` are the Redis key and its
remaining life, `leader` and `age` the fields `leader` and `Date.now() -
leaseSeenAt`. Two times are assumptions about the environment: `AnswerTime`, the
longest a Redis command takes to answer or fail (ioredis is given no command
timeout, so the code does not bound it itself), and `ListenTime`, the longest the
listeners of an election run. A process boots again under a new name, so it
never owns a lease it does not know of.

`Lease` is what the rest of the system may rely on: a key with at most one owner,
taken only when free; *owning* and *leading* are different, and more than one
process may believe it leads. `LeaseKept` says `Leadership` implements `Lease`,
with a process counted as leading from the moment Redis gave it the key.

### Lifecycle — starting and stopping one bridge

Each process may have a start, a resume, a stop, a stand-down and a teardown for
another process under way at once, each at its own `await`. `open[p]["start"]` and
`open[p]["resume"]` go through `Gate` (`streams.has`), `Register` (`streams.set`),
`Opened` or `OpenFails`; `tear[p][…]` through `TearStart`, `TearDrop`
(`streams.delete`) and `TearEnd`. `stream[p]` is what became of each stream object,
`entry[p]` the one in the map. `ask` is the request of a stop to the leader
(`askLeader`), which the leader answers by tearing down, or dies over, or which
times out (`AskOver`). The lease moves as `Lease` allows. `rerouteStream` and the
release of slots are left out.

### ReplayJob — a bridge's rows sent as a job

One job: its row, its timeline cells, its entry in the BullMQ queue and the workers
that may be at it. `Pick` to `Finish` is `BridgeJobProcessor.process`: `Mark` says
the job is running, `ReadTimeline` loads what was delivered before (or `Drifted` ends
the run there); `Look`, `Send`, `Record`, `Cursor` are a turn of `execute`; `Resend…`
is `executeResend`; `Single…` is `retryDelivery`, run by an API process. `Start`,
`RetryFailed`, `ResendFailed`, `Skip`, `CancelRead` and `Edit` are what users ask for;
a cancel goes on in three more steps (`CancelMark` the row, `CancelTell` the registry,
`CancelRemove` the queue's entry). When several workers are idle the model lets one of
them take the entry (`AnIdleOne`): idle workers do not differ.
The queue is external and modelled from its use: `add` under an id that is there
does nothing, a stalled entry goes back or fails, and a slow worker may lose its
lock and go on working (`LockLost`). `together` is a ghost: workers that have not
been alone with the job since they began.

### SnapshotCopy — copy then follow

`snapshot-provider.ts` over three engines: `slot` (PostgreSQL) holds a place in
the log since the bridge was made, `log` (MySQL, MongoDB) takes one when the copy
begins, `none` (Redis) listens and holds changes in memory. The pipeline behind it
is a queue: written, then checkpointed, in order. The ghost `extra` marks rows the
destination had and the source had lost when a copy began anew: a copy does not
delete.

### Repairs — three writers of one destination

The stream (`Deliver` writes, `Park` sets aside what was refused, `Record` puts the
delivery on the timeline, `Checkpoint` saves the cursor; a crash in between makes the
delivery anew, under the same number), a retry of dead letters (`Retry`, `RefreshRead`,
`RefreshWrite`, `Resolve`, `MarkRecovered`; an entry that was parked again meanwhile is
`Gone`) and a verification (`VerifyStart` to `Complete`, with the second look, the
repair and the removal of extras; `VerifyFails` is an end that cannot be read). A cancel
reads the run (`VerifyCancel`) and then takes it out of the queue (`CancelRemove`,
`CancelFinish`) or tells it (`CancelTell`). Each read and each write is a step. A retry and a repair write what they *read from the
source*, and the stream may write a newer change between the two; the ghost
`raced` marks a row whose last writer had been overtaken in that way. Only bridges
with a live stream (`moving` in the code) are modelled: the others have no race.

### SharedSlot — several bridges on one replication slot

One slot, its members, one reader. `Join…`, `Open`, `Stop` and `Leave…` are the
operations that hold the slot's queue (`serial`), each cut at its awaits; a join may
fail behind any of them (`JoinGivesUp`), and undoing it may fail as well (`Torn` says
whether the table stays published). `RunLoop`,
`Subscribe`, `Read`, `HandTo` the reader; `Settle` the acknowledgement; `Heartbeat`
what a keepalive moves. `each` goes over the members as they were when it began and
may hand a change to one that is being removed: its pipeline was stopped first and
drops it (`DropTask` in `CdcPipeline`), so that `Takes` asks for a member. The source has transactions that span these steps, and a
change is decoded only if its table was published when it was made.

### EchoGuard — bridges that feed each other

One row under one key in every table, and a set of topologies to look at. A bridge
that is about to write says so in Redis, per table (`Announce`, `Onto`), with the
tables the row has been through; the bridge that reads that table looks each change
up (`Recognise`), trims what it found and all before it off the memory (`Consume`, a
step of its own) and does not send the change where it has been (`Route`). What was
said of a write that failed or changed nothing is taken back (`Retract`), unless that
fails (`RetractFails`); an announcement whose answer is lost may be there all the same
(`AnnounceFails`). A change also
carries its true way, `been`, which the code does not see and the properties
compare with. `since` is a ghost: which tables were changed by people since all was
quiet, and whether anything went wrong. Two people changing two tables at once have
no common last word, so such a *race* is left out of the properties; `since.stale`
marks what a failed lookup, announcement or retraction or a crash leaves behind in Redis (finding 10).

### WatchPoll — what a poll reads and sends

`runPoll` with `watchQuery` and `advanceCursor` for the three strategies. A row is
its key and the value of the watched column; a transaction takes that value when it
begins and shows the row when it commits. `Fetch` is a page, by offset; `Deliver`,
`Record`, `Park`, `SaveSeq` are a row of it, each an await; `SavePage` saves the
cursor and `Turn` says where the next page begins. `Start` and `Seed` are
`initialCursor`, `Pause` the ways a poll stops the bridge. A `Stop` reaches
the poll if the same process runs it; otherwise the poll goes on to its end. The ghost `cut` holds
rows whose page was cut off before its cursor was saved, and `shifted` whether a row
left its place while a poll was paging by offset through rows it knew.

### MC modules

They only give constants their values. Operators commented *Slip* in the
components are plausible mistakes in the definition below them; `PROJECT.json`
names the property each of them breaks.

## Runs

| Run | Shows |
|---|---|
| `pipeline_continue` | `onError=continue` with isolation; two failed deliveries, a failed save, a crash, a queue that fills up, keepalives that move the slot. Nothing is lost; the timeline is true; what the destination holds of a row is never older than what is behind the cursor; what is settled is not rewritten. |
| `pipeline_abort` | `onError=abort` with a notice, a truncate that is passed over, a dropped connection, a fatal source error, a stop and a lost answer of the store. Under fairness every row is delivered or parked, or the bridge is marked stopped; a halt ends. |
| `spool` | A crash, failed Redis commands, a failed save, a failed delivery, a stop: up to three in all. No row leaves the spool unsettled (`NothingSkipped`); duplicated and partial appends never bring an old value back (`LastWordFresh`). |
| `isolation` | Every batch of up to eight rows. No row is lost, doubled, or written twice to a target; the remembered targets are exactly those holding the row; healthy rows are spared; one bad row is found within two attempts per halving. |
| `leadership` | Two processes, a lost connection, a lost answer, a crash, a shutdown. A leader cut off gives up in time; two leaders are never both young; the lease is implemented; a vacant lead is taken. |
| `lifecycle` | Two processes, a start, a stop, a failure. A bridge marked running is read by a leader; a process that lost the lead falls silent; a stop ends. |
| `replay` | Two workers, two targets, two starts, one further request, one failing delivery, one fault, one boot. A completed run has a delivery for every row; a worker alone with the job writes nothing again; nothing behind the cursor is skipped; what is queued ends. |
| `copy` | All three engines, two keys, two changes at any moment, two crashes, a failed read. The destination becomes the source; a saved cursor is safe to resume from; the copy settles. |
| `repairs` | Two changes, two refusals, one retry, one verification, one discard and cancel, three of them in all, and a crash besides. Rows nobody raced converge; a recovered delivery is delivered; "in sync" is true. |
| `shared` | Two bridges and two tables, a transaction across the join, one disturbance (a crash, a lost connection, a failing handler, a join that fails at any of its steps). Nothing missed; in order and once; the slot is released; the queue moves. |
| `echo` | Two tables fed from each other, a chain and a ring of three, while people write, delete and truncate and one write, announcement, retraction, lookup, memory or process is lost. Nothing goes back while all is well, the tables agree in the end (nothing false stays remembered that would hold an edit back), an echo that was missed dies out. |
| `watch` | Every strategy, with late commits: from the beginning with two rows, two failed deliveries and a delete, stop, drift, crash or failed park; from the beginning and from now on with three writes. Nothing is skipped unless a row moved under a poll that paged by offset; the overlap is not sent again; a delivery that is shown keeps its number; everything is delivered or set aside in the end. |

Deadlock checking is off because these systems rightly come to rest: a bridge
stopped after its last failure, a job that is done, a slot nobody uses.

## Bounds

* Four positions, two keys, batches of two (three positions in `spool`): enough
  for a row to be repeated across a batch boundary, for one batch in flight, one
  being built and one queued, and for a commit behind them. The logs are picked,
  not enumerated: a repeated key, mixed operations with a filtered row and a
  truncate, a notice, and two transactions in a row that publish nothing.
* `Window = 1` event outstanding per connection: the PostgreSQL provider hands
  over in order and awaits; a second connection adds its own.
* Failures are a budget per kind (`Budgets`; in `CdcSpool` also `"any"`, all of
  them together). Each finding needs at most three.
* `SettleAttempts` and `AppendAttempts` are 1 or 2 instead of 3, `MaxConsecutive`
  2 or 3 instead of 5: the last attempt and the ones before it both happen.
* `LongLinger` says whether the linger may outlast the provider's reconnect
  backoff. It is 50 ms against a second or more by default, so
  finding 1 sets it FALSE: the counterexample needs no unusual setting.
* `leadership`: a lease of three beats, as in the code; answers within one, and
  listeners that outlast the lease, so that a leader can find itself overtaken.
* `lifecycle`: three stream objects per process: one for each operation that can
  open one, and one being torn down.
* `replay`: three rows in batches of two, so that the last batch is short; two
  targets, so that a delivery can commit in part. A draft without a timeline may
  also be edited to and from one batch of three; later edits (of a draft a batch
  of which was skipped, or of a run that has begun) are left to finding 2.
* `copy`: two keys in pages of one, and one held change, so that a page boundary,
  a resumed copy and an overflow all happen.
* `repairs`: two keys (symmetric), two changes, batches of two; three requests and
  failures and a crash besides, so that a retry, a verification, a refusal and a crash
  come together (4.25 million states). Checked once and not kept for its size: four
  requests and failures in all (7.55 million states), without an error.
* `shared`: one transaction and one disturbance. Checked once and not kept for
  their size: two disturbances (4,645,272 states) and two transactions
  (9,301,147 states), both without an error.
* `echo`: three edits (two with three tables) and one disturbance, `Remembers` (`PER_ROW`, 20)
  at least the number of edits, and no edits after a race. Checked once and not
  kept for its size: three edits in the ring with one value (744,547 states).
* `watch`: two keys in pages of one, a clock of three ticks, a lookback and a
  transaction of one tick, so that a row can commit behind the cursor, a window
  takes several pages and a page is cut off. `ScanPages` is 3 instead of 50: enough
  for any window of this table. Numbers of `increment` commit in order (finding 14).
  Checked once and not kept for its size: three writes with two failures and one
  disturbance (3.7 million states, the three safety properties), without an error.
* The theorems have none of these bounds.

## Fairness

Weak fairness only, and only of what the runtime and the services provide: a task that can run
does; an awaited call answers, one way or the other; a timer fires; the source
goes on sending; `setImmediate` runs a teardown; the reconciler, a 15-second
interval, finds a running job nobody reads. No failure, crash, stop or start by
a user is fair. In `Leadership` a connection to Redis comes back and a process
is booted again, without which nobody could take over. In `ReplayJob` BullMQ looks
after stalled entries. In `SharedSlot` transactions of the source end (or the
join's deadline passes), keepalives come, and the server's `wal_sender_timeout`
ends a stream nobody answers. In `EchoGuard` a bridge reads what there is and goes on
with what it has; it does not stop for good after a failure. In `WatchPoll` the
scheduler goes on firing, calls answer and transactions end. Fairness is used by
`pipeline_abort`, `leadership`, `lifecycle`, `replay`, `copy`, `shared`,
`echo` and `watch`.

## Proofs

`CdcPipelineProofs` proves `TypeCorrect: Spec => []TypeOK`. `TypeOK` alone is not
inductive: an action that takes the first task's position needs that task to be
an event. `TypeInv` adds `TaskStands`, which relates `pc` to the head of `chain`.

It also proves, for every log, batch size, window, policy and number of failures, if no answer of the store is lost (`Budgets["reply"] = 0`):

* `NoRowLost: Spec => []NothingLost` — a row at or behind the saved cursor, or
  behind what the source may forget, is applied or parked;
* `TimelineTellsTruth: Spec => []TimelineTruthful` — such a row has a cell below the
  saved sequence, green only if it landed, red only if it is parked under that
  sequence;
* `SettledNeverRewritten: Spec => SettledStays` — a cell or dead letter below the
  saved sequence number is never touched again.

The assumption is needed: finding 3 is the counterexample without it.

The invariant is `Inv`: `TypeInv /\ NoLossInv /\ budget["reply"] = 0`. `NothingLost`
says nothing about what is in memory, so a checkpoint could break it. `NoLossInv`
follows a row along the pipeline: every position behind the cursor, slot and
watermark is *settled* (told truthfully in a cell below the saved sequence number,
where neither `record()` nor `park(replaceFrom)` can undo it: `SavedSettled`); a
delivery reaches only over settled rows and its own (`FlightCovers`), and each step
of its settlement rests on the one before (`FlightSteps`, `FlightWork`); the batch
being built reaches only over settled, in-flight and batched rows (`BatchCovers`);
every queued event stands behind rows that are in one of these or queued before it
(`QueueCovers`). There is one lemma per action. The delicate ones are `FlushTake`
(batched rows become in-flight rows, which needs the previous delivery settled or
the stream halted), `Park` (which deletes dead letters, all of them at or above
the saved sequence), `RecordFailed` (which must not take the cell the delivered half
of a split batch was told in) and `Persist`.

It proves `DestinationStaysFresh: Spec => []DestinationFresh` if the source
connection does not drop either (`Budgets["connection"] = 0`, as in
`pipeline_continue`; finding 1 is the counterexample without it). That a row landed
is not enough here, an older one must not land after it, so the invariant
(`OrderInv`, `Inv` with `FreshInv`) is about order: what is done, in flight, batched
and queued follow one another in the log without overlap (`FlightAhead`,
`BatchAhead`, `QueueOrder`, `QueueAhead`) and without leaving a row out
(`QueueRows`); behind the saved cursor, which is the stream's watermark, every row
is in the destination or under something later, or parked below the saved sequence
(`SavedFresh`), and so is each part of a delivery as soon as its step says so
(`FlightFresh`). Whatever lands lies ahead of the cursor (`LandAhead`) and so
never takes the place of something newer the cursor vouches for. `FreshInv` was first checked with TLC
on the bounds of `pipeline_continue` with a window of two (1,833,958 states).

`IsolationProofs` proves, for batches of any size, any targets, refusals, momentary
failures and limits, `RowsPartitioned: Spec => []EachRowOnce`,
`TargetsRemembered: Spec => []HeldExactly` and
`InnocentRowsSpared: Spec => []InnocentSpared`. The invariant `IsoInv` adds to the
types that the segments in the queue are pairwise apart (`Apart`), that they, the delivered and the set-aside rows make up the batch (`Placed`), and that
every row of a segment is held by exactly the targets the segment skips
(`Remembered`). The work is in what splitting the first segment does to a sequence of
intervals. `InnocentSpared` counts, and has an invariant of its own (`SparedInv`:
innocents set aside are no more than momentary failures used up).

`LoneRowFound: Spec => []OneBadRowFound` says that the search for a single row at
fault succeeds within the attempts there are, for batches of any size. It assumes
`Roomy` (the limits leave two attempts for every halving of the largest batch, at
least one row may be set aside, and a first failure is not yet a broken destination:
the code's limits of 128 rows and 14 attempts do, and so do those of the run) and
`Powers`, the defining equations of `2^k`, which the prover does not expand. While no
momentary failure disturbs it the search is in one of five situations (`Standing`):
nothing is left, only the other half is, both halves of a segment are untried, one has
succeeded, or the one at fault has failed and is split while the other still waits.
In each of them `Fits` says that the attempts left are enough for the halvings left;
as it names no depth, no induction is needed.

`SharedSlotProofs` proves type correctness, `HandedInOrder: Spec => []InOrderOnce` and
`NoGap: Spec => []NothingMissed`, for any bridges, tables, transactions and
disturbances. `BaseInv` has five parts which need each other: the
types, what the operation in the stream's queue may rely on between two awaits
(`QueueInv`), what is stored (`StoreInv`), the reader and its generation
(`ReaderInv`), what is in flight (`FlightInv`). `SharedInv` adds what the publication
holds while bridges join and leave (`PubInv`), that what it did not show was
committed before the copy (`HiddenInv`), and that each change that was shown and is
not had is *owed* (`SeenInv`): it lies after the slot, after the place the bridge
holds the slot at and after its saved cursor, and is in flight or ahead of the reader.

`ReplayJobProofs` proves, for every source, batch size, set of targets and workers and
every budget of faults, type correctness and, if nobody edits the batch size
(`Budgets["edit"] = 0`, as in `replay`; finding 2 is the counterexample without it),
three properties. `CompletedRunHasAll: Spec => []CompletedMeansAll` and
`NothingBehindCursor: Spec => []BehindCursor` follow from `DoneInv`: a delivery has
exactly the rows its number stands for (`CellInv`), every row before the saved cursor,
and before the place a worker reads at, has one, and every row once the source has been
read to its end (`JobInv`, `Sound`). `NothingSentTwice: Spec => []NotWrittenAgain`
speaks of rows: whoever is alone with the job and about to write, be it the worker
that reads the source, a resend of captured deliveries or the retry of a single one,
writes no row to a target that any delivery of the timeline shows to have it. It
takes both invariants: by `AgainInv` whoever has not shared the job is alone with it
(`Alone`, `SingleAlone`) and knows of the delivery he is about to make what the timeline
says (`Fresh`), and by `DoneInv` a row is in no other delivery.

`LeadershipProofs` proves, for every set of processes, lease length, answer time
below it and number of faults:

* `LeaderFences: Spec => []FencesInTime` — no leader goes longer without a word
  from Redis than a lease (or the listeners' time) plus a beat and an answer;
* `RivalsAreOld: Spec => []NoYoungRivals` — of two leaders one has been cut off
  for as long as a lease lasts, less one answer;
* `LeaseImplemented: Spec => LeaseKept` — the refinement: the initial states map to
  `LeaseInit` and every step to a step of `Lease` or a stutter, so what `Lifecycle`
  assumes of the lease is what the heartbeat provides.

They rest on `LeadershipInvariant: Spec => []LeadInv`. Neither property is
inductive: `LeadInv` adds what the key says (`HolderInv`: it lives exactly as long
as it has an owner, and has at most one), what a beat under way implies
(`RoleInv`), how old a leader can be at each point of its beat (`AgeInv`), and the
link between the two clocks (`LeftInv`: a leader that owns the key has at least as
much left of it as its age says, up to one answer; one that does not is that old
already). One lemma per action; a process a step does not touch is `OthersKeep`.

`CdcSpoolProofs` proves, for every log, size of batch and spool and every number of
failures, type correctness, `SpoolForgetsNothing: Spec => []NothingSkipped` and
`SpoolLastWordFresh: Spec => []LastWordFresh`. For the first, each place up to which
somebody has promised something (slot, cursor, watermark, the batch being appended,
the one that waits, the place of the reader) has only rows behind it that are
delivered, set aside, in the spool, or in the reader's hands (`SkipInv`); what is at rest
without a stream (`RestInv`) and what the run in delivery stands for (`RunInv`) are
needed for trimming and for a new start. For the second, those places follow one
another (`OrderInv`), and each change behind one of them is *held*: set aside, or its
key already has it or something newer with nothing older on its way, or it is in the
spool with nothing older behind it (`FreshInv`). The last case is what makes repeated and
partial appends harmless: what is appended again ends with the newest again.

`SnapshotCopyProofs` proves, for every table, page size and history and every number
of crashes and failed reads, type correctness, `ResumeIsSafe: Spec =>
[]ResumePointSafe` and `CaughtUpIsCopied: Spec => []CopyConverges`. With a log
the pipeline is a chain of cursors (`Chain`): each item says what lies between the
cursor before it and its own, so that writing the first one moves what is right behind
the checkpoint (`SavedInv`) by one link; `QueueInv` orders the links, `CopyInv` and
`FollowInv` say where copy and stream add to them, and `PhantomInv` accounts for rows
the source has lost. Without a log nothing can be read again, and the invariant
(`ListenInv`) follows a key: what it has become is held back, last in the queue, in
the destination, yet to be copied or yet to be heard of (`Due`). That half speaks of
a bridge that has not crashed, as the property does.

`WatchPollProofs` proves, for any rows, strategies, page sizes and disturbances, type
correctness, `OverlapNotSentAgain: Spec => []EmittedOnce`, `ShownNumbersStay: Spec =>
NumbersNotReused` and, if `InTime`, `WatchSkipsNothing: Spec => []SkipsNothing`.
`InTime` asks of the source what the code takes for granted: numbers become visible in
the order they were handed out (`Late["increment"] = 0`; finding 14 is the
counterexample without it) and no transaction takes longer than the lookback. The
property itself exempts a poll under which a row left its place (finding 15). What
went out is known to the saved cursor or to the one behind the page in hand
(`SentInv`); nothing that is still open can commit behind a cursor (`TimeInv`); an
offset into a window stands for that many rows the cursor knows (`DugInv`, a matter
of cardinalities); what the cursor has passed is settled (`FirmInv`). All of it was
first checked with TLC on the bounds of `watch` (1,064,812 states).

Only model-checked:

* all liveness (`CatchesUp`, `HaltEnds`, `RunEnds`, `TakesOver` and the rest: the
  prover has no support for fairness);
* the safety of `Repairs` (`RepairsConverge`, `GreenIsDelivered`, `VerdictTruthful`)
  and of `EchoGuard` (`NoWayBack`, `Converged`). `Repairs` puts its pages in order with
  `SetToSortSeq`, of which the prover can say nothing without an induction over the
  sequence. For `EchoGuard` no inductive invariant has been found: what is announced,
  what is remembered and what each log still holds bear on one another around a whole
  ring of tables;
* `Lifecycle`, whose properties are about what happens in the end.

## Findings

They were found with the modules here. Where a property is named, TLC refutes it under
the constants named in place of those of the component's configuration, and the trace
is the argument; the others are behaviours of the model that no property states. The runs leave them out by their budgets or by a ghost that marks the
rows concerned, so that what they show is what holds otherwise.

1. `CdcPipeline`, `DestinationFresh`, `LogsTwice`, `BudgetStale`, `LongLinger = FALSE`,
   `SettleAttempts = 1`: the watermark knows only what was checkpointed, so after a
   reconnect positions that are still being delivered are accepted again, and an
   older value of a row is written after a newer one with the cursor past both.
   The README's feature list (`src/README.md:133`) promises that a change is
   applied "once and only once". The checkpoint behind it moves the cursor back;
   the newer change is then delivered again, unless it was looked at while the
   watermark still covered it: then it is dropped, and the stale value stays.
   For the same reason `CatchesUp` asks for delivered rows and not for the cursor:
   a replayed truncate or notice can leave it set back until the next event.
2. `ReplayJob`, `CompletedMeansAll`, `Sizes = {1, 2}`, one target and worker, `Abort = TRUE`,
   `BudgetResize`: `sequence = floor(rowIndex / batchSize)` names other rows once
   the batch size has been edited, and a run that is started again keeps the
   settled numbers of its earlier attempts (a draft keeps the batches that were
   skipped in it). Batches are taken for delivered that
   never were, and the run is marked completed. `NotWrittenAgain` is refuted too: with
   rows 0 and 1 delivered as number 0 and row 2 failed as number 1, a batch size edited
   from 2 to 1 and a retry of what failed, row 1 is sent again under number 1
   (`bridge-job.processor.ts:296`).
3. `CdcPipeline`, `NothingLost`, a budget of one lost answer, two failed deliveries
   and a crash: a checkpoint whose answer is lost is settled again under the old
   sequence number (`bridge-cdc.service.ts:1600`); rows parked in that second
   round stand above the saved number, and after a crash `park(replaceFrom)`
   deletes them as leftovers. `dead-letter.service.ts:119` says "the saved sequence
   is always past everything already settled".
4. `CdcSpool`, `NothingLost`, `BudgetCrash`: the spool is trimmed (line 2002)
   before the sequence number is saved; a crash between the two lets a later `park`
   delete rows that are nowhere else.
5. `CdcSpool`, `HaltEnds`, `FairSpec`, `BudgetFull`: `spoolBatch` waits for room
   (line 1831) as long as the stream is registered; once the consumer has halted
   nothing drains the spool, `teardown` waits for the flush that waits for room,
   and the bridge is never torn down.
6. `Lifecycle`, `StoppedIsQuiet`, `BudgetStop`: a stop that comes while a start is
   between its check and `streams.set` finds nothing to tear down, the start then
   opens its stream, and the stop marks the job paused: the bridge is read although
   it is stopped. The check behind `startStream` (lines 949-959) only covers a stop
   that found the entry.
7. `Lifecycle`: a start and a resume in one process can both pass `streams.has`
   (line 876) before either registers (line 913), with awaits between. The second
   entry replaces the first, whose stream stays open and goes on feeding the
   handlers. The comment at line 875 gives the reason for the check: "two live
   streams for one bridge would double-deliver every change". No property states
   that there is one live stream per process, as the code does not provide it.
8. `SharedSlot`: a join cut off by a crash between its row (line 608) and the
   barrier leaves a row at a provisional place and a table published in the middle
   of a transaction. Started again, the bridge is taken for a member, and the part
   of that transaction before the publication is missed. The ghost `cut` marks such
   tables, and `NothingMissed` leaves them out. There is a second way to it: when a join
   fails and the `unpublish` that undoes it fails as well, the error is swallowed (lines
   629-631), and the next join finds the table published and skips the barrier.
9. `Repairs`: a retry of a dead letter reads the row and writes it in two steps; a
   change the stream delivers between the two is overwritten by the older row until
   the row changes again. `dead-letter.service.ts:26` promises otherwise. The same
   holds for extras a verification removes, which are not looked at a second time.
   The ghost `raced` marks these rows; `RepairsConverge` leaves them out, and
   `VerdictTruthful` does so for removals only: a repair *is* looked at again.
10. `EchoGuard`, `Converged`, topology `TwoWay`, `Polls = {"ba"}`, four edits, no
    disturbance: `recognise` takes the *oldest* entry that matches, and those before
    it (`echo-guard.service.ts:600`). A poll sees the last of several writes; when an
    earlier one had the same value, that one is matched, and a value the poll never
    saw stays remembered behind it. A later edit by a person that puts this value
    back is taken for an echo and held back; the tables differ for good. A failed
    lookup, a retraction that fails (line 557), or a crash between announcing and
    writing leaves such a memory too,
    until it expires (`SYNCLE_ECHO_TTL_SECONDS`).
11. `EchoGuard`, `NoWayBack`, topologies `Shared` and `Fan`, two edits: a match is taken out of the memory of the *table* (line 604), so of
    two bridges that read it only the first knows the echo; and `route` decides for
    all targets of a bridge at once, so an echo that has to go to one of them goes
    back to the other. Line 19 promises that "A <-> B stops after one hop, A -> B -> C
    keeps working"; with both at once the change goes back to A, once.
12. `WatchPoll`, `CatchesUp`, three keys, `ScanPages = 2`, `MaxPerPoll = 1`: the offset starts at 0 with every poll, so a window of known rows
    longer than `SCAN_PAGES_PER_POLL` pages (25,000 rows within the lookback at the
    default `maxPerPoll`) is never passed, though the log says "will continue next
    poll". A snapshot of a table of more than 50 pages stands still the same way.
13. `WatchPoll`, `ExistingIgnored`, the constants of `watch`: `initialCursor` notes only the rows at the highest timestamp; the
    first poll looks `lookbackMs` behind it (3 s by default) and sends rows that were
    there, which "`startFrom: now` ignores".
14. `WatchPoll`, `NothingSkipped`, `Late` 1 for every strategy: under `increment` a number that commits after a higher one is behind
    the cursor when it appears. "Exact: never misses or duplicates a row" holds only if
    numbers commit in order.
15. `WatchPoll`, `NothingSkipped`, the constants of `watch`: paging by offset through known rows while one of them is updated or
    deleted moves the rest up; a row falls between two pages and the cursor passes it.

Smaller things met on the way, visible in the models but not stated as properties:
canceling a queued replay leaves it `canceling` until a worker takes it up;
`markRunning` may overwrite a `canceling` that came between; resuming a job whose
old queue entry is still there adds nothing; a graceful shutdown finalizes running
replays as canceled, although `src/README.md:176` says jobs survive restarts;
canceling a verification at the moment it is picked up is overwritten by `running`,
`retireStale` may retire one that is only slow, and a cancel that was on its way when
the verification ended overwrites its verdict with `canceling`
(`bridge-verify.service.ts:239`), until `retireStale` calls it cut off. A delivery whose
cursor is not saved is cut anew after a crash, and until it is on record again a retry
may turn the earlier record of it green (`GreenIsDelivered` speaks of saved numbers). A crash of a MySQL or MongoDB
copy before its first checkpoint starts the copy anew, and rows deleted at the
source in between stay at the destination (`extra`). A Redis read that fails in
`drain` loses the batch it had taken out of the queue. A `join` that gives up as
the first member leaves a slot behind that holds the source's log, and `run()` takes
its generation before it waits for the previous reader, so that a reader that is
already stale may only be ended by the server's timeout. In `WatchPoll`: the keys a
timestamp cursor remembers are carried as long as each move is within the lookback,
so under steady traffic they are not shed when "the cursor moves a full window past
them"; a crash between `recordDelivery` and saving the number gives that number to
another row (the ghost `loose`), which the comment at `bridge-watch.service.ts:407`
rules out; a retried row returns to its cell only if it was the first of its page. In
`bridge-watch.service.ts`: `adapt` acts only in the process that started the bridge, so after a
reboot, or in another process, polling stays at the idle interval; and a poll that
finds nothing listening removes the scheduler in a second step (line 219), so that a
start between the two loses the scheduler it has just made and is not polled until
some process boots.

## What is not modelled

`PROJECT.json` gives the status and reason of every component.

The map covers a small share of the repository's lines. Most of them are outside
the reach of these tools: the web interface and the website (more than half of the
source), the database adapters (query building around drivers), value, type and
column mapping, decoding of `pgoutput`, binlog and oplog, and the HTTP layer. What
is left and could be modelled is listed in the plan.

In the modelled components: `rerouteStream` (a new tunnel), the retried release of
a slot, holding a source, the byte cap of a batch (any batch up to `MaxBatch` may
be cut by the linger timer anyway), HTTP idempotency keys, pacing, alerts and
logging. `CdcPipeline` has one stream at a time; how several come about is
`Lifecycle`'s matter. It leaves out a source whose place is gone: the `{cursor, lost}`
that `handlePositionLost` saves, and a start that then refuses, or goes on from now or
with another copy (`bridge-cdc.service.ts:448-483`). In `CdcSpool` a write that fails has no effect, malformed
entries do not occur and Redis does not lose what it has acknowledged, as the
code's own note on persistence demands. `ReplayJob` has one job, though two racing
starts can create two; its rows do not change while it runs. `SharedSlot` leaves out
a bridge that joins again with another table or other operations
(`postgres-shared-slot.ts:585-591`: it publishes the new table without a barrier), a
`refreshIdle` that fails between the row of a join and its `try` (line 614),
a leave whose drop of the slot fails while its drop of the publications succeeds
(a later join then has publications younger than the slot, which the file's header
warns of), and `pg_create_logical_replication_slot`, which waits without a
deadline, is only assumed to return. `Repairs` has one page, one target and rows
compared for equality; a delivery that is refused in part is one cell of the timeline
there (`CdcPipeline` has both). `EchoGuard` leaves out rows without a key, targets in insert
mode, soft deletes, the cached topology, and more writes of a row than are
remembered; reading the row before announcing it is one step with the announcement.
`WatchPoll` leaves out rows without a value in the watched column, a strategy edited
between two starts, Redis' own cursor, the eviction of a snapshot's oldest keys, and
the echo guard; `adapt`, `reconcile` and the lock that keeps polls apart are taken to
do what they are for.
