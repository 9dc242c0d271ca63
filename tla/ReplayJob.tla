----------------------------- MODULE ReplayJob -----------------------------
(***************************************************************************)
(* One run of a replay bridge: the job row and its timeline of deliveries  *)
(* (bridge-job.service.ts), the queue entry that bears its id (BullMQ,     *)
(* external), the workers that execute it (bridge-job.processor.ts), and   *)
(* what users ask of it: start, resume, retry, resend, skip, cancel.       *)
(*                                                                         *)
(* The source is read in an order that does not change, so a row is its    *)
(* position.  A delivery is one batch of consecutive rows, written to      *)
(* every target; a target may fail while another succeeds.  The job row,   *)
(* the timeline and the queue outlive a process; a worker's state does not.*)
(***************************************************************************)
EXTENDS Naturals, FiniteSets

CONSTANTS
  Rows,      \* how many rows the source has
  Sizes,     \* batch sizes the bridge can be given
  Targets,   \* the destination's tables
  Workers,   \* worker slots, in whichever process
  Abort,     \* delivery.onError = "abort"
  Budgets    \* how often each thing may be asked for or go wrong

Kinds == {"edit", "start", "ask", "fail", "fault", "boot"}

ASSUME ReplayAssumption ==
  /\ Rows \in Nat \ {0}
  /\ Sizes \subseteq Nat \ {0} /\ Sizes # {}
  /\ Abort \in BOOLEAN /\ Budgets \in [Kinds -> Nat]
  /\ {"single", "nobody"} \intersect Workers = {}

VARIABLES
  config,     \* the bridge's batch size as it is now
  job,        \* the job row: status, cursor, streamed, size (config snapshot)
  cells,      \* the timeline: one delivery per sequence
  landed,     \* the rows each target has received
  entry,      \* the queue entry: state, mode, and the worker that holds it
  worker,     \* what each worker is doing
  single,     \* a retry of one delivery, in an API process
  cancel,     \* a cancel, and how far it has come
  together,   \* actors that have not been alone with the job since they began
  budget

vars == <<config, job, cells, landed, entry, worker, single, cancel, together, budget>>

Positions == 0 .. Rows - 1
Seqs == Positions
Active == {"queued", "running", "canceling"}
Resumable == {"failed", "canceled"}
Terminal == Resumable \union {"completed"}

NoCell == [st |-> "none", rows |-> {}, ok |-> {}]
NoEntry == [st |-> "none", mode |-> "job", by |-> "nobody"]
Off == [pc |-> "idle", mode |-> "job", pos |-> 0, size |-> 1, seen |-> [s \in Seqs |-> NoCell],
        todo |-> {}, heard |-> FALSE, out |-> {}]
NoSingle == [pc |-> "idle", seq |-> 0, was |-> "failed", ok |-> {}, out |-> {}]

Cell == [st : {"none", "success", "failed", "skipped"}, rows : SUBSET Positions, ok : SUBSET Targets]

TypeOK ==
  /\ config \in Sizes
  /\ job \in [status : Active \union Terminal \union {"draft"}, cursor : 0 .. Rows,
              streamed : BOOLEAN, size : Sizes]
  /\ cells \in [Seqs -> Cell]
  /\ landed \in [Targets -> SUBSET Positions]
  /\ entry \in [st : {"none", "waiting", "active", "failed"}, mode : {"job", "resend"},
                by : Workers \union {"nobody"}]
  /\ \A w \in Workers :
       /\ worker[w].pc \in {"idle", "load", "mark", "read", "look", "send", "record", "cursor", "stop",
                            "streamed", "finish", "resend", "resendRecord"}
       /\ worker[w].pos \in 0 .. Rows /\ worker[w].todo \subseteq Seqs
  /\ single.pc \in {"idle", "send", "record", "after"} /\ single.seq \in Seqs
  /\ cancel \in {"none", "mark", "tell", "remove"} /\ together \subseteq Workers \union {"single"}
  /\ budget \in [Kinds -> Nat]

Init ==
  /\ config \in Sizes
  /\ job = [status |-> "draft", cursor |-> 0, streamed |-> FALSE, size |-> config]
  /\ cells = [s \in Seqs |-> NoCell]
  /\ landed = [t \in Targets |-> {}]
  /\ entry = NoEntry
  /\ worker = [w \in Workers |-> Off]
  /\ single = NoSingle /\ cancel = "none" /\ together = {}
  /\ budget = Budgets

Spend(k) == budget[k] > 0 /\ budget' = [budget EXCEPT ![k] = @ - 1]

-----------------------------------------------------------------------------
(* batches, cells and the queue *)

SeqOf(pos, size) == pos \div size
BatchFrom(pos, size) == {r \in Positions : pos <= r /\ r < pos + size}
Settled(c) == c.st \in {"success", "skipped"}
FailedSeqs == {s \in Seqs : cells[s].st = "failed"}

(* recordDelivery: an existing cell keeps its extent; a failed one the
   targets that have committed, for the next attempt to skip *)
Recorded(c, rows, ok) ==
  [st   |-> IF ok = Targets THEN "success" ELSE "failed",
   rows |-> IF c.st = "none" THEN rows ELSE c.rows,
   ok   |-> IF ok = Targets THEN {} ELSE ok]

(* what DatabaseSink.deliver can come to: the targets that have the rows
   now, the ones a previous attempt had committed among them *)
Outcomes(ok) == {o \in SUBSET Targets : ok \subseteq o}
Writes(rows, from, to) ==
  landed' = [t \in Targets |-> IF t \in to \ from THEN landed[t] \union rows ELSE landed[t]]
FailsAtMost(out) ==
  IF out = Targets THEN UNCHANGED budget ELSE Spend("fail")

(* Queue.add under an id that is already there does nothing, whatever became
   of the entry *)
Added(e, mode) == IF e.st = "none" THEN [NoEntry EXCEPT !.st = "waiting", !.mode = mode] ELSE e
(* clearSettledJob *)
Cleared(e) == IF e.st = "failed" THEN NoEntry ELSE e

Busy == {w \in Workers : worker[w].pc \notin {"idle", "load"}}
           \union (IF single.pc = "idle" THEN {} ELSE {"single"})
Joins(a) == together' = IF Busy \subseteq {a} THEN together ELSE together \union Busy \union {a}
Leaves(a) == together' = together \ {a}

-----------------------------------------------------------------------------
(* a worker takes the entry up: process *)

(* worker slots at rest do not differ: the first of them takes it *)
AnIdleOne == CHOOSE w \in Workers : worker[w].pc = "idle"
Pick(w) ==
  /\ entry.st = "waiting" /\ worker[w].pc = "idle" /\ w = AnIdleOne
  /\ entry' = [entry EXCEPT !.st = "active", !.by = w]
  /\ worker' = [worker EXCEPT ![w].pc = "load"]
  /\ UNCHANGED <<config, job, cells, landed, single, cancel, together, budget>>

Goes(w, pc) == worker' = [worker EXCEPT ![w].pc = pc]
Ends(w) == worker' = [worker EXCEPT ![w] = [Off EXCEPT !.pc = "finish"]]
Becomes(status) == job' = [job EXCEPT !.status = status]

(* the job row is read: settled, canceled before it began, or to be executed *)
LoadSettled(w) ==
  /\ worker[w].pc = "load" /\ job.status \in Terminal \union {"canceling"}
  /\ Becomes(IF job.status = "canceling" THEN "canceled" ELSE job.status)
  /\ Ends(w)
  /\ UNCHANGED <<config, cells, landed, entry, single, cancel, together, budget>>

Load(w) ==
  /\ worker[w].pc = "load" /\ job.status \notin Terminal \union {"canceling"}
  /\ worker' = [worker EXCEPT ![w] = [Off EXCEPT !.pc = "mark", !.mode = entry.mode,
                                                 !.pos = job.cursor, !.size = job.size]]
  /\ Joins(w)
  /\ UNCHANGED <<config, job, cells, landed, entry, single, cancel, budget>>

(* execute and executeResend begin: the job is marked running *)
Mark(w) ==
  /\ worker[w].pc = "mark"
  /\ Becomes("running") /\ Goes(w, "read")
  /\ UNCHANGED <<config, cells, landed, entry, single, cancel, together, budget>>

(* Slip: what an earlier attempt delivered is not looked up *)
ReadForgets(w) ==
  /\ worker[w].pc = "read"
  /\ worker' = [worker EXCEPT ![w].pc = IF worker[w].mode = "job" THEN "look" ELSE "resend"]
  /\ UNCHANGED <<config, job, cells, landed, entry, single, cancel, together, budget>>

(* ...and the deliveries it has are read *)
ReadTimeline(w) ==
  /\ worker[w].pc = "read"
  /\ worker' = [worker EXCEPT ![w].pc = IF worker[w].mode = "job" THEN "look" ELSE "resend",
                              ![w].seen = cells,
                              ![w].todo = IF worker[w].mode = "job" THEN {} ELSE FailedSeqs]
  /\ UNCHANGED <<config, job, cells, landed, entry, single, cancel, together, budget>>

(* the table has drifted from the bridge: nothing is read *)
Drifted(w) ==
  /\ worker[w].pc = "read" /\ worker[w].mode = "job"
  /\ Spend("fault")
  /\ Becomes("failed") /\ Ends(w)
  /\ UNCHANGED <<config, cells, landed, entry, single, cancel, together>>

(* process throws, before its try or because the catch cannot reach the store
   either: the queue entry has failed, and the job row says what it said before *)
Throws(w) ==
  /\ worker[w].pc \notin {"idle", "finish"}
  /\ Spend("fault")
  /\ worker' = [worker EXCEPT ![w] = Off] /\ Leaves(w)
  /\ entry' = IF entry.by = w THEN [entry EXCEPT !.st = "failed", !.by = "nobody"] ELSE entry
  /\ UNCHANGED <<config, job, cells, landed, single, cancel>>

(* process returns: the entry goes, if it is still this worker's *)
Finish(w) ==
  /\ worker[w].pc = "finish"
  /\ worker' = [worker EXCEPT ![w] = Off] /\ Leaves(w)
  /\ entry' = IF entry.by = w THEN NoEntry ELSE entry
  /\ UNCHANGED <<config, job, cells, landed, single, cancel, budget>>

-----------------------------------------------------------------------------
(* execute: batch after batch *)

Seq(w) == SeqOf(worker[w].pos, worker[w].size)
Batch(w) == BatchFrom(worker[w].pos, worker[w].size)
Prior(w) == LET c == worker[w].seen[Seq(w)] IN IF c.st = "failed" THEN c.ok ELSE {}
CancelAsked == job.status \in {"canceling", "canceled"}

(* stopRequested: told by the registry, or by the job row, if it was time to
   look at it again *)
Stopped(w) ==
  /\ worker[w].pc \in {"look", "resend"}
  /\ worker[w].heard \/ CancelAsked
  /\ Becomes("canceled") /\ Ends(w)
  /\ UNCHANGED <<config, cells, landed, entry, single, cancel, together, budget>>

(* ...or not: what has been skipped since is known, or is not looked at yet *)
NowSeen(w) ==
  {worker[w].seen,
   [s \in Seqs |-> IF cells[s].st = "skipped" THEN cells[s] ELSE worker[w].seen[s]]}
Looks(w) ==
  /\ worker[w].pc = "look" /\ ~worker[w].heard
  /\ \E seen \in NowSeen(w) :
        worker' = [worker EXCEPT
          ![w].seen = seen, ![w].out = Targets,
          ![w].pc = IF worker[w].pos >= Rows THEN "streamed"
                    ELSE IF Settled(seen[Seq(w)]) THEN "cursor" ELSE "send"]

(* Slip: the cursor is saved before the batch is delivered *)
LookAhead(w) ==
  /\ Looks(w)
  /\ LET next == worker[w].pos + worker[w].size IN
     job' = [job EXCEPT !.streamed = @ \/ worker[w].pos >= Rows,
                        !.cursor = IF next <= Rows THEN next ELSE @]
  /\ UNCHANGED <<config, cells, landed, entry, single, cancel, together, budget>>

(* the next batch: delivered before, to be delivered, or there is none and
   the source has been read to its end (markStreamed) *)
Look(w) ==
  /\ Looks(w)
  /\ job' = [job EXCEPT !.streamed = @ \/ worker[w].pos >= Rows]
  /\ UNCHANGED <<config, cells, landed, entry, single, cancel, together, budget>>

(* flush: the batch is delivered... *)
Send(w) ==
  /\ worker[w].pc = "send"
  /\ \E out \in Outcomes(Prior(w)) :
        /\ FailsAtMost(out)
        /\ Writes(Batch(w), Prior(w), out)
        /\ worker' = [worker EXCEPT ![w].out = out, ![w].pc = "record"]
  /\ UNCHANGED <<config, job, cells, entry, single, cancel, together>>

(* ...and recorded *)
Record(w) ==
  /\ worker[w].pc = "record"
  /\ cells' = [cells EXCEPT ![Seq(w)] = Recorded(@, Batch(w), worker[w].out)]
  /\ Goes(w, "cursor")
  /\ UNCHANGED <<config, job, landed, entry, single, cancel, together, budget>>

(* Slip: the next batch is read from where this one began *)
CursorStays(w) ==
  /\ worker[w].pc = "cursor"
  /\ Goes(w, "look")
  /\ UNCHANGED <<config, job, cells, landed, entry, single, cancel, together, budget>>

(* a full batch moves the saved cursor (a keyset checkpoint takes the place
   of the note that the source was read to its end); the last, short one does not *)
Cursor(w) ==
  /\ worker[w].pc = "cursor"
  /\ LET next == worker[w].pos + worker[w].size
         full == next <= Rows
         stop == Abort /\ worker[w].out # Targets IN
     /\ worker' = [worker EXCEPT ![w].pos = IF full THEN next ELSE Rows, ![w].out = {},
                                 ![w].pc = IF stop THEN "stop" ELSE "look"]
     /\ \E streamed \in {FALSE, job.streamed} :
           job' = IF full THEN [job EXCEPT !.cursor = next, !.streamed = streamed] ELSE job
  /\ UNCHANGED <<config, cells, landed, entry, single, cancel, together, budget>>

(* finalize: at a failed delivery, or at the end of the source *)
Finalize(w) ==
  /\ worker[w].pc \in {"stop", "streamed"}
  /\ Becomes(IF worker[w].pc = "stop" THEN "failed" ELSE "completed")
  /\ Ends(w)
  /\ UNCHANGED <<config, cells, landed, entry, single, cancel, together, budget>>

(* an error inside the loop, and the end of a delivery that was aborted *)
Fails(w) ==
  /\ worker[w].pc \notin {"idle", "load", "mark", "read", "finish"}
  /\ IF worker[w].pc = "send" /\ worker[w].heard THEN UNCHANGED budget ELSE Spend("fault")
  /\ Becomes(IF worker[w].heard \/ CancelAsked THEN "canceled" ELSE "failed")
  /\ Ends(w)
  /\ UNCHANGED <<config, cells, landed, entry, single, cancel, together>>

-----------------------------------------------------------------------------
(* executeResend: the failed deliveries, from what was captured of them *)

(* somebody has given the job another status: it is left to them *)
Detached(w) ==
  /\ worker[w].pc = "resend" /\ job.status # "running" /\ ~CancelAsked /\ ~worker[w].heard
  /\ Ends(w)
  /\ UNCHANGED <<config, job, cells, landed, entry, single, cancel, together, budget>>

Next1(S) == CHOOSE s \in S : \A t \in S : s <= t
(* the next delivery to be sent again, as it was read when the worker began *)
Captured(w) == worker[w].seen[Next1(worker[w].todo)]

Resend(w) ==
  /\ worker[w].pc = "resend" /\ worker[w].todo # {} /\ ~worker[w].heard
  /\ \E out \in Outcomes(Captured(w).ok) :
        /\ FailsAtMost(out)
        /\ Writes(Captured(w).rows, Captured(w).ok, out)
        /\ worker' = [worker EXCEPT ![w].out = out, ![w].pc = "resendRecord"]
  /\ UNCHANGED <<config, job, cells, entry, single, cancel, together>>

ResendRecord(w) ==
  /\ worker[w].pc = "resendRecord"
  /\ LET s == Next1(worker[w].todo) IN
     /\ cells' = [cells EXCEPT ![s] = Recorded(@, @.rows, worker[w].out)]
     /\ worker' = [worker EXCEPT ![w].todo = @ \ {s}, ![w].out = {}, ![w].pc = "resend"]
  /\ UNCHANGED <<config, job, landed, entry, single, cancel, together, budget>>

(* Slip: no failure is left, so the run is over, wherever it had stopped *)
ResendDoneEarly(w) ==
  /\ worker[w].pc = "resend" /\ worker[w].todo = {} /\ ~worker[w].heard
  /\ job.status = "running"
  /\ job' = [job EXCEPT !.status = IF FailedSeqs = {} THEN "completed" ELSE "failed"]
  /\ Ends(w)
  /\ UNCHANGED <<config, cells, landed, entry, single, cancel, together, budget>>

(* all done: a run that had stopped early reads on, with the bridge as it is now *)
ResendDone(w) ==
  /\ worker[w].pc = "resend" /\ worker[w].todo = {} /\ ~worker[w].heard
  /\ job.status = "running"
  /\ IF FailedSeqs = {} /\ ~job.streamed
     THEN /\ job' = [job EXCEPT !.size = config]
          /\ worker' = [worker EXCEPT ![w].pc = "mark", ![w].mode = "job",
                                      ![w].pos = job.cursor, ![w].size = config]
     ELSE /\ Becomes(IF FailedSeqs = {} THEN "completed" ELSE "failed")
          /\ Ends(w)
  /\ UNCHANGED <<config, cells, landed, entry, single, cancel, together, budget>>

-----------------------------------------------------------------------------
(* what users ask for *)

(* the bridge is saved; a draft that was never started follows it.  Bound: the
   edits after something is in the timeline, or the run has begun, are counted *)
Edit(size) ==
  /\ size # config
  /\ config' = size
  /\ job' = IF job.status = "draft" THEN [job EXCEPT !.size = size] ELSE job
  /\ IF job.status = "draft" /\ \A s \in Seqs : cells[s] = NoCell
       THEN UNCHANGED budget ELSE Spend("edit")
  /\ UNCHANGED <<cells, landed, entry, worker, single, cancel, together>>

(* start: of the draft, or of a run that stopped, with the bridge as it is now *)
Start ==
  /\ job.status \in Resumable \union {"draft"} /\ Spend("start")
  /\ job' = [job EXCEPT !.status = "queued", !.size = IF job.status = "draft" THEN @ ELSE config]
  /\ entry' = Added(entry, "job")
  /\ UNCHANGED <<config, cells, landed, worker, single, cancel, together>>

(* retryFailed: the source is read again from its start for the failed rows *)
RetryFailed ==
  /\ job.status \in Terminal /\ FailedSeqs # {} /\ Spend("ask")
  /\ job' = [status |-> "queued", cursor |-> 0, streamed |-> FALSE, size |-> config]
  /\ entry' = Added(entry, "job")
  /\ UNCHANGED <<config, cells, landed, worker, single, cancel, together>>

(* resendFailed: the failed deliveries as they were captured *)
ResendFailed ==
  /\ job.status \notin Active /\ FailedSeqs # {} /\ Spend("ask")
  /\ Becomes("queued")
  /\ entry' = Added(Cleared(entry), "resend")
  /\ UNCHANGED <<config, cells, landed, worker, single, cancel, together>>

(* skipDeliveries: a delivery that is not there yet is not to be made *)
Skip(s) ==
  /\ cells[s].st = "none" /\ s * job.size < Rows /\ Spend("ask")
  /\ cells' = [cells EXCEPT ![s] = [NoCell EXCEPT !.st = "skipped",
                                     !.rows = BatchFrom(s * job.size, job.size)]]
  /\ UNCHANGED <<config, job, landed, entry, worker, single, cancel, together>>

(* cancel: the job row is read, then marked; the registry tells the workers
   that are at it, if the word reaches them; an entry nobody has is removed *)
CancelRead ==
  /\ cancel = "none" /\ job.status \notin Terminal /\ Spend("ask")
  /\ cancel' = "mark"
  /\ UNCHANGED <<config, job, cells, landed, entry, worker, single, together>>
CancelMark ==
  /\ cancel = "mark" /\ cancel' = "tell"
  /\ Becomes("canceling")
  /\ UNCHANGED <<config, cells, landed, entry, worker, single, together, budget>>
CancelTell ==
  /\ cancel = "tell" /\ cancel' = "remove"
  /\ \E told \in {{}, Busy \intersect Workers} :
        worker' = [w \in Workers |-> [worker[w] EXCEPT !.heard = @ \/ w \in told]]
  /\ UNCHANGED <<config, job, cells, landed, entry, single, together, budget>>
CancelRemove ==
  /\ cancel = "remove" /\ cancel' = "none"
  /\ entry' = IF entry.st = "active" THEN entry ELSE NoEntry
  /\ UNCHANGED <<config, job, cells, landed, worker, single, together, budget>>

(* retryDelivery: one failed delivery, from the process that was asked *)
SingleBegin(s) ==
  /\ single.pc = "idle" /\ cells[s].st = "failed" /\ job.status \notin Active
  /\ Spend("ask")
  /\ single' = [pc |-> "send", seq |-> s, was |-> job.status, ok |-> cells[s].ok, out |-> {}]
  /\ Joins("single")
  /\ UNCHANGED <<config, job, cells, landed, entry, worker, cancel>>
SingleSend ==
  /\ single.pc = "send"
  /\ \E out \in Outcomes(single.ok) :
        /\ FailsAtMost(out)
        /\ Writes(cells[single.seq].rows, single.ok, out)
        /\ single' = [single EXCEPT !.pc = "record", !.out = out]
  /\ UNCHANGED <<config, job, cells, entry, worker, cancel, together>>
SingleRecord ==
  /\ single.pc = "record"
  /\ cells' = [cells EXCEPT ![single.seq] = Recorded(@, @.rows, single.out)]
  /\ single' = [single EXCEPT !.pc = "after"]
  /\ UNCHANGED <<config, job, landed, entry, worker, cancel, together, budget>>
(* if that was what the run had stopped at, it carries on *)
SingleAfter ==
  /\ single.pc = "after"
  /\ single' = NoSingle /\ Leaves("single")
  /\ LET over == FailedSeqs = {} /\ single.was = "failed" IN
     /\ job' = IF ~over THEN job
               ELSE IF job.streamed THEN [job EXCEPT !.status = "completed"]
               ELSE [job EXCEPT !.status = "queued", !.size = config]
     /\ entry' = IF over /\ ~job.streamed THEN Added(Cleared(entry), "job") ELSE entry
  /\ UNCHANGED <<config, cells, landed, worker, cancel, budget>>

-----------------------------------------------------------------------------
(* processes: they die, they are shut down, they boot; BullMQ watches its locks *)

Crash(w) ==
  /\ worker[w].pc # "idle" /\ Spend("fault")
  /\ worker' = [worker EXCEPT ![w] = Off] /\ Leaves(w)
  /\ UNCHANGED <<config, job, cells, landed, entry, single, cancel>>

(* JobRegistryService.onModuleDestroy: whatever runs here is aborted *)
Shutdown(w) ==
  /\ w \in Busy /\ Spend("fault")
  /\ worker' = [worker EXCEPT ![w].heard = TRUE]
  /\ UNCHANGED <<config, job, cells, landed, entry, single, cancel, together>>

(* an entry whose worker has died goes back to the queue, or is given up *)
Stalled ==
  /\ entry.st = "active" /\ worker[entry.by].pc = "idle"
  /\ \E st \in {"waiting", "failed"} : entry' = [entry EXCEPT !.st = st, !.by = "nobody"]
  /\ UNCHANGED <<config, job, cells, landed, worker, single, cancel, together, budget>>
(* ...and so does one whose worker was only too slow to renew its lock *)
LockLost ==
  /\ entry.st = "active" /\ worker[entry.by].pc # "idle" /\ Spend("fault")
  /\ entry' = [entry EXCEPT !.st = "waiting", !.by = "nobody"]
  /\ UNCHANGED <<config, job, cells, landed, worker, single, cancel, together>>

(* onModuleInit: an active job that has no live entry is given one (for any
   other, nothing happens) *)
Boot ==
  /\ job.status \in Active /\ entry.st \in {"none", "failed"} /\ Spend("boot")
  /\ entry' = Added(Cleared(entry), IF entry.st = "none" THEN "job" ELSE entry.mode)
  /\ UNCHANGED <<config, job, cells, landed, worker, single, cancel, together>>

-----------------------------------------------------------------------------
Works(w) ==
  \/ Pick(w) \/ LoadSettled(w) \/ Load(w) \/ Mark(w) \/ ReadTimeline(w) \/ Stopped(w) \/ Look(w) \/ Send(w) \/ Record(w)
  \/ Cursor(w) \/ Finalize(w) \/ Detached(w) \/ Resend(w) \/ ResendRecord(w)
  \/ ResendDone(w) \/ Finish(w)

Asks ==
  \/ \E size \in Sizes : Edit(size)
  \/ Start \/ RetryFailed \/ ResendFailed \/ CancelRead
  \/ \E s \in Seqs : Skip(s) \/ SingleBegin(s)

Cancels == CancelMark \/ CancelTell \/ CancelRemove
Single == SingleSend \/ SingleRecord \/ SingleAfter

Next ==
  \/ \E w \in Workers : Works(w) \/ Drifted(w) \/ Throws(w) \/ Fails(w) \/ Crash(w) \/ Shutdown(w)
  \/ Asks \/ Cancels \/ Single \/ Stalled \/ LockLost \/ Boot

Spec == Init /\ [][Next]_vars

(* a worker goes on with what it has and takes what waits; what an API
   process began it goes on with; BullMQ looks after stalled entries *)
Fairness ==
  /\ \A w \in Workers : WF_vars(Works(w))
  /\ WF_vars(Cancels) /\ WF_vars(Single) /\ WF_vars(Stalled)
FairSpec == Spec /\ Fairness

-----------------------------------------------------------------------------
(* A run that is said to be completed has a delivery for every row of its
   source, whatever stopped it on the way and however it was taken up again. *)
CompletedMeansAll ==
  job.status = "completed" => \A r \in Positions : \E s \in Seqs : r \in cells[s].rows

(* no delivery of the timeline says that a target, other than those left out,
   has any of these rows *)
NotYetHad(rows, leftOut) ==
  \A s \in Seqs : cells[s].rows \intersect rows # {} =>
     cells[s].st # "success" /\ cells[s].ok \subseteq leftOut

(* Whoever has been alone with the job since it began does not write a row to
   a target again that the timeline says has it, in whichever delivery: not
   the rows of a green one, and not to the targets that had committed in one
   that failed (insert mode would duplicate them).  That goes for a worker
   that reads the source, for one that sends captured deliveries again, and
   for the retry of a single one. *)
NotWrittenAgain ==
  /\ \A w \in Workers \ together :
       /\ worker[w].pc = "send" => NotYetHad(Batch(w), Prior(w))
       /\ worker[w].pc = "resend" /\ worker[w].todo # {} => NotYetHad(Captured(w).rows, Captured(w).ok)
  /\ single.pc = "send" /\ "single" \notin together => NotYetHad(cells[single.seq].rows, single.ok)

(* Rows below the saved cursor have a delivery: what a resume does not read
   again was sent, or set aside, before. *)
BehindCursor ==
  \A r \in Positions : r < job.cursor => \E s \in Seqs : r \in cells[s].rows

(* A run that is in the queue comes to an end: whoever dies over it, its
   entry is worked off or given up. *)
RunEnds == (entry.st \in {"waiting", "active"}) ~> (entry.st \in {"none", "failed"})
=============================================================================
