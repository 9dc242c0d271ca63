-------------------------- MODULE ReplayJobProofs --------------------------
(***************************************************************************)
(* Proofs about a replay run (ReplayJob), for every source, batch size,    *)
(* set of targets and of workers, and every budget of faults.              *)
(*                                                                         *)
(* Three inductive invariants.  Types: TypeOK, with the fact that a worker *)
(* sends only batches that begin before the end.  DoneInv: before the      *)
(* saved cursor, and before the place each worker reads at, every batch    *)
(* has a delivery with exactly its rows, and all have once the source was  *)
(* read to its end; it gives CompletedMeansAll and BehindCursor.           *)
(* AgainInv: whoever has been alone with the job knows the timeline as it  *)
(* is at the delivery he is about to send, and everybody else is out of    *)
(* it.  Since a row is in the one delivery of its batch (DoneInv), what he *)
(* knows of that delivery is all the timeline says of its rows: the two    *)
(* together give NotWrittenAgain.                                          *)
(*                                                                         *)
(* DoneInv needs the batch size to stay what it is: batch numbers are      *)
(* positions divided by it, so an edit between two attempts gives the old  *)
(* deliveries' numbers to other rows.  The three theorems say so in their  *)
(* hypothesis, Budgets["edit"] = 0.                                        *)
(***************************************************************************)
EXTENDS ReplayJob, TLAPS, WellFoundedInduction

(* where a worker that reads the source can be *)
Reads == {"look", "send", "record", "cursor", "stop", "streamed"}
(* where a worker that sends failed deliveries again can be *)
Resends == {"resend", "resendRecord"}
(* a worker that has loaded the job and holds its batch size *)
Working == Reads \union Resends \union {"mark", "read"}
(* every place of a worker *)
Pcs == Working \union {"idle", "load", "finish"}
(* every status of the job row *)
Statuses == Active \union Terminal \union {"draft"}
(* the job row *)
Job == [status : Statuses, cursor : 0 .. Rows, streamed : BOOLEAN, size : Sizes]
(* the queue entry that bears the job's id *)
Entry == [st : {"none", "waiting", "active", "failed"}, mode : {"job", "resend"},
          by : Workers \union {"nobody"}]
(* what a worker holds *)
Worker == [pc : Pcs, mode : {"job", "resend"},
           pos : 0 .. Rows, size : Nat \ {0}, seen : [Seqs -> Cell], todo : SUBSET Seqs,
           heard : BOOLEAN, out : SUBSET Targets]
(* what retryDelivery holds in an API process *)
OneRetry == [pc : {"idle", "send", "record", "after"}, seq : Seqs, was : Statuses,
             ok : SUBSET Targets, out : SUBSET Targets]

(* the job row and the bridge's batch size are well typed *)
JobType == config \in Sizes /\ job \in Job
(* ...the timeline and what the targets received *)
TimelineType == cells \in [Seqs -> Cell] /\ landed \in [Targets -> SUBSET Positions]
(* ...the queue entry *)
EntryType == entry \in Entry
(* ...the workers *)
WorkerType == worker \in [Workers -> Worker] /\ together \subseteq Workers \union {"single"}
(* ...the retry of one delivery, the cancel and the budgets *)
SingleType == single \in OneRetry /\ cancel \in {"none", "mark", "tell", "remove"} /\ budget \in [Kinds -> Nat]
(* a worker that sends a batch is not past the end, one that records a resend has one *)
InBatch ==
  \A w \in Workers :
    /\ worker[w].pc \in {"send", "record", "cursor"} => worker[w].pos < Rows
    /\ worker[w].pc = "resendRecord" => worker[w].todo # {}

(* all of it: the type invariant, with InBatch so that it is inductive *)
Types == JobType /\ TimelineType /\ EntryType /\ WorkerType /\ SingleType /\ InBatch

-----------------------------------------------------------------------------
(* batches and their numbers *)

(* Euclidean division, as the batch numbers use it. *)
LEMMA Division ==
  ASSUME NEW z \in Nat \ {0}, NEW p \in Nat
  PROVE  p \div z \in Nat /\ p % z \in 0 .. z - 1 /\ p = (p \div z) * z + (p % z)
  OBVIOUS

(* Multiples of a batch size grow with the batch number. *)
LEMMA Multiples ==
  ASSUME NEW z \in Nat \ {0}, NEW s \in Nat, NEW t \in Nat
  PROVE  /\ s * z \in Nat /\ t * z \in Nat /\ s <= s * z
         /\ s <= t => s * z <= t * z
         /\ s < t => s * z + z <= t * z
  OBVIOUS

(* A batch that begins before the end has a number in the timeline. *)
LEMMA SeqInSeqs ==
  ASSUME NEW z \in Nat \ {0}, NEW p \in Nat, p < Rows
  PROVE  SeqOf(p, z) \in Seqs
  <1>1. PICK q \in Nat : q = p \div z
    BY Division
  <1>2. q <= q * z /\ q * z \in Nat
    BY Multiples
  <1>3. q * z <= p
    BY <1>1, <1>2, Division
  <1> QED
    BY <1>1, <1>2, <1>3, ReplayAssumption DEF SeqOf, Seqs, Positions

(* The next batch has the next number. *)
LEMMA NextSeq ==
  ASSUME NEW z \in Nat \ {0}, NEW p \in Nat
  PROVE  SeqOf(p + z, z) = SeqOf(p, z) + 1 /\ SeqOf(p, z) \in Nat /\ SeqOf(p + z, z) \in Nat
  <1>1. (p + z) \div z = (p \div z) + 1
    OBVIOUS
  <1> QED
    BY <1>1, Division DEF SeqOf

(* A batch holds rows of the source. *)
LEMMA BatchType ==
  ASSUME NEW p, NEW z
  PROVE  BatchFrom(p, z) \subseteq Positions
  BY DEF BatchFrom

(* What recordDelivery writes is a delivery. *)
LEMMA RecordedType ==
  ASSUME NEW c \in Cell, NEW rows \in SUBSET Positions, NEW ok \in SUBSET Targets
  PROVE  Recorded(c, rows, ok) \in Cell
  BY DEF Recorded, Cell

(* A non-empty set of batch numbers has a least one. *)
LEMMA NextOfSome ==
  ASSUME NEW S, S \subseteq Seqs, S # {}
  PROVE  Next1(S) \in S
  <1>0. S \subseteq Nat
    BY ReplayAssumption DEF Seqs, Positions
  <1>1. PICK x \in S : \A y \in S : ~(<<y, x>> \in OpToRel(<, Nat))
    <2>1. IsWellFoundedOn(OpToRel(<, Nat), Nat)
      BY NatLessThanWellFounded
    <2> QED
      BY <1>0, <2>1, WFMin, Zenon
  <1>2. \A i, j \in Nat : i < j => <<i, j>> \in OpToRel(<, Nat)
    BY DEF OpToRel
  <1>3. \A y \in S : x <= y
    <2> SUFFICES ASSUME NEW y \in S PROVE x <= y
      OBVIOUS
    <2>1. x \in Nat /\ y \in Nat
      BY <1>0
    <2>2. ~(y < x)
      BY <1>1, <1>2, <2>1, Zenon
    <2> QED
      BY <2>1, <2>2
  <1> QED
    BY <1>3 DEF Next1

-----------------------------------------------------------------------------
(* types *)

(* The job row and the bridge's batch size. *)
LEMMA JobTypeKept ==
  ASSUME JobType, WorkerType, [Next]_vars
  PROVE  JobType'
  <1>1. CASE \E w \in Workers : Pick(w) \/ Load(w) \/ ReadTimeline(w) \/ Send(w) \/ Record(w)
                                    \/ Detached(w) \/ Resend(w) \/ ResendRecord(w)
                                    \/ Finish(w) \/ Throws(w) \/ Crash(w) \/ Shutdown(w)
    <2>1. UNCHANGED <<config, job>>
      BY <1>1 DEF Pick, Load, ReadTimeline, Send, Record, Detached, Resend, ResendRecord, Finish, Throws,
                Crash, Shutdown
    <2> QED
      BY <2>1 DEF JobType
  <1>2. CASE \/ UNCHANGED vars
             \/ \E s \in Seqs : Skip(s) \/ SingleBegin(s)
             \/ CancelRead \/ CancelTell \/ CancelRemove \/ SingleSend \/ SingleRecord \/ Stalled \/ LockLost \/ Boot
    <2>1. UNCHANGED <<config, job>>
      BY <1>2 DEF vars, Skip, SingleBegin, CancelRead, CancelTell, CancelRemove, SingleSend, SingleRecord, Stalled,
                LockLost, Boot
    <2> QED
      BY <2>1 DEF JobType
  <1>3. ASSUME NEW w \in Workers, LoadSettled(w) PROVE JobType'
    BY <1>3 DEF LoadSettled, Becomes, Spend, JobType, Job, Statuses, Active, Terminal, Resumable
  <1>4. ASSUME NEW w \in Workers, Mark(w) PROVE JobType'
    BY <1>4 DEF Mark, Becomes, Spend, JobType, Job, Statuses, Active, Terminal, Resumable
  <1>5. ASSUME NEW w \in Workers, Stopped(w) PROVE JobType'
    BY <1>5 DEF Stopped, Becomes, Spend, JobType, Job, Statuses, Active, Terminal, Resumable
  <1>6. ASSUME NEW w \in Workers, Look(w) PROVE JobType'
    <2>1. PICK b \in BOOLEAN : job' = [job EXCEPT !.streamed = b]
      <3>1. (job.streamed \/ worker[w].pos >= Rows) \in BOOLEAN
        OBVIOUS
      <3> QED
        BY <1>6, <3>1 DEF Look
    <2> QED
      BY <1>6, <2>1 DEF Look, JobType, Job
  <1>7. ASSUME NEW w \in Workers, Cursor(w) PROVE JobType'
    <2>1. PICK next : next = worker[w].pos + worker[w].size
      OBVIOUS
    <2>2. config' = config
      BY <1>7 DEF Cursor
    <2>3. PICK b \in {FALSE, job.streamed} :
            job' = IF next <= Rows THEN [job EXCEPT !.cursor = next, !.streamed = b] ELSE job
      BY <1>7, <2>1 DEF Cursor
    <2>4. next \in Nat
      BY <2>1 DEF WorkerType, Worker
    <2>5. b \in BOOLEAN
      BY DEF JobType, Job
    <2>6. next <= Rows => next \in 0 .. Rows
      BY <2>4, ReplayAssumption
    <2>7. CASE next <= Rows
      <3>1. job' = [job EXCEPT !.cursor = next, !.streamed = b]
        BY <2>3, <2>7
      <3> QED
        BY <2>2, <2>5, <2>6, <2>7, <3>1 DEF JobType, Job
    <2>8. CASE ~(next <= Rows)
      BY <2>2, <2>3, <2>8 DEF JobType
    <2> QED
      BY <2>7, <2>8
  <1>8. ASSUME NEW w \in Workers, Finalize(w) PROVE JobType'
    BY <1>8 DEF Finalize, Becomes, Spend, JobType, Job, Statuses, Active, Terminal, Resumable
  <1>9. ASSUME NEW w \in Workers, ResendDone(w) PROVE JobType'
    BY <1>9 DEF ResendDone, Becomes, Spend, JobType, Job, Statuses, Active, Terminal, Resumable
  <1>10. ASSUME NEW w \in Workers, Drifted(w) PROVE JobType'
    BY <1>10 DEF Drifted, Becomes, Spend, JobType, Job, Statuses, Active, Terminal, Resumable
  <1>11. ASSUME NEW w \in Workers, Fails(w) PROVE JobType'
    BY <1>11 DEF Fails, Becomes, Spend, JobType, Job, Statuses, Active, Terminal, Resumable
  <1>12. ASSUME NEW size \in Sizes, Edit(size) PROVE JobType'
    BY <1>12 DEF Edit, JobType, Job
  <1>13. ASSUME Start PROVE JobType'
    BY <1>13 DEF Start, Becomes, Spend, JobType, Job, Statuses, Active, Terminal, Resumable
  <1>14. ASSUME RetryFailed PROVE JobType'
    BY <1>14, ReplayAssumption DEF RetryFailed, JobType, Job, Statuses, Active
  <1>15. ASSUME ResendFailed PROVE JobType'
    BY <1>15 DEF ResendFailed, Becomes, Spend, JobType, Job, Statuses, Active, Terminal, Resumable
  <1>16. ASSUME CancelMark PROVE JobType'
    BY <1>16 DEF CancelMark, Becomes, Spend, JobType, Job, Statuses, Active, Terminal, Resumable
  <1>17. ASSUME SingleAfter PROVE JobType'
    <2>1. config' = config
      BY <1>17 DEF SingleAfter
    <2>2. \/ job' = job \/ job' = [job EXCEPT !.status = "completed"]
          \/ job' = [job EXCEPT !.status = "queued", !.size = config]
      BY <1>17 DEF SingleAfter
    <2> QED
      BY <2>1, <2>2 DEF JobType, Job, Statuses, Active, Terminal
  <1> QED
    BY <1>1, <1>2, <1>3, <1>4, <1>5, <1>6, <1>7, <1>8, <1>9, <1>10, <1>11, <1>12, <1>13,
       <1>14, <1>15, <1>16, <1>17 DEF Next, Works, Asks, Cancels, Single

(* The timeline and what has landed. *)
LEMMA TimelineTypeKept ==
  ASSUME TimelineType, WorkerType, SingleType, InBatch, [Next]_vars
  PROVE  TimelineType'
  <1>1. CASE \E w \in Workers : Pick(w) \/ LoadSettled(w) \/ Load(w) \/ Mark(w) \/ ReadTimeline(w)
                                    \/ Stopped(w) \/ Look(w) \/ Cursor(w) \/ Finalize(w)
                                    \/ Detached(w) \/ ResendDone(w) \/ Finish(w) \/ Drifted(w)
                                    \/ Throws(w) \/ Fails(w) \/ Crash(w) \/ Shutdown(w)
    <2>1. UNCHANGED <<cells, landed>>
      BY <1>1 DEF Pick, LoadSettled, Load, Mark, ReadTimeline, Stopped, Look, Cursor, Finalize, Detached,
                ResendDone, Finish, Drifted, Throws, Fails, Crash, Shutdown
    <2> QED
      BY <2>1 DEF TimelineType
  <1>2. CASE \/ UNCHANGED vars
             \/ \E size \in Sizes : Edit(size)
             \/ \E s \in Seqs : SingleBegin(s)
             \/ Start \/ RetryFailed \/ ResendFailed \/ CancelRead \/ CancelMark \/ CancelTell \/ CancelRemove
             \/ SingleAfter \/ Stalled \/ LockLost \/ Boot
    <2>1. UNCHANGED <<cells, landed>>
      BY <1>2 DEF vars, Edit, SingleBegin, Start, RetryFailed, ResendFailed, CancelRead,
                CancelMark, CancelTell, CancelRemove, SingleAfter, Stalled, LockLost, Boot
    <2> QED
      BY <2>1 DEF TimelineType
  <1>3. ASSUME NEW w \in Workers, Send(w) PROVE TimelineType'
    <2>1. PICK out : Writes(Batch(w), Prior(w), out)
      BY <1>3 DEF Send
    <2> QED
      BY <1>3, <2>1, BatchType DEF Send, Writes, TimelineType, Batch
  <1>4. ASSUME NEW w \in Workers, Record(w) PROVE TimelineType'
    <2>1. PICK s \in Seqs : s = Seq(w)
      BY <1>4, SeqInSeqs DEF Record, WorkerType, Worker, InBatch, Seq
    <2>2. Recorded(cells[s], Batch(w), worker[w].out) \in Cell
      BY RecordedType, BatchType DEF TimelineType, WorkerType, Worker, Batch
    <2> QED
      BY <1>4, <2>1, <2>2 DEF Record, TimelineType
  <1>5. ASSUME NEW w \in Workers, Resend(w) PROVE TimelineType'
    <2>1. PICK c : c = Captured(w)
      OBVIOUS
    <2>2. c.rows \subseteq Positions
      BY <1>5, <2>1, NextOfSome DEF Resend, Captured, WorkerType, Worker, Cell
    <2>3. PICK out : Writes(c.rows, c.ok, out)
      BY <1>5, <2>1 DEF Resend
    <2> QED
      BY <1>5, <2>2, <2>3 DEF Resend, Writes, TimelineType
  <1>6. ASSUME NEW w \in Workers, ResendRecord(w) PROVE TimelineType'
    <2>1. PICK s \in Seqs : s = Next1(worker[w].todo)
      BY <1>6, NextOfSome DEF ResendRecord, WorkerType, Worker, InBatch
    <2>2. Recorded(cells[s], cells[s].rows, worker[w].out) \in Cell
      <3>1. cells[s] \in Cell /\ cells[s].rows \in SUBSET Positions
        BY DEF TimelineType, Cell
      <3> QED
        BY <3>1, RecordedType DEF WorkerType, Worker
    <2> QED
      BY <1>6, <2>1, <2>2 DEF ResendRecord, TimelineType
  <1>7. ASSUME NEW s \in Seqs, Skip(s) PROVE TimelineType'
    <2>1. [NoCell EXCEPT !.st = "skipped", !.rows = BatchFrom(s * job.size, job.size)] \in Cell
      BY BatchType DEF NoCell, Cell
    <2> QED
      BY <1>7, <2>1 DEF Skip, TimelineType
  <1>8. ASSUME SingleSend PROVE TimelineType'
    <2>1. cells[single.seq].rows \subseteq Positions
      BY DEF TimelineType, SingleType, OneRetry, Cell
    <2>2. PICK out : Writes(cells[single.seq].rows, single.ok, out)
      BY <1>8 DEF SingleSend
    <2> QED
      BY <1>8, <2>1, <2>2 DEF SingleSend, Writes, TimelineType
  <1>9. ASSUME SingleRecord PROVE TimelineType'
    <2>1. PICK s \in Seqs : s = single.seq
      BY DEF SingleType, OneRetry
    <2>2. Recorded(cells[s], cells[s].rows, single.out) \in Cell
      <3>1. cells[s] \in Cell /\ cells[s].rows \in SUBSET Positions
        BY DEF TimelineType, Cell
      <3> QED
        BY <3>1, RecordedType DEF SingleType, OneRetry
    <2> QED
      BY <1>9, <2>1, <2>2 DEF SingleRecord, TimelineType
  <1> QED
    BY <1>1, <1>2, <1>3, <1>4, <1>5, <1>6, <1>7, <1>8, <1>9 DEF Next, Works, Asks, Cancels, Single

(* The queue entry. *)
LEMMA EntryTypeKept ==
  ASSUME EntryType, [Next]_vars
  PROVE  EntryType'
  <1>1. CASE \E w \in Workers : LoadSettled(w) \/ Load(w) \/ Mark(w) \/ ReadTimeline(w) \/ Stopped(w)
                                    \/ Look(w) \/ Send(w) \/ Record(w) \/ Cursor(w)
                                    \/ Finalize(w) \/ Detached(w) \/ Resend(w)
                                    \/ ResendRecord(w) \/ ResendDone(w) \/ Drifted(w)
                                    \/ Fails(w) \/ Crash(w) \/ Shutdown(w)
    <2>1. UNCHANGED entry
      BY <1>1, ZenonT(60) DEF LoadSettled, Load, Mark, ReadTimeline, Stopped, Look, Send, Record, Cursor, Finalize,
                Detached, Resend, ResendRecord, ResendDone, Drifted, Fails, Crash,
                Shutdown
    <2> QED
      BY <2>1 DEF EntryType
  <1>2. CASE \/ UNCHANGED vars
             \/ \E size \in Sizes : Edit(size)
             \/ \E s \in Seqs : Skip(s) \/ SingleBegin(s)
             \/ CancelRead \/ CancelMark \/ CancelTell \/ SingleSend \/ SingleRecord
    <2>1. UNCHANGED entry
      BY <1>2 DEF vars, Edit, Skip, SingleBegin, CancelRead, CancelMark, CancelTell, SingleSend, SingleRecord
    <2> QED
      BY <2>1 DEF EntryType
  <1>3. ASSUME NEW w \in Workers, Pick(w) PROVE EntryType'
    BY <1>3 DEF Pick, EntryType, Entry, NoEntry, Added, Cleared
  <1>4. ASSUME NEW w \in Workers, Finish(w) PROVE EntryType'
    BY <1>4 DEF Finish, EntryType, Entry, NoEntry, Added, Cleared
  <1>5. ASSUME NEW w \in Workers, Throws(w) PROVE EntryType'
    BY <1>5 DEF Throws, EntryType, Entry, NoEntry, Added, Cleared
  <1>6. ASSUME Start PROVE EntryType'
    BY <1>6 DEF Start, EntryType, Entry, NoEntry, Added, Cleared
  <1>7. ASSUME RetryFailed PROVE EntryType'
    BY <1>7 DEF RetryFailed, EntryType, Entry, NoEntry, Added, Cleared
  <1>8. ASSUME ResendFailed PROVE EntryType'
    BY <1>8 DEF ResendFailed, EntryType, Entry, NoEntry, Added, Cleared
  <1>9. ASSUME CancelRemove PROVE EntryType'
    BY <1>9 DEF CancelRemove, EntryType, Entry, NoEntry, Added, Cleared
  <1>10. ASSUME SingleAfter PROVE EntryType'
    BY <1>10 DEF SingleAfter, EntryType, Entry, NoEntry, Added, Cleared
  <1>11. ASSUME Stalled PROVE EntryType'
    BY <1>11 DEF Stalled, EntryType, Entry, NoEntry, Added, Cleared
  <1>12. ASSUME LockLost PROVE EntryType'
    BY <1>12 DEF LockLost, EntryType, Entry, NoEntry, Added, Cleared
  <1>13. ASSUME Boot PROVE EntryType'
    BY <1>13 DEF Boot, EntryType, Entry, NoEntry, Added, Cleared
  <1> QED
    BY <1>1, <1>2, <1>3, <1>4, <1>5, <1>6, <1>7, <1>8, <1>9, <1>10, <1>11, <1>12, <1>13 DEF Next, Works, Asks, Cancels, Single

(* What is asked for or goes wrong was still allowed. *)
LEMMA SpendType ==
  ASSUME NEW k \in Kinds, budget \in [Kinds -> Nat], Spend(k)
  PROVE  budget' \in [Kinds -> Nat] /\ budget[k] > 0
  BY DEF Spend

(* The retry of one delivery, and the bounds. *)
LEMMA SingleTypeKept ==
  ASSUME SingleType, TimelineType, JobType, [Next]_vars
  PROVE  SingleType'
  <1>1. CASE \E w \in Workers : Pick(w) \/ LoadSettled(w) \/ Load(w) \/ Mark(w) \/ ReadTimeline(w)
                                    \/ Stopped(w) \/ Look(w) \/ Record(w) \/ Cursor(w)
                                    \/ Finalize(w) \/ Detached(w) \/ ResendRecord(w)
                                    \/ ResendDone(w) \/ Finish(w)
    <2>1. UNCHANGED <<single, cancel, budget>>
      BY <1>1 DEF Pick, LoadSettled, Load, Mark, ReadTimeline, Stopped, Look, Record, Cursor, Finalize,
                Detached, ResendRecord, ResendDone, Finish
    <2> QED
      BY <2>1 DEF SingleType
  <1>2. CASE \/ UNCHANGED vars
             \/ Stalled
    <2>1. UNCHANGED <<single, cancel, budget>>
      BY <1>2 DEF vars, Stalled
    <2> QED
      BY <2>1 DEF SingleType
  <1>3. ASSUME NEW w \in Workers, Send(w) PROVE SingleType'
    <2>1. budget' \in [Kinds -> Nat]
      BY <1>3, SpendType DEF Send, FailsAtMost, SingleType, Kinds
    <2> QED
      BY <1>3, <2>1 DEF Send, SingleType
  <1>4. ASSUME NEW w \in Workers, Resend(w) PROVE SingleType'
    <2>1. budget' \in [Kinds -> Nat]
      BY <1>4, SpendType DEF Resend, FailsAtMost, SingleType, Kinds
    <2> QED
      BY <1>4, <2>1 DEF Resend, SingleType
  <1>5. ASSUME NEW w \in Workers, Drifted(w) PROVE SingleType'
    <2>1. budget' \in [Kinds -> Nat]
      BY <1>5, SpendType DEF Drifted, SingleType, Kinds
    <2> QED
      BY <1>5, <2>1 DEF Drifted, SingleType
  <1>6. ASSUME NEW w \in Workers, Throws(w) PROVE SingleType'
    <2>1. budget' \in [Kinds -> Nat]
      BY <1>6, SpendType DEF Throws, SingleType, Kinds
    <2> QED
      BY <1>6, <2>1 DEF Throws, SingleType
  <1>7. ASSUME NEW w \in Workers, Fails(w) PROVE SingleType'
    <2>1. budget' \in [Kinds -> Nat]
      BY <1>7, SpendType DEF Fails, SingleType, Kinds
    <2> QED
      BY <1>7, <2>1 DEF Fails, SingleType
  <1>8. ASSUME NEW w \in Workers, Crash(w) PROVE SingleType'
    <2>1. budget' \in [Kinds -> Nat]
      BY <1>8, SpendType DEF Crash, SingleType, Kinds
    <2> QED
      BY <1>8, <2>1 DEF Crash, SingleType
  <1>9. ASSUME NEW w \in Workers, Shutdown(w) PROVE SingleType'
    <2>1. budget' \in [Kinds -> Nat]
      BY <1>9, SpendType DEF Shutdown, SingleType, Kinds
    <2> QED
      BY <1>9, <2>1 DEF Shutdown, SingleType
  <1>10. ASSUME NEW size \in Sizes, Edit(size) PROVE SingleType'
    <2>1. budget' \in [Kinds -> Nat]
      BY <1>10, SpendType DEF Edit, SingleType, Kinds
    <2> QED
      BY <1>10, <2>1 DEF Edit, SingleType
  <1>11. ASSUME NEW s \in Seqs, Skip(s) PROVE SingleType'
    <2>1. budget' \in [Kinds -> Nat]
      BY <1>11, SpendType DEF Skip, SingleType, Kinds
    <2> QED
      BY <1>11, <2>1 DEF Skip, SingleType
  <1>12. ASSUME NEW s \in Seqs, SingleBegin(s) PROVE SingleType'
    <2>1. budget' \in [Kinds -> Nat]
      BY <1>12, SpendType DEF SingleBegin, SingleType, Kinds
    <2>2. cells[s].ok \subseteq Targets /\ job.status \in Statuses
      BY DEF TimelineType, Cell, JobType, Job
    <2> QED
      BY <1>12, <2>1, <2>2 DEF SingleBegin, SingleType, OneRetry
  <1>13. ASSUME Start PROVE SingleType'
    <2>1. budget' \in [Kinds -> Nat]
      BY <1>13, SpendType DEF Start, SingleType, Kinds
    <2> QED
      BY <1>13, <2>1 DEF Start, SingleType
  <1>14. ASSUME RetryFailed PROVE SingleType'
    <2>1. budget' \in [Kinds -> Nat]
      BY <1>14, SpendType DEF RetryFailed, SingleType, Kinds
    <2> QED
      BY <1>14, <2>1 DEF RetryFailed, SingleType
  <1>15. ASSUME ResendFailed PROVE SingleType'
    <2>1. budget' \in [Kinds -> Nat]
      BY <1>15, SpendType DEF ResendFailed, SingleType, Kinds
    <2> QED
      BY <1>15, <2>1 DEF ResendFailed, SingleType
  <1>16. ASSUME CancelRead PROVE SingleType'
    <2>1. budget' \in [Kinds -> Nat]
      BY <1>16, SpendType DEF CancelRead, SingleType, Kinds
    <2> QED
      BY <1>16, <2>1 DEF CancelRead, SingleType
  <1>17. ASSUME Cancels PROVE SingleType'
    BY <1>17 DEF Cancels, CancelMark, CancelTell, CancelRemove, SingleType
  <1>18. ASSUME SingleSend PROVE SingleType'
    <2>1. PICK out \in SUBSET Targets : single' = [single EXCEPT !.pc = "record", !.out = out] /\ FailsAtMost(out)
      BY <1>18 DEF SingleSend, Outcomes
    <2>2. budget' \in [Kinds -> Nat]
      BY <2>1, SpendType DEF FailsAtMost, SingleType, Kinds
    <2> QED
      BY <1>18, <2>1, <2>2 DEF SingleSend, SingleType, OneRetry
  <1>19. ASSUME SingleRecord PROVE SingleType'
    BY <1>19 DEF SingleRecord, SingleType, OneRetry
  <1>20. ASSUME SingleAfter PROVE SingleType'
    <2>1. NoSingle \in OneRetry
      BY ReplayAssumption DEF NoSingle, OneRetry, Statuses, Terminal, Resumable, Seqs, Positions
    <2> QED
      BY <1>20, <2>1 DEF SingleAfter, SingleType
  <1>21. ASSUME LockLost PROVE SingleType'
    <2>1. budget' \in [Kinds -> Nat]
      BY <1>21, SpendType DEF LockLost, SingleType, Kinds
    <2> QED
      BY <1>21, <2>1 DEF LockLost, SingleType
  <1>22. ASSUME Boot PROVE SingleType'
    <2>1. budget' \in [Kinds -> Nat]
      BY <1>22, SpendType DEF Boot, SingleType, Kinds
    <2> QED
      BY <1>22, <2>1 DEF Boot, SingleType
  <1> QED
    BY <1>1, <1>2, <1>3, <1>4, <1>5, <1>6, <1>7, <1>8, <1>9, <1>10, <1>11, <1>12, <1>13,
       <1>14, <1>15, <1>16, <1>17, <1>18, <1>19, <1>20, <1>21, <1>22 DEF Next, Works, Asks, Single

(* The steps of a worker. *)
LEMMA PcsAre ==
  \A x \in {"idle", "load", "mark", "read", "look", "send", "record", "cursor", "stop", "streamed", "finish",
          "resend", "resendRecord"} : x \in Pcs
  BY DEF Pcs, Working, Reads, Resends

(* A worker that has nothing to do. *)
LEMMA OffType == Off \in Worker /\ Off.pc = "idle" /\ Off.todo = {}
  <1>1. NoCell \in Cell
    BY DEF NoCell, Cell
  <1> QED
    BY <1>1, PcsAre, ReplayAssumption DEF Off, Worker

(* Whoever is busy is a worker, or the retry of one delivery. *)
LEMMA JoinsType ==
  ASSUME together \subseteq Workers \union {"single"}, NEW a \in Workers \union {"single"}, Joins(a)
  PROVE  together' \subseteq Workers \union {"single"}
  BY DEF Joins, Busy

(* The workers. *)
LEMMA WorkerTypeKept ==
  ASSUME WorkerType, TimelineType, EntryType, JobType, [Next]_vars
  PROVE  WorkerType'
  <1>1. CASE \/ UNCHANGED vars
             \/ \E size \in Sizes : Edit(size)
             \/ \E s \in Seqs : Skip(s)
             \/ Start \/ RetryFailed \/ ResendFailed \/ CancelRead \/ CancelMark \/ CancelRemove \/ SingleSend
             \/ SingleRecord \/ Stalled \/ LockLost \/ Boot
    <2>1. UNCHANGED <<worker, together>>
      BY <1>1 DEF vars, Edit, Skip, Start, RetryFailed, ResendFailed, CancelRead, CancelMark, CancelRemove, SingleSend,
                SingleRecord, Stalled, LockLost, Boot
    <2> QED
      BY <2>1 DEF WorkerType
  <1>2. ASSUME NEW w \in Workers, Pick(w) PROVE WorkerType'
    BY <1>2, PcsAre, ZenonT(60) DEF Pick, WorkerType, Worker, Goes
  <1>3. ASSUME NEW w \in Workers, LoadSettled(w) PROVE WorkerType'
    <2>1. [Off EXCEPT !.pc = "finish"] \in Worker
      BY OffType, PcsAre DEF Worker
    <2> QED
      BY <1>3, <2>1 DEF LoadSettled, Ends, WorkerType
  <1>4. ASSUME NEW w \in Workers, Load(w) PROVE WorkerType'
    <2>1. [Off EXCEPT !.pc = "mark", !.mode = entry.mode, !.pos = job.cursor, !.size = job.size] \in Worker
      BY OffType, PcsAre, ReplayAssumption DEF Worker, EntryType, Entry, JobType, Job
    <2>2. together' \subseteq Workers \union {"single"}
      BY <1>4, JoinsType DEF Load, WorkerType
    <2> QED
      BY <1>4, <2>1, <2>2 DEF Load, WorkerType
  <1>5. ASSUME NEW w \in Workers, ReadTimeline(w) PROVE WorkerType'
    <2>1. PICK pc \in {"look", "resend"}, todo \in SUBSET Seqs :
            worker' = [worker EXCEPT ![w].pc = pc, ![w].seen = cells, ![w].todo = todo]
      BY <1>5 DEF ReadTimeline, FailedSeqs
    <2>2. together' = together
      BY <1>5 DEF ReadTimeline
    <2>3. pc \in Pcs
      BY PcsAre
    <2>4. cells \in [Seqs -> Cell]
      BY DEF TimelineType
    <2>5. PICK y : y = [worker[w] EXCEPT !.pc = pc, !.seen = cells, !.todo = todo]
      OBVIOUS
    <2>6. y \in Worker
      <3>1. PICK x \in Worker : x = worker[w]
        BY DEF WorkerType
      <3>2. [x EXCEPT !.pc = pc, !.seen = cells, !.todo = todo] \in Worker
        BY <2>3, <2>4 DEF Worker
      <3> QED
        BY <2>5, <3>1, <3>2
    <2>7. worker' = [worker EXCEPT ![w] = y]
      BY <2>1, <2>5 DEF WorkerType
    <2> QED
      BY <2>2, <2>6, <2>7 DEF WorkerType
  <1>6. ASSUME NEW w \in Workers, Stopped(w) PROVE WorkerType'
    <2>1. [Off EXCEPT !.pc = "finish"] \in Worker
      BY OffType, PcsAre DEF Worker
    <2> QED
      BY <1>6, <2>1 DEF Stopped, Ends, WorkerType
  <1>7. ASSUME NEW w \in Workers, Look(w) PROVE WorkerType'
    <2>1. PICK seen \in NowSeen(w), pc \in {"streamed", "cursor", "send"} :
            worker' = [worker EXCEPT ![w].seen = seen, ![w].out = Targets, ![w].pc = pc]
      BY <1>7 DEF Look, Looks
    <2>2. seen \in [Seqs -> Cell]
      BY <2>1 DEF NowSeen, TimelineType, WorkerType, Worker
    <2>3. together' = together
      BY <1>7 DEF Look
    <2>4. pc \in Pcs
      BY PcsAre
    <2>5. PICK y : y = [worker[w] EXCEPT !.seen = seen, !.out = Targets, !.pc = pc]
      OBVIOUS
    <2>6. y \in Worker
      <3>1. PICK x \in Worker : x = worker[w]
        BY DEF WorkerType
      <3>2. [x EXCEPT !.seen = seen, !.out = Targets, !.pc = pc] \in Worker
        BY <2>2, <2>4 DEF Worker
      <3> QED
        BY <2>5, <3>1, <3>2
    <2>7. worker' = [worker EXCEPT ![w] = y]
      BY <2>1, <2>5 DEF WorkerType
    <2> QED
      BY <2>3, <2>6, <2>7 DEF WorkerType
  <1>8. ASSUME NEW w \in Workers, Send(w) PROVE WorkerType'
    <2>1. PICK out \in SUBSET Targets : worker' = [worker EXCEPT ![w].out = out, ![w].pc = "record"]
      BY <1>8 DEF Send, Outcomes
    <2>2. together' = together
      BY <1>8 DEF Send
    <2>3. "record" \in Pcs
      BY PcsAre
    <2>4. PICK y : y = [worker[w] EXCEPT !.out = out, !.pc = "record"]
      OBVIOUS
    <2>5. y \in Worker
      <3>1. PICK x \in Worker : x = worker[w]
        BY DEF WorkerType
      <3>2. [x EXCEPT !.out = out, !.pc = "record"] \in Worker
        BY <2>3 DEF Worker
      <3> QED
        BY <2>4, <3>1, <3>2
    <2>6. worker' = [worker EXCEPT ![w] = y]
      BY <2>1, <2>4 DEF WorkerType
    <2> QED
      BY <2>2, <2>5, <2>6 DEF WorkerType
  <1>9. ASSUME NEW w \in Workers, Record(w) PROVE WorkerType'
    <2>1. worker' = [worker EXCEPT ![w].pc = "cursor"] /\ together' = together
      BY <1>9 DEF Record, Goes
    <2>2. "cursor" \in Pcs
      BY PcsAre
    <2> QED
      BY <2>1, <2>2 DEF WorkerType, Worker
  <1>10. ASSUME NEW w \in Workers, Cursor(w) PROVE WorkerType'
    <2>0. PICK pos :
            pos = IF worker[w].pos + worker[w].size <= Rows THEN worker[w].pos + worker[w].size ELSE Rows
      OBVIOUS
    <2>1. PICK pc \in {"stop", "look"} :
            worker' = [worker EXCEPT ![w].pos = pos, ![w].out = {}, ![w].pc = pc]
      BY <1>10, <2>0 DEF Cursor
    <2>2. pos \in 0 .. Rows
      BY <2>0, ReplayAssumption DEF WorkerType, Worker
    <2> QED
      BY <1>10, <2>1, <2>2, PcsAre DEF Cursor, WorkerType, Worker
  <1>11. ASSUME NEW w \in Workers, Finalize(w) PROVE WorkerType'
    <2>1. [Off EXCEPT !.pc = "finish"] \in Worker
      BY OffType, PcsAre DEF Worker
    <2> QED
      BY <1>11, <2>1 DEF Finalize, Ends, WorkerType
  <1>12. ASSUME NEW w \in Workers, Detached(w) PROVE WorkerType'
    <2>1. [Off EXCEPT !.pc = "finish"] \in Worker
      BY OffType, PcsAre DEF Worker
    <2> QED
      BY <1>12, <2>1 DEF Detached, Ends, WorkerType
  <1>13. ASSUME NEW w \in Workers, Resend(w) PROVE WorkerType'
    <2>1. PICK out \in SUBSET Targets : worker' = [worker EXCEPT ![w].out = out, ![w].pc = "resendRecord"]
      BY <1>13 DEF Resend, Outcomes
    <2>2. together' = together
      BY <1>13 DEF Resend
    <2>3. "resendRecord" \in Pcs
      BY PcsAre
    <2>4. PICK y : y = [worker[w] EXCEPT !.out = out, !.pc = "resendRecord"]
      OBVIOUS
    <2>5. y \in Worker
      <3>1. PICK x \in Worker : x = worker[w]
        BY DEF WorkerType
      <3>2. [x EXCEPT !.out = out, !.pc = "resendRecord"] \in Worker
        BY <2>3 DEF Worker
      <3> QED
        BY <2>4, <3>1, <3>2
    <2>6. worker' = [worker EXCEPT ![w] = y]
      BY <2>1, <2>4 DEF WorkerType
    <2> QED
      BY <2>2, <2>5, <2>6 DEF WorkerType
  <1>14. ASSUME NEW w \in Workers, ResendRecord(w) PROVE WorkerType'
    BY <1>14, PcsAre DEF ResendRecord, WorkerType, Worker, Goes
  <1>15. ASSUME NEW w \in Workers, ResendDone(w) PROVE WorkerType'
    <2>1. CASE worker' = [worker EXCEPT ![w].pc = "mark", ![w].mode = "job",
                                        ![w].pos = job.cursor, ![w].size = config]
      <3>1. job.cursor \in 0 .. Rows /\ config \in Nat \ {0}
        BY ReplayAssumption DEF JobType, Job
      <3>2. together' = together
        BY <1>15 DEF ResendDone
      <3>3. "mark" \in Pcs
        BY PcsAre
      <3>4. PICK y : y = [worker[w] EXCEPT !.pc = "mark", !.mode = "job", !.pos = job.cursor, !.size = config]
        OBVIOUS
      <3>5. y \in Worker
        <4>1. PICK x \in Worker : x = worker[w]
          BY DEF WorkerType
        <4>2. [x EXCEPT !.pc = "mark", !.mode = "job", !.pos = job.cursor, !.size = config] \in Worker
          BY <3>1, <3>3 DEF Worker
        <4> QED
          BY <3>4, <4>1, <4>2
      <3>6. worker' = [worker EXCEPT ![w] = y]
        BY <2>1, <3>4 DEF WorkerType
      <3> QED
        BY <3>2, <3>5, <3>6 DEF WorkerType
    <2>2. CASE Ends(w)
      <3>1. [Off EXCEPT !.pc = "finish"] \in Worker
        BY OffType, PcsAre DEF Worker
      <3> QED
        BY <1>15, <2>2, <3>1 DEF ResendDone, Ends, WorkerType
    <2> QED
      BY <1>15, <2>1, <2>2 DEF ResendDone
  <1>16. ASSUME NEW w \in Workers, Finish(w) PROVE WorkerType'
    <2>1. Off \in Worker
      BY OffType
    <2> QED
      BY <1>16, <2>1 DEF Finish, Leaves, WorkerType
  <1>17. ASSUME NEW w \in Workers, Drifted(w) PROVE WorkerType'
    <2>1. [Off EXCEPT !.pc = "finish"] \in Worker
      BY OffType, PcsAre DEF Worker
    <2> QED
      BY <1>17, <2>1 DEF Drifted, Ends, WorkerType
  <1>18. ASSUME NEW w \in Workers, Throws(w) PROVE WorkerType'
    <2>1. Off \in Worker
      BY OffType
    <2> QED
      BY <1>18, <2>1 DEF Throws, Leaves, WorkerType
  <1>19. ASSUME NEW w \in Workers, Fails(w) PROVE WorkerType'
    <2>1. [Off EXCEPT !.pc = "finish"] \in Worker
      BY OffType, PcsAre DEF Worker
    <2> QED
      BY <1>19, <2>1 DEF Fails, Ends, WorkerType
  <1>20. ASSUME NEW w \in Workers, Crash(w) PROVE WorkerType'
    <2>1. Off \in Worker
      BY OffType
    <2> QED
      BY <1>20, <2>1 DEF Crash, Leaves, WorkerType
  <1>21. ASSUME NEW w \in Workers, Shutdown(w) PROVE WorkerType'
    BY <1>21, PcsAre, ZenonT(60) DEF Shutdown, WorkerType, Worker, Goes
  <1>22. ASSUME NEW s \in Seqs, SingleBegin(s) PROVE WorkerType'
    BY <1>22, JoinsType DEF SingleBegin, WorkerType
  <1>23. ASSUME CancelTell PROVE WorkerType'
    <2>1. together' = together
      BY <1>23 DEF CancelTell
    <2>2. PICK told : worker' = [w \in Workers |-> [worker[w] EXCEPT !.heard = @ \/ w \in told]]
      BY <1>23 DEF CancelTell
    <2>3. ASSUME NEW w \in Workers PROVE worker'[w] \in Worker
      <3>1. PICK b \in BOOLEAN : b = (worker[w].heard \/ w \in told)
        OBVIOUS
      <3>2. worker'[w] = [worker[w] EXCEPT !.heard = b]
        BY <2>2, <3>1, Zenon
      <3> QED
        BY <3>2 DEF WorkerType, Worker
    <2>4. worker' \in [Workers -> Worker]
      BY <2>2, <2>3
    <2> QED
      BY <2>1, <2>4 DEF WorkerType
  <1>24. ASSUME SingleAfter PROVE WorkerType'
    BY <1>24 DEF SingleAfter, Leaves, WorkerType
  <1>25. ASSUME NEW w \in Workers, Mark(w) PROVE WorkerType'
    <2>1. worker' = [worker EXCEPT ![w].pc = "read"] /\ together' = together
      BY <1>25 DEF Mark, Goes
    <2>2. "read" \in Pcs
      BY PcsAre
    <2> QED
      BY <2>1, <2>2 DEF WorkerType, Worker
  <1> QED
    BY <1>1, <1>2, <1>3, <1>4, <1>5, <1>6, <1>7, <1>8, <1>9, <1>10, <1>11, <1>12, <1>13,
       <1>14, <1>15, <1>16, <1>17, <1>18, <1>19, <1>20, <1>21, <1>22, <1>23, <1>24, <1>25 DEF Next, Works, Asks, Cancels, Single

(* A batch begins within the source; a resend has something to send. *)
LEMMA InBatchKept ==
  ASSUME InBatch, WorkerType, JobType, [Next]_vars
  PROVE  InBatch'
  <1>1. CASE \/ UNCHANGED vars
             \/ \E size \in Sizes : Edit(size)
             \/ \E s \in Seqs : Skip(s) \/ SingleBegin(s)
             \/ Start \/ RetryFailed \/ ResendFailed \/ CancelRead \/ CancelMark \/ CancelRemove \/ SingleSend
             \/ SingleRecord \/ SingleAfter \/ Stalled \/ LockLost \/ Boot
    <2>1. UNCHANGED worker
      BY <1>1 DEF vars, Edit, Skip, SingleBegin, Start, RetryFailed, ResendFailed,
                CancelRead, CancelMark, CancelRemove, SingleSend, SingleRecord, SingleAfter, Stalled, LockLost, Boot
    <2> QED
      BY <2>1 DEF InBatch
  <1>2. ASSUME NEW w \in Workers, Pick(w) PROVE InBatch'
    BY <1>2 DEF Pick, InBatch, WorkerType, Worker, Goes, Ends
  <1>3. ASSUME NEW w \in Workers, LoadSettled(w) PROVE InBatch'
    BY <1>3, OffType DEF LoadSettled, Ends, WorkerType, InBatch, Worker
  <1>4. ASSUME NEW w \in Workers, Load(w) PROVE InBatch'
    BY <1>4, OffType DEF Load, WorkerType, InBatch, Worker
  <1>5. ASSUME NEW w \in Workers, ReadTimeline(w) PROVE InBatch'
    BY <1>5 DEF ReadTimeline, InBatch, WorkerType, Worker, Goes, Ends
  <1>6. ASSUME NEW w \in Workers, Stopped(w) PROVE InBatch'
    BY <1>6, OffType DEF Stopped, Ends, WorkerType, InBatch, Worker
  <1>7. ASSUME NEW w \in Workers, Look(w) PROVE InBatch'
    <2>1. PICK seen, pc :
            /\ worker' = [worker EXCEPT ![w].seen = seen, ![w].out = Targets, ![w].pc = pc]
            /\ pc = IF worker[w].pos >= Rows THEN "streamed"
                    ELSE IF Settled(seen[Seq(w)]) THEN "cursor" ELSE "send"
      BY <1>7 DEF Look, Looks
    <2>2. worker[w].pos \in Nat
      BY DEF WorkerType, Worker
    <2> QED
      BY <2>1, <2>2, ReplayAssumption DEF WorkerType, Worker, InBatch
  <1>8. ASSUME NEW w \in Workers, Send(w) PROVE InBatch'
    <2>1. PICK out : worker' = [worker EXCEPT ![w].out = out, ![w].pc = "record"]
      BY <1>8 DEF Send
    <2> QED
      BY <1>8, <2>1 DEF Send, WorkerType, Worker, InBatch
  <1>9. ASSUME NEW w \in Workers, Record(w) PROVE InBatch'
    BY <1>9 DEF Record, InBatch, WorkerType, Worker, Goes, Ends
  <1>10. ASSUME NEW w \in Workers, Cursor(w) PROVE InBatch'
    BY <1>10 DEF Cursor, InBatch, WorkerType, Worker, Goes, Ends
  <1>11. ASSUME NEW w \in Workers, Finalize(w) PROVE InBatch'
    BY <1>11, OffType DEF Finalize, Ends, WorkerType, InBatch, Worker
  <1>12. ASSUME NEW w \in Workers, Detached(w) PROVE InBatch'
    BY <1>12, OffType DEF Detached, Ends, WorkerType, InBatch, Worker
  <1>13. ASSUME NEW w \in Workers, Resend(w) PROVE InBatch'
    <2>1. PICK out : worker' = [worker EXCEPT ![w].out = out, ![w].pc = "resendRecord"]
      BY <1>13 DEF Resend
    <2> QED
      BY <1>13, <2>1 DEF Resend, WorkerType, Worker, InBatch
  <1>14. ASSUME NEW w \in Workers, ResendRecord(w) PROVE InBatch'
    BY <1>14 DEF ResendRecord, InBatch, WorkerType, Worker, Goes, Ends
  <1>15. ASSUME NEW w \in Workers, ResendDone(w) PROVE InBatch'
    <2>1. CASE worker' = [worker EXCEPT ![w].pc = "mark", ![w].mode = "job",
                                        ![w].pos = job.cursor, ![w].size = config]
      BY <2>1 DEF WorkerType, Worker, InBatch
    <2>2. CASE Ends(w)
      BY <2>2, OffType DEF Ends, WorkerType, Worker, InBatch
    <2> QED
      BY <1>15, <2>1, <2>2 DEF ResendDone
  <1>16. ASSUME NEW w \in Workers, Finish(w) PROVE InBatch'
    BY <1>16, OffType DEF Finish, WorkerType, InBatch, Worker
  <1>17. ASSUME NEW w \in Workers, Drifted(w) PROVE InBatch'
    BY <1>17, OffType DEF Drifted, Ends, WorkerType, InBatch, Worker
  <1>18. ASSUME NEW w \in Workers, Throws(w) PROVE InBatch'
    BY <1>18, OffType DEF Throws, WorkerType, InBatch, Worker
  <1>19. ASSUME NEW w \in Workers, Fails(w) PROVE InBatch'
    BY <1>19, OffType DEF Fails, Ends, WorkerType, InBatch, Worker
  <1>20. ASSUME NEW w \in Workers, Crash(w) PROVE InBatch'
    BY <1>20, OffType DEF Crash, WorkerType, InBatch, Worker
  <1>21. ASSUME NEW w \in Workers, Shutdown(w) PROVE InBatch'
    BY <1>21 DEF Shutdown, InBatch, WorkerType, Worker, Goes, Ends
  <1>22. ASSUME CancelTell PROVE InBatch'
    <2>1. PICK told : worker' = [w \in Workers |-> [worker[w] EXCEPT !.heard = @ \/ w \in told]]
      BY <1>22 DEF CancelTell
    <2>2. \A w \in Workers : worker'[w].pc = worker[w].pc /\ worker'[w].pos = worker[w].pos /\ worker'[w].todo = worker[w].todo
      BY <2>1 DEF WorkerType, Worker
    <2> QED
      BY <2>2 DEF InBatch
  <1>23. ASSUME NEW w \in Workers, Mark(w) PROVE InBatch'
    BY <1>23 DEF Mark, InBatch, WorkerType, Worker, Goes
  <1> QED
    BY <1>1, <1>2, <1>3, <1>4, <1>5, <1>6, <1>7, <1>8, <1>9, <1>10, <1>11, <1>12, <1>13,
       <1>14, <1>15, <1>16, <1>17, <1>18, <1>19, <1>20, <1>21, <1>22, <1>23 DEF Next, Works, Asks, Cancels, Single

(* Types hold at the start... *)
LEMMA InitTypes == Init => Types
  <1> SUFFICES ASSUME Init PROVE Types
    OBVIOUS
  <1>1. NoCell \in Cell /\ NoEntry \in Entry
    BY DEF NoCell, Cell, NoEntry, Entry
  <1>2. NoSingle \in OneRetry
    BY ReplayAssumption DEF NoSingle, OneRetry, Statuses, Terminal, Resumable, Seqs, Positions
  <1>3. JobType
    BY ReplayAssumption DEF Init, JobType, Job, Statuses
  <1>4. TimelineType /\ EntryType /\ SingleType
    BY <1>1, <1>2, ReplayAssumption DEF Init, TimelineType, EntryType, SingleType
  <1>5. WorkerType /\ InBatch
    BY OffType DEF Init, WorkerType, InBatch
  <1> QED
    BY <1>3, <1>4, <1>5 DEF Types

(* ...and every step keeps them. *)
LEMMA StepTypes == Types /\ [Next]_vars => Types'
  BY JobTypeKept, TimelineTypeKept, EntryTypeKept, SingleTypeKept, WorkerTypeKept, InBatchKept DEF Types

(* Type correctness of the replay job: its row, its timeline, its queue entry,
   the workers (bridge-job.processor.ts). *)
THEOREM TypesKept == Spec => []TypeOK
  <1>1. Types => TypeOK
    BY DEF Types, TypeOK, JobType, Job, Statuses, TimelineType, EntryType, Entry, WorkerType, Worker,
           SingleType, OneRetry, InBatch, Pcs, Working, Reads, Resends
  <1>2. Types /\ UNCHANGED vars => Types'
    BY StepTypes
  <1> QED
    BY <1>1, InitTypes, StepTypes, PTL DEF Spec

-----------------------------------------------------------------------------
(* who is alone with the job, and what he knows *)

(* Targets are kept of failed deliveries only. *)
OkIfFailed == \A s \in Seqs : cells[s].ok # {} => cells[s].st = "failed"

(* Whoever is at the job and has not shared it is alone with it. *)
Alone ==
  \A w \in Workers : worker[w].pc \in Working /\ w \notin together =>
    /\ \A v \in Workers : v # w => worker[v].pc \notin Working
    /\ single.pc = "idle"

(* From batch n on, what the timeline says was sent the worker has seen. *)
KnownFrom(w, n) ==
  \A s \in Seqs : s >= n /\ cells[s].st \in {"success", "failed"} => worker[w].seen[s] = cells[s]

(* ...which, of one that is alone, holds from the batch it is at, and from the
   next once the batch is recorded; a worker that resends knows what is left
   to it as it is, failed *)
FreshFor(w) ==
  w \notin together =>
    /\ worker[w].pc = "look" /\ worker[w].pos < Rows => KnownFrom(w, Seq(w))
    /\ worker[w].pc \in {"send", "record"} => KnownFrom(w, Seq(w))
    /\ worker[w].pc = "cursor" => KnownFrom(w, Seq(w) + 1)
    /\ worker[w].pc = "send" => ~Settled(worker[w].seen[Seq(w)])
    /\ worker[w].pc \in Resends =>
         \A s \in worker[w].todo : worker[w].seen[s] = cells[s] /\ cells[s].st = "failed"

(* ...for every worker *)
Fresh == \A w \in Workers : FreshFor(w)

(* The retry of one delivery, if it has not shared the job, is alone with it,
   and knows the delivery as it is. *)
SingleAlone ==
  single.pc # "idle" /\ "single" \notin together =>
    /\ \A w \in Workers : worker[w].pc \notin Working
    /\ single.pc = "send" => cells[single.seq].st = "failed" /\ cells[single.seq].ok = single.ok

(* the inductive invariant behind NotWrittenAgain, with DoneInv below *)
AgainInv == Types /\ OkIfFailed /\ Alone /\ Fresh /\ SingleAlone

(* A step that begins no work with the job: whoever works was at it before, and
   who shared the job still has. *)
NobodyBegins ==
  /\ single' = single /\ ("single" \in together => "single" \in together')
  /\ \A v \in Workers : worker'[v].pc \in Working =>
       worker[v].pc \in Working /\ (v \in together => v \in together')

(* Targets are kept in recordDelivery, and dropped once all have committed. *)
LEMMA RecordedOk ==
  ASSUME NEW c, NEW rows, NEW ok
  PROVE  Recorded(c, rows, ok).ok # {} => Recorded(c, rows, ok).st = "failed"
  BY DEF Recorded

(* Every step keeps targets with failed deliveries only. *)
LEMMA OkIfFailedKept ==
  ASSUME OkIfFailed, TimelineType, [Next]_vars
  PROVE  OkIfFailed'
  <1>1. CASE \E w \in Workers : Pick(w) \/ LoadSettled(w) \/ Load(w) \/ Mark(w) \/ ReadTimeline(w)
                                    \/ Stopped(w) \/ Look(w) \/ Send(w) \/ Cursor(w)
                                    \/ Finalize(w) \/ Detached(w) \/ Resend(w)
                                    \/ ResendDone(w) \/ Finish(w) \/ Drifted(w) \/ Throws(w)
                                    \/ Fails(w) \/ Crash(w) \/ Shutdown(w)
    <2>1. UNCHANGED cells
      BY <1>1, ZenonT(60) DEF Pick, LoadSettled, Load, Mark, ReadTimeline, Stopped, Look, Send, Cursor, Finalize,
                Detached, Resend, ResendDone, Finish, Drifted, Throws, Fails, Crash,
                Shutdown
    <2> QED
      BY <2>1 DEF OkIfFailed
  <1>2. CASE \/ UNCHANGED vars
             \/ \E size \in Sizes : Edit(size)
             \/ \E s \in Seqs : SingleBegin(s)
             \/ Start \/ RetryFailed \/ ResendFailed \/ CancelRead \/ CancelMark \/ CancelTell \/ CancelRemove
             \/ SingleSend \/ SingleAfter \/ Stalled \/ LockLost \/ Boot
    <2>1. UNCHANGED cells
      BY <1>2 DEF vars, Edit, SingleBegin, Start, RetryFailed, ResendFailed, CancelRead,
                CancelMark, CancelTell, CancelRemove, SingleSend, SingleAfter, Stalled, LockLost, Boot
    <2> QED
      BY <2>1 DEF OkIfFailed
  <1>3. ASSUME NEW w \in Workers, Record(w) PROVE OkIfFailed'
    <2>1. PICK s, r : s = Seq(w) /\ r = Recorded(cells[s], Batch(w), worker[w].out)
      OBVIOUS
    <2>2. cells' = [cells EXCEPT ![s] = r]
      BY <1>3, <2>1 DEF Record
    <2>3. r.ok # {} => r.st = "failed"
      BY <2>1, RecordedOk
    <2> QED
      BY <2>2, <2>3 DEF OkIfFailed, TimelineType
  <1>4. ASSUME NEW w \in Workers, ResendRecord(w) PROVE OkIfFailed'
    <2>1. PICK s, r : s = Next1(worker[w].todo) /\ r = Recorded(cells[s], cells[s].rows, worker[w].out)
      OBVIOUS
    <2>2. cells' = [cells EXCEPT ![s] = r]
      BY <1>4, <2>1 DEF ResendRecord
    <2>3. r.ok # {} => r.st = "failed"
      BY <2>1, RecordedOk
    <2> QED
      BY <2>2, <2>3 DEF OkIfFailed, TimelineType
  <1>5. ASSUME NEW s \in Seqs, Skip(s) PROVE OkIfFailed'
    BY <1>5 DEF Skip, NoCell, OkIfFailed, TimelineType
  <1>6. ASSUME SingleRecord PROVE OkIfFailed'
    <2>1. PICK s, r : s = single.seq /\ r = Recorded(cells[s], cells[s].rows, single.out)
      OBVIOUS
    <2>2. cells' = [cells EXCEPT ![s] = r]
      BY <1>6, <2>1 DEF SingleRecord
    <2>3. r.ok # {} => r.st = "failed"
      BY <2>1, RecordedOk
    <2> QED
      BY <2>2, <2>3 DEF OkIfFailed, TimelineType
  <1> QED
    BY <1>1, <1>2, <1>3, <1>4, <1>5, <1>6 DEF Next, Works, Asks, Cancels, Single

(* What changes the timeline. *)
LEMMA TimelineSteps ==
  ASSUME [Next]_vars
  PROVE  \/ cells' = cells \/ SingleRecord \/ \E s \in Seqs : Skip(s)
         \/ \E w \in Workers : Record(w) \/ ResendRecord(w)
  <1>1. CASE \E w \in Workers : Pick(w) \/ LoadSettled(w) \/ Load(w) \/ Mark(w) \/ ReadTimeline(w)
                                    \/ Stopped(w) \/ Look(w) \/ Send(w) \/ Cursor(w)
                                    \/ Finalize(w) \/ Detached(w) \/ Resend(w)
                                    \/ ResendDone(w) \/ Finish(w) \/ Drifted(w) \/ Throws(w)
                                    \/ Fails(w) \/ Crash(w) \/ Shutdown(w)
    <2>1. UNCHANGED cells
      BY <1>1, ZenonT(60) DEF Pick, LoadSettled, Load, Mark, ReadTimeline, Stopped, Look, Send, Cursor, Finalize,
                Detached, Resend, ResendDone, Finish, Drifted, Throws, Fails, Crash,
                Shutdown
    <2> QED
      BY <2>1
  <1>2. CASE \/ UNCHANGED vars
             \/ \E size \in Sizes : Edit(size)
             \/ \E s \in Seqs : SingleBegin(s)
             \/ Start \/ RetryFailed \/ ResendFailed \/ CancelRead \/ CancelMark \/ CancelTell \/ CancelRemove
             \/ SingleSend \/ SingleAfter \/ Stalled \/ LockLost \/ Boot
    <2>1. UNCHANGED cells
      BY <1>2 DEF vars, Edit, SingleBegin, Start, RetryFailed, ResendFailed, CancelRead,
                CancelMark, CancelTell, CancelRemove, SingleSend, SingleAfter, Stalled, LockLost, Boot
    <2> QED
      BY <2>1
  <1>3. ASSUME NEW w \in Workers, Record(w) PROVE \/ cells' = cells \/ SingleRecord \/ \E i \in Seqs : Skip(i)
             \/ \E v \in Workers : Record(v) \/ ResendRecord(v)
    BY <1>3
  <1>4. ASSUME NEW w \in Workers, ResendRecord(w) PROVE \/ cells' = cells \/ SingleRecord \/ \E i \in Seqs : Skip(i)
             \/ \E v \in Workers : Record(v) \/ ResendRecord(v)
    BY <1>4
  <1>5. ASSUME NEW s \in Seqs, Skip(s) PROVE \/ cells' = cells \/ SingleRecord \/ \E i \in Seqs : Skip(i)
             \/ \E v \in Workers : Record(v) \/ ResendRecord(v)
    BY <1>5
  <1>6. ASSUME SingleRecord PROVE \/ cells' = cells \/ SingleRecord \/ \E i \in Seqs : Skip(i)
             \/ \E v \in Workers : Record(v) \/ ResendRecord(v)
    BY <1>6
  <1> QED
    BY <1>1, <1>2, <1>3, <1>4, <1>5, <1>6 DEF Next, Works, Asks, Cancels, Single

(* Nobody begins, and whoever goes on is in together if he was. *)
LEMMA AloneStep ==
  ASSUME Alone, single.pc = "idle" => single'.pc = "idle",
         \A v \in Workers : worker'[v].pc \in Working =>
           worker[v].pc \in Working /\ (v \in together => v \in together')
  PROVE  Alone'
  BY DEF Alone

(* A worker that is working is busy, and so is a retry of one delivery. *)
LEMMA WorkingBusy ==
  /\ \A w \in Workers : worker[w].pc \in Working => w \in Busy
  /\ single.pc # "idle" => "single" \in Busy
  BY DEF Busy, Working, Reads, Resends

(* The steps of a worker that are not the job's. *)
LEMMA NotWorking == {"idle", "load", "finish"} \intersect Working = {}
  BY DEF Working, Reads, Resends

(* Work with the job begins in Load and in SingleBegin only. *)
LEMMA WorkBegins ==
  ASSUME WorkerType, [Next]_vars
  PROVE  \/ NobodyBegins \/ SingleSend \/ SingleRecord \/ SingleAfter
         \/ \E w \in Workers : Load(w)
         \/ \E s \in Seqs : SingleBegin(s)
  <1>1. CASE \/ UNCHANGED vars
             \/ \E size \in Sizes : Edit(size)
             \/ \E s \in Seqs : Skip(s)
             \/ Start \/ RetryFailed \/ ResendFailed \/ CancelRead \/ CancelMark \/ CancelRemove \/ Stalled \/ LockLost
             \/ Boot
    <2>1. UNCHANGED <<worker, together, single>>
      BY <1>1 DEF vars, Edit, Skip, Start, RetryFailed, ResendFailed, CancelRead, CancelMark, CancelRemove, Stalled,
                LockLost, Boot
    <2> QED
      BY <2>1 DEF NobodyBegins
  <1>2. ASSUME NEW w \in Workers, Pick(w) PROVE NobodyBegins
    <2>1. single' = single /\ together' = together
      BY <1>2 DEF Pick
    <2>2. worker' = [worker EXCEPT ![w].pc = "load"]
      BY <1>2 DEF Pick
    <2>3. ASSUME NEW v \in Workers, worker'[v].pc \in Working PROVE worker[v].pc \in Working
      BY <2>2, <2>3, NotWorking DEF WorkerType, Worker
    <2> QED
      BY <2>1, <2>3 DEF NobodyBegins
  <1>3. ASSUME NEW w \in Workers, LoadSettled(w) PROVE NobodyBegins
    <2>1. single' = single /\ together' = together
      BY <1>3 DEF LoadSettled
    <2>2. worker' = [worker EXCEPT ![w] = [Off EXCEPT !.pc = "finish"]]
      BY <1>3 DEF LoadSettled, Ends
    <2>3. ASSUME NEW v \in Workers, worker'[v].pc \in Working PROVE worker[v].pc \in Working
      BY <2>2, <2>3, NotWorking DEF Off, WorkerType
    <2> QED
      BY <2>1, <2>3 DEF NobodyBegins
  <1>4. ASSUME NEW w \in Workers, ReadTimeline(w) PROVE NobodyBegins
    <2>1. single' = single /\ together' = together /\ worker[w].pc = "read"
      BY <1>4 DEF ReadTimeline, Looks
    <2>2. ASSUME NEW v \in Workers, v # w PROVE worker'[v] = worker[v]
      BY <1>4, <2>2 DEF ReadTimeline, Goes, Ends, Looks, WorkerType
    <2>3. ASSUME NEW v \in Workers, worker'[v].pc \in Working PROVE worker[v].pc \in Working
      BY <2>1, <2>2, <2>3 DEF Working, Reads, Resends
    <2> QED
      BY <2>1, <2>3 DEF NobodyBegins
  <1>5. ASSUME NEW w \in Workers, Stopped(w) PROVE NobodyBegins
    <2>1. single' = single /\ together' = together
      BY <1>5 DEF Stopped
    <2>2. worker' = [worker EXCEPT ![w] = [Off EXCEPT !.pc = "finish"]]
      BY <1>5 DEF Stopped, Ends
    <2>3. ASSUME NEW v \in Workers, worker'[v].pc \in Working PROVE worker[v].pc \in Working
      BY <2>2, <2>3, NotWorking DEF Off, WorkerType
    <2> QED
      BY <2>1, <2>3 DEF NobodyBegins
  <1>6. ASSUME NEW w \in Workers, Look(w) PROVE NobodyBegins
    <2>1. single' = single /\ together' = together /\ worker[w].pc = "look"
      BY <1>6 DEF Look, Looks
    <2>2. ASSUME NEW v \in Workers, v # w PROVE worker'[v] = worker[v]
      BY <1>6, <2>2 DEF Look, Goes, Ends, Looks, WorkerType
    <2>3. ASSUME NEW v \in Workers, worker'[v].pc \in Working PROVE worker[v].pc \in Working
      BY <2>1, <2>2, <2>3 DEF Working, Reads, Resends
    <2> QED
      BY <2>1, <2>3 DEF NobodyBegins
  <1>7. ASSUME NEW w \in Workers, Send(w) PROVE NobodyBegins
    <2>1. single' = single /\ together' = together /\ worker[w].pc = "send"
      BY <1>7 DEF Send, Looks
    <2>2. ASSUME NEW v \in Workers, v # w PROVE worker'[v] = worker[v]
      BY <1>7, <2>2 DEF Send, Goes, Ends, Looks, WorkerType
    <2>3. ASSUME NEW v \in Workers, worker'[v].pc \in Working PROVE worker[v].pc \in Working
      BY <2>1, <2>2, <2>3 DEF Working, Reads, Resends
    <2> QED
      BY <2>1, <2>3 DEF NobodyBegins
  <1>8. ASSUME NEW w \in Workers, Record(w) PROVE NobodyBegins
    <2>1. single' = single /\ together' = together /\ worker[w].pc = "record"
      BY <1>8 DEF Record, Looks
    <2>2. ASSUME NEW v \in Workers, v # w PROVE worker'[v] = worker[v]
      BY <1>8, <2>2 DEF Record, Goes, Ends, Looks, WorkerType
    <2>3. ASSUME NEW v \in Workers, worker'[v].pc \in Working PROVE worker[v].pc \in Working
      BY <2>1, <2>2, <2>3 DEF Working, Reads, Resends
    <2> QED
      BY <2>1, <2>3 DEF NobodyBegins
  <1>9. ASSUME NEW w \in Workers, Cursor(w) PROVE NobodyBegins
    <2>1. single' = single /\ together' = together /\ worker[w].pc = "cursor"
      BY <1>9 DEF Cursor, Looks
    <2>2. ASSUME NEW v \in Workers, v # w PROVE worker'[v] = worker[v]
      BY <1>9, <2>2 DEF Cursor, Goes, Ends, Looks, WorkerType
    <2>3. ASSUME NEW v \in Workers, worker'[v].pc \in Working PROVE worker[v].pc \in Working
      BY <2>1, <2>2, <2>3 DEF Working, Reads, Resends
    <2> QED
      BY <2>1, <2>3 DEF NobodyBegins
  <1>10. ASSUME NEW w \in Workers, Finalize(w) PROVE NobodyBegins
    <2>1. single' = single /\ together' = together
      BY <1>10 DEF Finalize
    <2>2. worker' = [worker EXCEPT ![w] = [Off EXCEPT !.pc = "finish"]]
      BY <1>10 DEF Finalize, Ends
    <2>3. ASSUME NEW v \in Workers, worker'[v].pc \in Working PROVE worker[v].pc \in Working
      BY <2>2, <2>3, NotWorking DEF Off, WorkerType
    <2> QED
      BY <2>1, <2>3 DEF NobodyBegins
  <1>11. ASSUME NEW w \in Workers, Detached(w) PROVE NobodyBegins
    <2>1. single' = single /\ together' = together
      BY <1>11 DEF Detached
    <2>2. worker' = [worker EXCEPT ![w] = [Off EXCEPT !.pc = "finish"]]
      BY <1>11 DEF Detached, Ends
    <2>3. ASSUME NEW v \in Workers, worker'[v].pc \in Working PROVE worker[v].pc \in Working
      BY <2>2, <2>3, NotWorking DEF Off, WorkerType
    <2> QED
      BY <2>1, <2>3 DEF NobodyBegins
  <1>12. ASSUME NEW w \in Workers, Resend(w) PROVE NobodyBegins
    <2>1. single' = single /\ together' = together /\ worker[w].pc = "resend"
      BY <1>12 DEF Resend, Looks
    <2>2. ASSUME NEW v \in Workers, v # w PROVE worker'[v] = worker[v]
      BY <1>12, <2>2 DEF Resend, Goes, Ends, Looks, WorkerType
    <2>3. ASSUME NEW v \in Workers, worker'[v].pc \in Working PROVE worker[v].pc \in Working
      BY <2>1, <2>2, <2>3 DEF Working, Reads, Resends
    <2> QED
      BY <2>1, <2>3 DEF NobodyBegins
  <1>13. ASSUME NEW w \in Workers, ResendRecord(w) PROVE NobodyBegins
    <2>1. single' = single /\ together' = together /\ worker[w].pc = "resendRecord"
      BY <1>13 DEF ResendRecord, Looks
    <2>2. ASSUME NEW v \in Workers, v # w PROVE worker'[v] = worker[v]
      BY <1>13, <2>2 DEF ResendRecord, Goes, Ends, Looks, WorkerType
    <2>3. ASSUME NEW v \in Workers, worker'[v].pc \in Working PROVE worker[v].pc \in Working
      BY <2>1, <2>2, <2>3 DEF Working, Reads, Resends
    <2> QED
      BY <2>1, <2>3 DEF NobodyBegins
  <1>14. ASSUME NEW w \in Workers, ResendDone(w) PROVE NobodyBegins
    <2>1. single' = single /\ together' = together /\ worker[w].pc = "resend"
      BY <1>14 DEF ResendDone, Looks
    <2>2. ASSUME NEW v \in Workers, v # w PROVE worker'[v] = worker[v]
      BY <1>14, <2>2 DEF ResendDone, Goes, Ends, Looks, WorkerType
    <2>3. ASSUME NEW v \in Workers, worker'[v].pc \in Working PROVE worker[v].pc \in Working
      BY <2>1, <2>2, <2>3 DEF Working, Reads, Resends
    <2> QED
      BY <2>1, <2>3 DEF NobodyBegins
  <1>15. ASSUME NEW w \in Workers, Finish(w) PROVE NobodyBegins
    <2>1. single' = single /\ together' = together \ {w}
      BY <1>15 DEF Finish, Leaves
    <2>2. worker' = [worker EXCEPT ![w] = Off]
      BY <1>15 DEF Finish
    <2>3. ASSUME NEW v \in Workers, worker'[v].pc \in Working PROVE worker[v].pc \in Working /\ v # w
      BY <2>2, <2>3, NotWorking DEF Off, WorkerType
    <2> QED
      BY <2>1, <2>3, ReplayAssumption DEF NobodyBegins
  <1>16. ASSUME NEW w \in Workers, Drifted(w) PROVE NobodyBegins
    <2>1. single' = single /\ together' = together
      BY <1>16 DEF Drifted
    <2>2. worker' = [worker EXCEPT ![w] = [Off EXCEPT !.pc = "finish"]]
      BY <1>16 DEF Drifted, Ends
    <2>3. ASSUME NEW v \in Workers, worker'[v].pc \in Working PROVE worker[v].pc \in Working
      BY <2>2, <2>3, NotWorking DEF Off, WorkerType
    <2> QED
      BY <2>1, <2>3 DEF NobodyBegins
  <1>17. ASSUME NEW w \in Workers, Throws(w) PROVE NobodyBegins
    <2>1. single' = single /\ together' = together \ {w}
      BY <1>17 DEF Throws, Leaves
    <2>2. worker' = [worker EXCEPT ![w] = Off]
      BY <1>17 DEF Throws
    <2>3. ASSUME NEW v \in Workers, worker'[v].pc \in Working PROVE worker[v].pc \in Working /\ v # w
      BY <2>2, <2>3, NotWorking DEF Off, WorkerType
    <2> QED
      BY <2>1, <2>3, ReplayAssumption DEF NobodyBegins
  <1>18. ASSUME NEW w \in Workers, Fails(w) PROVE NobodyBegins
    <2>1. single' = single /\ together' = together
      BY <1>18 DEF Fails
    <2>2. worker' = [worker EXCEPT ![w] = [Off EXCEPT !.pc = "finish"]]
      BY <1>18 DEF Fails, Ends
    <2>3. ASSUME NEW v \in Workers, worker'[v].pc \in Working PROVE worker[v].pc \in Working
      BY <2>2, <2>3, NotWorking DEF Off, WorkerType
    <2> QED
      BY <2>1, <2>3 DEF NobodyBegins
  <1>19. ASSUME NEW w \in Workers, Crash(w) PROVE NobodyBegins
    <2>1. single' = single /\ together' = together \ {w}
      BY <1>19 DEF Crash, Leaves
    <2>2. worker' = [worker EXCEPT ![w] = Off]
      BY <1>19 DEF Crash
    <2>3. ASSUME NEW v \in Workers, worker'[v].pc \in Working PROVE worker[v].pc \in Working /\ v # w
      BY <2>2, <2>3, NotWorking DEF Off, WorkerType
    <2> QED
      BY <2>1, <2>3, ReplayAssumption DEF NobodyBegins
  <1>20. ASSUME NEW w \in Workers, Shutdown(w) PROVE NobodyBegins
    <2>1. single' = single /\ together' = together
      BY <1>20 DEF Shutdown
    <2>2. worker' = [worker EXCEPT ![w].heard = TRUE]
      BY <1>20 DEF Shutdown
    <2>3. ASSUME NEW v \in Workers, worker'[v].pc \in Working PROVE worker[v].pc \in Working
      BY <2>2, <2>3 DEF WorkerType, Worker
    <2> QED
      BY <2>1, <2>3 DEF NobodyBegins
  <1>21. ASSUME CancelTell PROVE NobodyBegins
    <2>1. single' = single /\ together' = together
      BY <1>21 DEF CancelTell
    <2>2. ASSUME NEW v \in Workers PROVE worker'[v].pc = worker[v].pc
      BY <1>21 DEF CancelTell, WorkerType, Worker
    <2> QED
      BY <2>1, <2>2 DEF NobodyBegins
  <1>22. ASSUME NEW w \in Workers, Mark(w) PROVE NobodyBegins
    <2>1. single' = single /\ together' = together /\ worker[w].pc = "mark"
      BY <1>22 DEF Mark
    <2>2. ASSUME NEW v \in Workers, v # w PROVE worker'[v] = worker[v]
      BY <1>22, <2>2 DEF Mark, Goes, WorkerType
    <2>3. ASSUME NEW v \in Workers, worker'[v].pc \in Working PROVE worker[v].pc \in Working
      BY <2>1, <2>2, <2>3 DEF Working, Reads, Resends
    <2> QED
      BY <2>1, <2>3 DEF NobodyBegins
  <1> QED
    BY <1>1, <1>2, <1>3, <1>4, <1>5, <1>6, <1>7, <1>8, <1>9, <1>10, <1>11, <1>12, <1>13,
       <1>14, <1>15, <1>16, <1>17, <1>18, <1>19, <1>20, <1>21, <1>22 DEF Next, Works, Asks,
       Cancels, Single

(* Every step keeps whoever is alone with the job alone. *)
LEMMA AloneKept ==
  ASSUME Alone, WorkerType, [Next]_vars
  PROVE  Alone'
  <1>1. CASE NobodyBegins
    BY <1>1, AloneStep DEF NobodyBegins
  <1>2. ASSUME NEW w \in Workers, Load(w) PROVE Alone'
    <2>1. single' = single /\ \A v \in Workers : v # w => worker'[v] = worker[v]
      BY <1>2 DEF Load, WorkerType
    <2>2. CASE Busy \subseteq {w}
      <3>1. together' = together
        BY <1>2, <2>2 DEF Load, Joins
      <3>2. single.pc = "idle" /\ \A v \in Workers : v # w => worker[v].pc \notin Working
        BY <2>2, WorkingBusy, ReplayAssumption
      <3> QED
        BY <2>1, <3>1, <3>2 DEF Alone
    <2>3. CASE ~(Busy \subseteq {w})
      <3>1. together' = together \union Busy \union {w}
        BY <1>2, <2>3 DEF Load, Joins
      <3>2. ASSUME NEW v \in Workers, worker'[v].pc \in Working PROVE v \in together'
        BY <2>1, <3>1, <3>2, WorkingBusy
      <3> QED
        BY <3>2 DEF Alone
    <2> QED
      BY <2>2, <2>3
  <1>3. ASSUME NEW s \in Seqs, SingleBegin(s) PROVE Alone'
    <2>1. worker' = worker
      BY <1>3 DEF SingleBegin
    <2>2. CASE Busy \subseteq {"single"}
      <3>1. \A v \in Workers : worker[v].pc \notin Working
        BY <2>2, WorkingBusy, ReplayAssumption
      <3> QED
        BY <2>1, <3>1 DEF Alone
    <2>3. CASE ~(Busy \subseteq {"single"})
      <3>1. together' = together \union Busy \union {"single"}
        BY <1>3, <2>3 DEF SingleBegin, Joins
      <3>2. ASSUME NEW v \in Workers, worker'[v].pc \in Working PROVE v \in together'
        BY <2>1, <3>1, <3>2, WorkingBusy
      <3> QED
        BY <3>2 DEF Alone
    <2> QED
      BY <2>2, <2>3
  <1>4. ASSUME SingleSend PROVE Alone'
    <2>1. UNCHANGED <<worker, together>> /\ single.pc # "idle"
      BY <1>4 DEF SingleSend
    <2> QED
      BY <2>1, AloneStep
  <1>5. ASSUME SingleRecord PROVE Alone'
    <2>1. UNCHANGED <<worker, together>> /\ single.pc # "idle"
      BY <1>5 DEF SingleRecord
    <2> QED
      BY <2>1, AloneStep
  <1>6. ASSUME SingleAfter PROVE Alone'
    <2>1. worker' = worker /\ together' = together \ {"single"} /\ single'.pc = "idle"
      BY <1>6 DEF SingleAfter, Leaves, NoSingle
    <2>2. \A v \in Workers : v \in together => v \in together'
      BY <2>1, ReplayAssumption
    <2> QED
      BY <2>1, <2>2, AloneStep
  <1> QED
    BY <1>1, <1>2, <1>3, <1>4, <1>5, <1>6, WorkBegins

(* Every step keeps a retry that is alone with the job alone, and up to date. *)
LEMMA SingleAloneKept ==
  ASSUME SingleAlone, WorkerType, TimelineType, SingleType, [Next]_vars
  PROVE  SingleAlone'
  <1>0. single.seq \in Seqs
    BY DEF SingleType, OneRetry
  <1>1. CASE NobodyBegins
    <2> SUFFICES ASSUME single.pc # "idle", "single" \notin together'
                 PROVE  SingleAlone'
      BY <1>1 DEF NobodyBegins, SingleAlone
    <2>1. /\ single' = single /\ "single" \notin together
          /\ \A v \in Workers : worker[v].pc \notin Working /\ worker'[v].pc \notin Working
          /\ single.pc = "send" => cells[single.seq].st = "failed" /\ cells[single.seq].ok = single.ok
      BY <1>1 DEF NobodyBegins, SingleAlone
    <2>2. single.pc = "send" => cells'[single.seq] = cells[single.seq]
      <3>1. CASE cells' = cells
        BY <3>1
      <3>2. ASSUME NEW w \in Workers, Record(w) \/ ResendRecord(w) PROVE FALSE
        BY <2>1, <3>2 DEF Record, ResendRecord, Working, Reads, Resends
      <3>3. CASE SingleRecord
        BY <3>3 DEF SingleRecord
      <3>4. ASSUME NEW s \in Seqs, Skip(s), single.pc = "send" PROVE cells'[single.seq] = cells[single.seq]
        <4>1. s # single.seq
          BY <2>1, <3>4 DEF Skip
        <4> QED
          BY <3>4, <4>1, <1>0 DEF Skip, TimelineType
      <3> QED
        BY <3>1, <3>2, <3>3, <3>4, TimelineSteps
    <2> QED
      BY <2>1, <2>2 DEF SingleAlone
  <1>2. CASE SingleSend
    <2>1. single.pc = "send" /\ single'.pc = "record" /\ UNCHANGED <<worker, together>>
      BY <1>2 DEF SingleSend, SingleType, OneRetry
    <2> QED
      BY <2>1 DEF SingleAlone
  <1>3. CASE SingleRecord
    <2>1. single.pc = "record" /\ single'.pc = "after" /\ UNCHANGED <<worker, together>>
      BY <1>3 DEF SingleRecord, SingleType, OneRetry
    <2> QED
      BY <2>1 DEF SingleAlone
  <1>4. CASE SingleAfter
    BY <1>4 DEF SingleAfter, NoSingle, SingleAlone
  <1>5. ASSUME NEW w \in Workers, Load(w) PROVE SingleAlone'
    <2>1. single' = single /\ (single.pc # "idle" => "single" \in Busy)
      BY <1>5, WorkingBusy DEF Load
    <2>2. single.pc # "idle" => "single" \in together'
      BY <1>5, <2>1, ReplayAssumption DEF Load, Joins
    <2> QED
      BY <2>1, <2>2 DEF SingleAlone
  <1>6. ASSUME NEW s \in Seqs, SingleBegin(s) PROVE SingleAlone'
    <2>1. UNCHANGED <<worker, cells>> /\ cells[s].st = "failed"
          /\ single'.seq = s /\ single'.ok = cells[s].ok
      BY <1>6 DEF SingleBegin
    <2>2. "single" \notin together' => \A v \in Workers : worker[v].pc \notin Working
      <3>1. "single" \notin together' => Busy \subseteq {"single"}
        BY <1>6 DEF SingleBegin, Joins
      <3> QED
        BY <3>1, WorkingBusy, ReplayAssumption
    <2> QED
      BY <2>1, <2>2 DEF SingleAlone
  <1> QED
    BY <1>1, <1>2, <1>3, <1>4, <1>5, <1>6, WorkBegins

(* What is settled or sent of a batch, the worker that looks at it knows. *)
LEMMA FreshFrame ==
  ASSUME NEW w \in Workers, FreshFor(w), w \notin together' => w \notin together, cells' = cells,
         worker'[w].pc \in {"look", "send", "record", "cursor"} \union Resends =>
           /\ worker'[w].pc = worker[w].pc /\ worker'[w].pos = worker[w].pos
           /\ worker'[w].size = worker[w].size /\ worker'[w].seen = worker[w].seen
           /\ worker'[w].todo = worker[w].todo
  PROVE  FreshFor(w)'
  BY DEF FreshFor, KnownFrom, Seq

(* The worker that is alone does not lose sight of the timeline. *)
LEMMA OthersFresh ==
  ASSUME Alone, NEW w \in Workers, FreshFor(w), w \notin together' => w \notin together,
         worker'[w] = worker[w],
         \/ cells' = cells \/ single.pc # "idle"
         \/ \E v \in Workers : v # w /\ worker[v].pc \in Working
  PROVE  FreshFor(w)'
  <1>1. CASE cells' = cells
    BY <1>1, FreshFrame
  <1>2. CASE w \in together \/ worker[w].pc \notin Working
    BY <1>2 DEF FreshFor, Working, Reads
  <1>3. CASE cells' # cells /\ w \notin together /\ worker[w].pc \in Working
    BY <1>3 DEF Alone
  <1> QED
    BY <1>1, <1>2, <1>3

(* Every step keeps what whoever is alone knows of the batches to come. *)
LEMMA FreshKept ==
  ASSUME Alone, Fresh, WorkerType, TimelineType, [Next]_vars
  PROVE  Fresh'
  <1>1. CASE \/ UNCHANGED vars
             \/ \E size \in Sizes : Edit(size)
             \/ Start \/ RetryFailed \/ ResendFailed \/ CancelRead \/ CancelMark \/ CancelRemove \/ SingleSend
             \/ Stalled \/ LockLost \/ Boot
    <2>1. UNCHANGED <<worker, together, cells>>
      BY <1>1 DEF vars, Edit, Start, RetryFailed, ResendFailed, CancelRead, CancelMark, CancelRemove, SingleSend,
                Stalled, LockLost, Boot
    <2> QED
      BY <2>1 DEF Fresh, FreshFor, KnownFrom, Seq
  <1>2. ASSUME NEW w \in Workers, Pick(w) PROVE Fresh'
    <2> SUFFICES ASSUME NEW v \in Workers PROVE FreshFor(v)'
      BY DEF Fresh
    <2>1. FreshFor(v)
      BY DEF Fresh
    <2>2. CASE v # w
      <3>1. worker'[v] = worker[v] /\ (v \in together => v \in together')
        BY <1>2, <2>2 DEF Pick, WorkerType
      <3>2. cells' = cells
        BY <1>2 DEF Pick
      <3> QED
        BY <2>1, <2>2, <3>1, <3>2, OthersFresh
    <2>3. CASE v = w
      <3>1. worker'[w].pc \notin {"look", "send", "record", "cursor"} \union Resends
        BY <1>2 DEF Resends, Pick, WorkerType, Worker
      <3> QED
        BY <2>3, <3>1 DEF FreshFor
    <2> QED
      BY <2>2, <2>3
  <1>3. ASSUME NEW w \in Workers, LoadSettled(w) PROVE Fresh'
    <2> SUFFICES ASSUME NEW v \in Workers PROVE FreshFor(v)'
      BY DEF Fresh
    <2>1. FreshFor(v)
      BY DEF Fresh
    <2>2. CASE v # w
      <3>1. worker'[v] = worker[v] /\ (v \in together => v \in together')
        BY <1>3, <2>2 DEF LoadSettled, Ends, WorkerType
      <3>2. cells' = cells
        BY <1>3 DEF LoadSettled
      <3> QED
        BY <2>1, <2>2, <3>1, <3>2, OthersFresh
    <2>3. CASE v = w
      <3>1. worker'[w].pc \notin {"look", "send", "record", "cursor"} \union Resends
        BY <1>3 DEF Resends, LoadSettled, Ends, Off, WorkerType, Worker
      <3> QED
        BY <2>3, <3>1 DEF FreshFor
    <2> QED
      BY <2>2, <2>3
  <1>4. ASSUME NEW w \in Workers, Load(w) PROVE Fresh'
    <2> SUFFICES ASSUME NEW v \in Workers PROVE FreshFor(v)'
      BY DEF Fresh
    <2>1. FreshFor(v)
      BY DEF Fresh
    <2>2. CASE v # w
      <3>1. worker'[v] = worker[v] /\ (v \in together => v \in together')
        BY <1>4, <2>2 DEF Load, Joins, WorkerType
      <3>2. cells' = cells
        BY <1>4 DEF Load
      <3> QED
        BY <2>1, <2>2, <3>1, <3>2, OthersFresh
    <2>3. CASE v = w
      <3>1. worker'[w].pc \notin {"look", "send", "record", "cursor"} \union Resends
        BY <1>4 DEF Resends, Load, Off, WorkerType, Worker
      <3> QED
        BY <2>3, <3>1 DEF FreshFor
    <2> QED
      BY <2>2, <2>3
  <1>5. ASSUME NEW w \in Workers, ReadTimeline(w) PROVE Fresh'
    <2> SUFFICES ASSUME NEW v \in Workers PROVE FreshFor(v)'
      BY DEF Fresh
    <2>1. FreshFor(v)
      BY DEF Fresh
    <2>2. CASE v # w
      <3>1. worker'[v] = worker[v] /\ (v \in together => v \in together')
        BY <1>5, <2>2 DEF ReadTimeline, WorkerType
      <3>2. cells' = cells
        BY <1>5 DEF ReadTimeline
      <3> QED
        BY <2>1, <2>2, <3>1, <3>2, OthersFresh
    <2>3. CASE v = w
      <3>1. /\ worker'[w].seen = cells /\ cells' = cells /\ worker'[w].pc \in {"look", "resend"}
            /\ worker'[w].todo \subseteq FailedSeqs
        BY <1>5 DEF ReadTimeline, WorkerType, Worker
      <3> QED
        BY <2>3, <3>1 DEF FreshFor, KnownFrom, FailedSeqs
    <2> QED
      BY <2>2, <2>3
  <1>6. ASSUME NEW w \in Workers, Stopped(w) PROVE Fresh'
    <2> SUFFICES ASSUME NEW v \in Workers PROVE FreshFor(v)'
      BY DEF Fresh
    <2>1. FreshFor(v)
      BY DEF Fresh
    <2>2. CASE v # w
      <3>1. worker'[v] = worker[v] /\ (v \in together => v \in together')
        BY <1>6, <2>2 DEF Stopped, Ends, WorkerType
      <3>2. cells' = cells
        BY <1>6 DEF Stopped
      <3> QED
        BY <2>1, <2>2, <3>1, <3>2, OthersFresh
    <2>3. CASE v = w
      <3>1. worker'[w].pc \notin {"look", "send", "record", "cursor"} \union Resends
        BY <1>6 DEF Resends, Stopped, Ends, Off, WorkerType, Worker
      <3> QED
        BY <2>3, <3>1 DEF FreshFor
    <2> QED
      BY <2>2, <2>3
  <1>7. ASSUME NEW w \in Workers, Look(w) PROVE Fresh'
    <2> SUFFICES ASSUME NEW v \in Workers PROVE FreshFor(v)'
      BY DEF Fresh
    <2>1. FreshFor(v)
      BY DEF Fresh
    <2>2. CASE v # w
      <3>1. worker'[v] = worker[v] /\ (v \in together => v \in together')
        BY <1>7, <2>2 DEF Look, Looks, WorkerType
      <3>2. cells' = cells
        BY <1>7 DEF Look
      <3> QED
        BY <2>1, <2>2, <3>1, <3>2, OthersFresh
    <2>3. CASE v = w
      <3>1. PICK seen \in NowSeen(w) :
              worker' = [worker EXCEPT ![w].seen = seen, ![w].out = Targets,
                                       ![w].pc = IF worker[w].pos >= Rows THEN "streamed"
                                                 ELSE IF Settled(seen[Seq(w)]) THEN "cursor" ELSE "send"]
        BY <1>7 DEF Look, Looks
      <3>2. UNCHANGED <<cells, together>> /\ worker[w].pc = "look" /\ worker[w].pos \in Nat
        BY <1>7 DEF Look, Looks, WorkerType, Worker
      <3>3. /\ worker'[w].seen = seen /\ worker'[w].pos = worker[w].pos /\ worker'[w].size = worker[w].size
            /\ worker'[w].pc = IF worker[w].pos >= Rows THEN "streamed"
                               ELSE IF Settled(seen[Seq(w)]) THEN "cursor" ELSE "send"
        BY <3>1 DEF WorkerType, Worker
      <3>4. CASE worker[w].pos >= Rows
        BY <2>3, <3>3, <3>4 DEF FreshFor, Resends
      <3>5. CASE worker[w].pos < Rows /\ w \notin together
        <4>1. KnownFrom(w, Seq(w))
          BY <2>1, <2>3, <3>2, <3>5 DEF FreshFor
        <4>2. ASSUME NEW s \in Seqs, cells[s].st \in {"success", "failed"} PROVE seen[s] = worker[w].seen[s]
          BY <4>2 DEF NowSeen
        <4>3. KnownFrom(w, Seq(w))' /\ Seq(w)' = Seq(w)
          BY <3>2, <3>3, <4>1, <4>2 DEF KnownFrom, Seq
        <4>4. Seq(w) \in Nat
          BY NextSeq DEF Seq, WorkerType, Worker
        <4>5. KnownFrom(w, Seq(w) + 1)'
          <5>1. \A s \in Seqs : s \in Nat
            BY ReplayAssumption DEF Seqs, Positions
          <5> QED
            BY <4>3, <4>4, <5>1 DEF KnownFrom
        <4>6. worker'[w].pc = "send" => ~Settled(worker'[w].seen[Seq(w)])
          BY <3>3, <3>5
        <4> QED
          BY <2>3, <3>3, <3>5, <4>3, <4>5, <4>6 DEF FreshFor, Resends
      <3> QED
        BY <2>3, <3>2, <3>4, <3>5, ReplayAssumption DEF FreshFor
    <2> QED
      BY <2>2, <2>3
  <1>8. ASSUME NEW w \in Workers, Send(w) PROVE Fresh'
    <2> SUFFICES ASSUME NEW v \in Workers PROVE FreshFor(v)'
      BY DEF Fresh
    <2>1. FreshFor(v)
      BY DEF Fresh
    <2>2. CASE v # w
      <3>1. worker'[v] = worker[v] /\ (v \in together => v \in together')
        BY <1>8, <2>2 DEF Send, WorkerType
      <3>2. cells' = cells
        BY <1>8 DEF Send
      <3> QED
        BY <2>1, <2>2, <3>1, <3>2, OthersFresh
    <2>3. CASE v = w
      <3>1. PICK out : worker' = [worker EXCEPT ![w].out = out, ![w].pc = "record"]
        BY <1>8 DEF Send
      <3>2. UNCHANGED <<cells, together>> /\ worker[w].pc = "send"
        BY <1>8 DEF Send
      <3>3. /\ worker'[w].pc = "record" /\ worker'[w].pos = worker[w].pos
            /\ worker'[w].size = worker[w].size /\ worker'[w].seen = worker[w].seen
        BY <3>1 DEF WorkerType, Worker
      <3> QED
        BY <2>1, <2>3, <3>2, <3>3 DEF FreshFor, KnownFrom, Seq, Resends
    <2> QED
      BY <2>2, <2>3
  <1>9. ASSUME NEW w \in Workers, Record(w) PROVE Fresh'
    <2> SUFFICES ASSUME NEW v \in Workers PROVE FreshFor(v)'
      BY DEF Fresh
    <2>1. FreshFor(v)
      BY DEF Fresh
    <2>2. CASE v # w
      <3>1. worker'[v] = worker[v] /\ (v \in together => v \in together')
        BY <1>9, <2>2 DEF Record, Goes, WorkerType
      <3>2. cells' = cells \/ worker[w].pc \in Working
        BY <1>9 DEF Record, Working, Reads, Resends
      <3> QED
        BY <2>1, <2>2, <3>1, <3>2, OthersFresh
    <2>3. CASE v = w
      <3>1. /\ worker[w].pc = "record" /\ together' = together
            /\ worker'[w].pc = "cursor" /\ worker'[w].pos = worker[w].pos
            /\ worker'[w].size = worker[w].size /\ worker'[w].seen = worker[w].seen
        BY <1>9 DEF Record, Goes, WorkerType, Worker
      <3>2. \A s \in Seqs : s # Seq(w) => cells'[s] = cells[s]
        BY <1>9 DEF Record, TimelineType
      <3>3. Seq(w) \in Nat /\ \A s \in Seqs : s \in Nat
        <4>1. worker[w].pos \in Nat /\ worker[w].size \in Nat \ {0}
          BY ReplayAssumption DEF WorkerType, Worker
        <4>2. Seq(w) \in Nat
          BY <4>1, NextSeq DEF Seq
        <4> QED
          BY <4>2, ReplayAssumption DEF Seqs, Positions
      <3>4. KnownFrom(w, Seq(w)) => KnownFrom(w, Seq(w) + 1)'
        BY <3>1, <3>2, <3>3 DEF KnownFrom, Seq
      <3>5. Seq(w)' = Seq(w)
        BY <3>1 DEF Seq
      <3> QED
        BY <2>1, <2>3, <3>1, <3>4, <3>5 DEF FreshFor, Resends
    <2> QED
      BY <2>2, <2>3
  <1>10. ASSUME NEW w \in Workers, Cursor(w) PROVE Fresh'
    <2> SUFFICES ASSUME NEW v \in Workers PROVE FreshFor(v)'
      BY DEF Fresh
    <2>1. FreshFor(v)
      BY DEF Fresh
    <2>2. CASE v # w
      <3>1. worker'[v] = worker[v] /\ (v \in together => v \in together')
        BY <1>10, <2>2 DEF Cursor, WorkerType
      <3>2. cells' = cells
        BY <1>10 DEF Cursor
      <3> QED
        BY <2>1, <2>2, <3>1, <3>2, OthersFresh
    <2>3. CASE v = w
      <3>1. PICK pos :
              pos = IF worker[w].pos + worker[w].size <= Rows THEN worker[w].pos + worker[w].size ELSE Rows
        OBVIOUS
      <3>2. PICK pc \in {"stop", "look"} :
              worker' = [worker EXCEPT ![w].pos = pos, ![w].out = {}, ![w].pc = pc]
        BY <1>10, <3>1 DEF Cursor
      <3>3. /\ worker'[w].pc = pc /\ worker'[w].pos = pos
            /\ worker'[w].size = worker[w].size /\ worker'[w].seen = worker[w].seen
        BY <3>2 DEF WorkerType, Worker
      <3>4. UNCHANGED <<cells, together>> /\ worker[w].pc = "cursor"
        BY <1>10 DEF Cursor
      <3>5. ASSUME pos < Rows PROVE Seq(w)' = Seq(w) + 1
        <4>1. pos = worker[w].pos + worker[w].size
          BY <3>1, <3>5, ReplayAssumption
        <4>2. worker[w].pos \in Nat /\ worker[w].size \in Nat \ {0}
          BY ReplayAssumption DEF WorkerType, Worker
        <4>3. SeqOf(pos, worker[w].size) = SeqOf(worker[w].pos, worker[w].size) + 1
          BY <4>1, <4>2, NextSeq
        <4> QED
          BY <3>3, <4>3 DEF Seq
      <3>6. KnownFrom(w, Seq(w) + 1) /\ pos < Rows => KnownFrom(w, Seq(w))'
        BY <3>3, <3>4, <3>5 DEF KnownFrom
      <3> QED
        BY <2>1, <2>3, <3>2, <3>3, <3>4, <3>6 DEF FreshFor, Resends
    <2> QED
      BY <2>2, <2>3
  <1>11. ASSUME NEW w \in Workers, Finalize(w) PROVE Fresh'
    <2> SUFFICES ASSUME NEW v \in Workers PROVE FreshFor(v)'
      BY DEF Fresh
    <2>1. FreshFor(v)
      BY DEF Fresh
    <2>2. CASE v # w
      <3>1. worker'[v] = worker[v] /\ (v \in together => v \in together')
        BY <1>11, <2>2 DEF Finalize, Ends, WorkerType
      <3>2. cells' = cells
        BY <1>11 DEF Finalize
      <3> QED
        BY <2>1, <2>2, <3>1, <3>2, OthersFresh
    <2>3. CASE v = w
      <3>1. worker'[w].pc \notin {"look", "send", "record", "cursor"} \union Resends
        BY <1>11 DEF Resends, Finalize, Ends, Off, WorkerType, Worker
      <3> QED
        BY <2>3, <3>1 DEF FreshFor
    <2> QED
      BY <2>2, <2>3
  <1>12. ASSUME NEW w \in Workers, Detached(w) PROVE Fresh'
    <2> SUFFICES ASSUME NEW v \in Workers PROVE FreshFor(v)'
      BY DEF Fresh
    <2>1. FreshFor(v)
      BY DEF Fresh
    <2>2. CASE v # w
      <3>1. worker'[v] = worker[v] /\ (v \in together => v \in together')
        BY <1>12, <2>2 DEF Detached, Ends, WorkerType
      <3>2. cells' = cells
        BY <1>12 DEF Detached
      <3> QED
        BY <2>1, <2>2, <3>1, <3>2, OthersFresh
    <2>3. CASE v = w
      <3>1. worker'[w].pc \notin {"look", "send", "record", "cursor"} \union Resends
        BY <1>12 DEF Resends, Detached, Ends, Off, WorkerType, Worker
      <3> QED
        BY <2>3, <3>1 DEF FreshFor
    <2> QED
      BY <2>2, <2>3
  <1>13. ASSUME NEW w \in Workers, Resend(w) PROVE Fresh'
    <2> SUFFICES ASSUME NEW v \in Workers PROVE FreshFor(v)'
      BY DEF Fresh
    <2>1. FreshFor(v)
      BY DEF Fresh
    <2>2. CASE v # w
      <3>1. worker'[v] = worker[v] /\ (v \in together => v \in together')
        BY <1>13, <2>2 DEF Resend, WorkerType
      <3>2. cells' = cells
        BY <1>13 DEF Resend
      <3> QED
        BY <2>1, <2>2, <3>1, <3>2, OthersFresh
    <2>3. CASE v = w
      <3>1. PICK out : worker' = [worker EXCEPT ![w].out = out, ![w].pc = "resendRecord"]
        BY <1>13 DEF Resend
      <3>2. /\ worker'[w].pc = "resendRecord" /\ worker'[w].seen = worker[w].seen
            /\ worker'[w].todo = worker[w].todo
        BY <3>1 DEF WorkerType, Worker
      <3>3. UNCHANGED <<cells, together>> /\ worker[w].pc \in Resends
        BY <1>13 DEF Resend, Resends
      <3> QED
        BY <2>1, <2>3, <3>2, <3>3 DEF FreshFor
    <2> QED
      BY <2>2, <2>3
  <1>14. ASSUME NEW w \in Workers, ResendRecord(w) PROVE Fresh'
    <2> SUFFICES ASSUME NEW v \in Workers PROVE FreshFor(v)'
      BY DEF Fresh
    <2>1. FreshFor(v)
      BY DEF Fresh
    <2>2. CASE v # w
      <3>1. worker'[v] = worker[v] /\ (v \in together => v \in together')
        BY <1>14, <2>2 DEF ResendRecord, WorkerType
      <3>2. cells' = cells \/ worker[w].pc \in Working
        BY <1>14 DEF ResendRecord, Working, Reads, Resends
      <3> QED
        BY <2>1, <2>2, <3>1, <3>2, OthersFresh
    <2>3. CASE v = w
      <3>1. PICK t : t = Next1(worker[w].todo)
        OBVIOUS
      <3>2. /\ worker'[w].pc = "resend" /\ worker'[w].seen = worker[w].seen
            /\ worker'[w].todo = worker[w].todo \ {t}
        BY <1>14, <3>1 DEF ResendRecord, WorkerType, Worker
      <3>3. together' = together /\ worker[w].pc \in Resends
        BY <1>14 DEF ResendRecord, Resends
      <3>4. \A s \in worker[w].todo : s # t => cells'[s] = cells[s]
        BY <1>14, <3>1 DEF ResendRecord, WorkerType, Worker, TimelineType
      <3> QED
        BY <2>1, <2>3, <3>2, <3>3, <3>4 DEF FreshFor
    <2> QED
      BY <2>2, <2>3
  <1>15. ASSUME NEW w \in Workers, ResendDone(w) PROVE Fresh'
    <2> SUFFICES ASSUME NEW v \in Workers PROVE FreshFor(v)'
      BY DEF Fresh
    <2>1. FreshFor(v)
      BY DEF Fresh
    <2>2. CASE v # w
      <3>1. worker'[v] = worker[v] /\ (v \in together => v \in together')
        BY <1>15, <2>2 DEF ResendDone, Ends, WorkerType
      <3>2. cells' = cells
        BY <1>15 DEF ResendDone
      <3> QED
        BY <2>1, <2>2, <3>1, <3>2, OthersFresh
    <2>3. CASE v = w
      <3>1. worker'[w].pc \notin {"look", "send", "record", "cursor"} \union Resends
        BY <1>15 DEF Resends, ResendDone, Ends, Off, WorkerType, Worker
      <3> QED
        BY <2>3, <3>1 DEF FreshFor
    <2> QED
      BY <2>2, <2>3
  <1>16. ASSUME NEW w \in Workers, Finish(w) PROVE Fresh'
    <2> SUFFICES ASSUME NEW v \in Workers PROVE FreshFor(v)'
      BY DEF Fresh
    <2>1. FreshFor(v)
      BY DEF Fresh
    <2>2. CASE v # w
      <3>1. worker'[v] = worker[v] /\ (v \in together => v \in together')
        BY <1>16, <2>2 DEF Finish, Leaves, WorkerType
      <3>2. cells' = cells
        BY <1>16 DEF Finish
      <3> QED
        BY <2>1, <2>2, <3>1, <3>2, OthersFresh
    <2>3. CASE v = w
      <3>1. worker'[w].pc \notin {"look", "send", "record", "cursor"} \union Resends
        BY <1>16 DEF Resends, Finish, Off, WorkerType, Worker
      <3> QED
        BY <2>3, <3>1 DEF FreshFor
    <2> QED
      BY <2>2, <2>3
  <1>17. ASSUME NEW w \in Workers, Drifted(w) PROVE Fresh'
    <2> SUFFICES ASSUME NEW v \in Workers PROVE FreshFor(v)'
      BY DEF Fresh
    <2>1. FreshFor(v)
      BY DEF Fresh
    <2>2. CASE v # w
      <3>1. worker'[v] = worker[v] /\ (v \in together => v \in together')
        BY <1>17, <2>2 DEF Drifted, Ends, WorkerType
      <3>2. cells' = cells
        BY <1>17 DEF Drifted
      <3> QED
        BY <2>1, <2>2, <3>1, <3>2, OthersFresh
    <2>3. CASE v = w
      <3>1. worker'[w].pc \notin {"look", "send", "record", "cursor"} \union Resends
        BY <1>17 DEF Resends, Drifted, Ends, Off, WorkerType, Worker
      <3> QED
        BY <2>3, <3>1 DEF FreshFor
    <2> QED
      BY <2>2, <2>3
  <1>18. ASSUME NEW w \in Workers, Throws(w) PROVE Fresh'
    <2> SUFFICES ASSUME NEW v \in Workers PROVE FreshFor(v)'
      BY DEF Fresh
    <2>1. FreshFor(v)
      BY DEF Fresh
    <2>2. CASE v # w
      <3>1. worker'[v] = worker[v] /\ (v \in together => v \in together')
        BY <1>18, <2>2 DEF Throws, Leaves, WorkerType
      <3>2. cells' = cells
        BY <1>18 DEF Throws
      <3> QED
        BY <2>1, <2>2, <3>1, <3>2, OthersFresh
    <2>3. CASE v = w
      <3>1. worker'[w].pc \notin {"look", "send", "record", "cursor"} \union Resends
        BY <1>18 DEF Resends, Throws, Off, WorkerType, Worker
      <3> QED
        BY <2>3, <3>1 DEF FreshFor
    <2> QED
      BY <2>2, <2>3
  <1>19. ASSUME NEW w \in Workers, Fails(w) PROVE Fresh'
    <2> SUFFICES ASSUME NEW v \in Workers PROVE FreshFor(v)'
      BY DEF Fresh
    <2>1. FreshFor(v)
      BY DEF Fresh
    <2>2. CASE v # w
      <3>1. worker'[v] = worker[v] /\ (v \in together => v \in together')
        BY <1>19, <2>2 DEF Fails, Ends, WorkerType
      <3>2. cells' = cells
        BY <1>19 DEF Fails
      <3> QED
        BY <2>1, <2>2, <3>1, <3>2, OthersFresh
    <2>3. CASE v = w
      <3>1. worker'[w].pc \notin {"look", "send", "record", "cursor"} \union Resends
        BY <1>19 DEF Resends, Fails, Ends, Off, WorkerType, Worker
      <3> QED
        BY <2>3, <3>1 DEF FreshFor
    <2> QED
      BY <2>2, <2>3
  <1>20. ASSUME NEW w \in Workers, Crash(w) PROVE Fresh'
    <2> SUFFICES ASSUME NEW v \in Workers PROVE FreshFor(v)'
      BY DEF Fresh
    <2>1. FreshFor(v)
      BY DEF Fresh
    <2>2. CASE v # w
      <3>1. worker'[v] = worker[v] /\ (v \in together => v \in together')
        BY <1>20, <2>2 DEF Crash, Leaves, WorkerType
      <3>2. cells' = cells
        BY <1>20 DEF Crash
      <3> QED
        BY <2>1, <2>2, <3>1, <3>2, OthersFresh
    <2>3. CASE v = w
      <3>1. worker'[w].pc \notin {"look", "send", "record", "cursor"} \union Resends
        BY <1>20 DEF Resends, Crash, Off, WorkerType, Worker
      <3> QED
        BY <2>3, <3>1 DEF FreshFor
    <2> QED
      BY <2>2, <2>3
  <1>21. ASSUME NEW w \in Workers, Shutdown(w) PROVE Fresh'
    <2> SUFFICES ASSUME NEW v \in Workers PROVE FreshFor(v)'
      BY DEF Fresh
    <2>1. FreshFor(v)
      BY DEF Fresh
    <2>2. CASE v # w
      <3>1. worker'[v] = worker[v] /\ (v \in together => v \in together')
        BY <1>21, <2>2 DEF Shutdown, WorkerType
      <3>2. cells' = cells
        BY <1>21 DEF Shutdown
      <3> QED
        BY <2>1, <2>2, <3>1, <3>2, OthersFresh
    <2>3. CASE v = w
      <3>1. /\ worker'[w].pc = worker[w].pc /\ worker'[w].pos = worker[w].pos
            /\ worker'[w].size = worker[w].size /\ worker'[w].seen = worker[w].seen /\ worker'[w].todo = worker[w].todo
            /\ UNCHANGED <<cells, together>>
        BY <1>21 DEF Shutdown, WorkerType, Worker
      <3> QED
        BY <2>1, <2>3, <3>1, FreshFrame
    <2> QED
      BY <2>2, <2>3
  <1>22. ASSUME NEW s \in Seqs, Skip(s) PROVE Fresh'
    <2> SUFFICES ASSUME NEW v \in Workers PROVE FreshFor(v)'
      BY DEF Fresh
    <2>1. FreshFor(v)
      BY DEF Fresh
    <2>2. UNCHANGED <<worker, together>> /\ \A t \in Seqs : t # s => cells'[t] = cells[t]
      BY <1>22 DEF Skip, TimelineType
    <2>3. cells'[s].st = "skipped"
      BY <1>22 DEF Skip, TimelineType, NoCell
    <2>4. ASSUME NEW n PROVE KnownFrom(v, n) => KnownFrom(v, n)'
      BY <2>2, <2>3 DEF KnownFrom
    <2>5. \A t \in worker[v].todo : cells[t].st = "failed" => cells'[t] = cells[t]
      BY <1>22, <2>2 DEF Skip, WorkerType, Worker
    <2> QED
      BY <2>1, <2>2, <2>4, <2>5 DEF FreshFor, Seq
  <1>23. ASSUME NEW s \in Seqs, SingleBegin(s) PROVE Fresh'
    <2> SUFFICES ASSUME NEW v \in Workers PROVE FreshFor(v)'
      BY DEF Fresh
    <2>1. FreshFor(v)
      BY DEF Fresh
    <2>2. UNCHANGED <<worker, cells>> /\ together \subseteq together'
      BY <1>23 DEF SingleBegin, Joins
    <2> QED
      BY <2>1, <2>2, FreshFrame
  <1>24. ASSUME CancelTell PROVE Fresh'
    <2> SUFFICES ASSUME NEW v \in Workers PROVE FreshFor(v)'
      BY DEF Fresh
    <2>1. FreshFor(v)
      BY DEF Fresh
    <2>2. /\ worker'[v].pc = worker[v].pc /\ worker'[v].pos = worker[v].pos
          /\ worker'[v].size = worker[v].size /\ worker'[v].seen = worker[v].seen /\ worker'[v].todo = worker[v].todo
          /\ UNCHANGED <<cells, together>>
      BY <1>24 DEF CancelTell, WorkerType, Worker
    <2> QED
      BY <2>1, <2>2, FreshFrame
  <1>25. ASSUME SingleRecord PROVE Fresh'
    <2> SUFFICES ASSUME NEW v \in Workers PROVE FreshFor(v)'
      BY DEF Fresh
    <2>1. FreshFor(v)
      BY DEF Fresh
    <2>2. UNCHANGED <<worker, together>> /\ single.pc # "idle"
      BY <1>25 DEF SingleRecord
    <2> QED
      BY <2>1, <2>2, OthersFresh
  <1>26. ASSUME SingleAfter PROVE Fresh'
    <2> SUFFICES ASSUME NEW v \in Workers PROVE FreshFor(v)'
      BY DEF Fresh
    <2>1. FreshFor(v)
      BY DEF Fresh
    <2>2. UNCHANGED <<worker, cells>> /\ (v \in together => v \in together')
      BY <1>26, ReplayAssumption DEF SingleAfter, Leaves
    <2> QED
      BY <2>1, <2>2, FreshFrame
  <1>27. ASSUME NEW w \in Workers, Mark(w) PROVE Fresh'
    <2> SUFFICES ASSUME NEW v \in Workers PROVE FreshFor(v)'
      BY DEF Fresh
    <2>1. FreshFor(v)
      BY DEF Fresh
    <2>2. CASE v # w
      <3>1. worker'[v] = worker[v] /\ (v \in together => v \in together')
        BY <1>27, <2>2 DEF Mark, Goes, WorkerType
      <3>2. cells' = cells
        BY <1>27 DEF Mark
      <3> QED
        BY <2>1, <2>2, <3>1, <3>2, OthersFresh
    <2>3. CASE v = w
      <3>1. worker'[w].pc \notin {"look", "send", "record", "cursor"} \union Resends
        BY <1>27 DEF Resends, Mark, Goes, WorkerType, Worker
      <3> QED
        BY <2>3, <3>1 DEF FreshFor
    <2> QED
      BY <2>2, <2>3
  <1> QED
    BY <1>1, <1>2, <1>3, <1>4, <1>5, <1>6, <1>7, <1>8, <1>9, <1>10, <1>11, <1>12, <1>13,
       <1>14, <1>15, <1>16, <1>17, <1>18, <1>19, <1>20, <1>21, <1>22, <1>23, <1>24,
       <1>25, <1>26, <1>27 DEF Next, Works, Asks, Cancels, Single

(* Nothing was sent at the start... *)
LEMMA InitAgain == Init => AgainInv
  <1> SUFFICES ASSUME Init PROVE AgainInv
    OBVIOUS
  <1>1. OkIfFailed
    BY DEF Init, OkIfFailed, NoCell
  <1>2. Alone /\ Fresh
    BY NotWorking DEF Init, Alone, Fresh, FreshFor, Off, Resends
  <1>3. SingleAlone
    BY DEF Init, SingleAlone, NoSingle
  <1> QED
    BY <1>1, <1>2, <1>3, InitTypes DEF AgainInv

(* ...and every step keeps the invariant. *)
LEMMA StepAgain == AgainInv /\ [Next]_vars => AgainInv'
  BY StepTypes, OkIfFailedKept, AloneKept, FreshKept, SingleAloneKept DEF AgainInv, Types

-----------------------------------------------------------------------------
(* nothing is left out *)

(* Every batch that begins before p has a delivery. *)
Covered(p) == \A s \in Seqs : s * job.size < p => cells[s].st # "none"

(* p is where a batch begins, or the end. *)
Aligned(p) == p = Rows \/ \E q \in Nat : p = q * job.size

(* While nobody edits it, the batch size is one; a draft is not in the queue. *)
SizeInv ==
  /\ config = job.size /\ budget["edit"] = 0
  /\ job.status = "draft" => entry.st = "none" /\ \A w \in Workers : worker[w].pc = "idle"

(* A delivery has the rows its number stands for. *)
CellInv == \A s \in Seqs : cells[s].st # "none" => cells[s].rows = BatchFrom(s * job.size, job.size)

(* Everything before the saved cursor has a delivery; everything, once the
   source was read to its end or the run is said to be completed. *)
JobInv ==
  /\ Covered(job.cursor) /\ Aligned(job.cursor)
  /\ job.streamed \/ job.status = "completed" => Covered(Rows)

(* ...and so has everything before the place where a worker reads. *)
SoundFor(w) ==
  /\ worker[w].pc \in Working =>
       /\ worker[w].size = job.size
       /\ \A s \in Seqs : worker[w].seen[s].st # "none" => cells[s].st # "none"
  /\ worker[w].pc \in Reads \union {"mark", "read"} => Covered(worker[w].pos) /\ Aligned(worker[w].pos)
  /\ worker[w].pc = "cursor" => cells[Seq(w)].st # "none"
  /\ worker[w].pc = "streamed" => worker[w].pos = Rows
  /\ worker[w].todo # {} => worker[w].pc \in Resends
  /\ \A s \in worker[w].todo : cells[s].st # "none"

(* ...for every worker *)
Sound == \A w \in Workers : SoundFor(w)

(* What is sent again singly was sent before. *)
OnceSent == single.pc # "idle" => cells[single.seq].st # "none"

(* the inductive invariant behind CompletedMeansAll and BehindCursor *)
DoneInv == Types /\ SizeInv /\ CellInv /\ JobInv /\ Sound /\ OnceSent

(* The batch after a covered one: all before it is covered too. *)
LEMMA Advance ==
  ASSUME NEW z \in Nat \ {0}, z = job.size, NEW p \in Nat, p < Rows, Covered(p), Aligned(p),
         cells[SeqOf(p, z)].st # "none"
  PROVE  /\ Covered(p + z) /\ (p + z <= Rows => Aligned(p + z))
         /\ p + z > Rows => Covered(Rows)
  <1>1. PICK q \in Nat : p = q * z
    BY ReplayAssumption DEF Aligned
  <1>2. SeqOf(p, z) = q
    BY <1>1 DEF SeqOf
  <1>3. ASSUME NEW s \in Seqs, s * z < p + z PROVE cells[s].st # "none"
    <2>1. s \in Nat /\ s * z \in Nat /\ q * z \in Nat
      BY Multiples, ReplayAssumption DEF Seqs, Positions
    <2>2. ~(q < s)
      BY <1>1, <1>3, <2>1, Multiples
    <2>3. CASE s = q
      BY <1>2, <2>3
    <2>4. CASE s < q
      <3>1. s * z < p
        BY <1>1, <2>1, <2>4, Multiples
      <3> QED
        BY <3>1 DEF Covered
    <2> QED
      BY <2>1, <2>2, <2>3, <2>4
  <1>4. Covered(p + z)
    BY <1>3 DEF Covered
  <1>5. p + z > Rows => Covered(Rows)
    <2> SUFFICES ASSUME p + z > Rows, NEW s \in Seqs, s * z < Rows PROVE s * z < p + z
      BY <1>3 DEF Covered
    <2>1. s * z \in Nat
      BY Multiples, ReplayAssumption DEF Seqs, Positions
    <2> QED
      BY <2>1, ReplayAssumption
  <1>6. Aligned(p + z)
    <2>1. q + 1 \in Nat /\ p + z = (q + 1) * z
      BY <1>1
    <2> QED
      BY <2>1 DEF Aligned
  <1> QED
    BY <1>4, <1>5, <1>6

(* A row before a covered place is in the delivery of its batch. *)
LEMMA CoveredRow ==
  ASSUME NEW z \in Nat \ {0}, z = job.size, CellInv, NEW p \in 0 .. Rows, Covered(p),
         NEW r \in Positions, r < p
  PROVE  \E s \in Seqs : r \in cells[s].rows
  <1>1. r \in Nat /\ r < Rows
    BY ReplayAssumption DEF Positions
  <1>2. PICK s \in Seqs : s = r \div z
    BY <1>1, SeqInSeqs DEF SeqOf
  <1>3. s \in Nat
    BY <1>1, <1>2, Division
  <1>4. s * z \in Nat /\ s * z <= r /\ r < s * z + z
    <2>1. PICK m : m = s * z /\ m \in Nat
      BY <1>3, Multiples
    <2>2. r % z \in 0 .. z - 1 /\ r = m + (r % z)
      BY <1>1, <1>2, <2>1, Division
    <2> QED
      BY <1>1, <2>1, <2>2
  <1>5. cells[s].st # "none"
    <2>1. s * z < p
      BY <1>1, <1>4, ReplayAssumption
    <2> QED
      BY <2>1 DEF Covered
  <1>6. r \in BatchFrom(s * z, z)
    BY <1>4 DEF BatchFrom
  <1> QED
    BY <1>5, <1>6 DEF CellInv

(* What Edit does where no edit is left: it sizes a draft nothing was done to. *)
LEMMA EditEffect ==
  ASSUME NEW size \in Sizes, Edit(size), budget["edit"] = 0
  PROVE  /\ job.status = "draft" /\ \A s \in Seqs : cells[s] = NoCell
         /\ config' = size /\ job' = [job EXCEPT !.size = size]
         /\ UNCHANGED <<cells, landed, entry, worker, single, cancel, together, budget>>
  BY DEF Edit, Spend

(* Nothing covers a place after the first row but a delivery. *)
LEMMA NothingCovered ==
  ASSUME JobType, NEW p \in Nat, Covered(p), \A s \in Seqs : cells[s] = NoCell
  PROVE  p = 0
  <1>1. 0 \in Seqs
    BY ReplayAssumption DEF Seqs, Positions
  <1>2. 0 * job.size = 0
    <2>1. job.size \in Nat
      BY ReplayAssumption DEF JobType, Job
    <2> QED
      BY <2>1
  <1> QED
    BY <1>1, <1>2 DEF Covered, NoCell

(* A delivery stays in the timeline. *)
LEMMA CellsGrow ==
  ASSUME TimelineType, [Next]_vars
  PROVE  \A i \in Seqs : cells[i].st # "none" => cells'[i].st # "none"
  <1>1. CASE \E w \in Workers : Pick(w) \/ LoadSettled(w) \/ Load(w) \/ Mark(w) \/ ReadTimeline(w)
                                    \/ Stopped(w) \/ Look(w) \/ Send(w) \/ Cursor(w)
                                    \/ Finalize(w) \/ Detached(w) \/ Resend(w)
                                    \/ ResendDone(w) \/ Finish(w) \/ Drifted(w) \/ Throws(w)
                                    \/ Fails(w) \/ Crash(w) \/ Shutdown(w)
    <2>1. UNCHANGED cells
      BY <1>1, ZenonT(60) DEF Pick, LoadSettled, Load, Mark, ReadTimeline, Stopped, Look, Send, Cursor, Finalize,
                Detached, Resend, ResendDone, Finish, Drifted, Throws, Fails, Crash,
                Shutdown
    <2> QED
      BY <2>1
  <1>2. CASE \/ UNCHANGED vars
             \/ \E size \in Sizes : Edit(size)
             \/ \E s \in Seqs : SingleBegin(s)
             \/ Start \/ RetryFailed \/ ResendFailed \/ CancelRead \/ CancelMark \/ CancelTell \/ CancelRemove
             \/ SingleSend \/ SingleAfter \/ Stalled \/ LockLost \/ Boot
    <2>1. UNCHANGED cells
      BY <1>2 DEF vars, Edit, SingleBegin, Start, RetryFailed, ResendFailed, CancelRead,
                CancelMark, CancelTell, CancelRemove, SingleSend, SingleAfter, Stalled, LockLost, Boot
    <2> QED
      BY <2>1
  <1>3. ASSUME NEW w \in Workers, Record(w) PROVE \A i \in Seqs : cells[i].st # "none" => cells'[i].st # "none"
    <2>1. PICK t, r : t = Seq(w) /\ r = Recorded(cells[t], Batch(w), worker[w].out)
      OBVIOUS
    <2>2. cells' = [cells EXCEPT ![t] = r]
      BY <1>3, <2>1 DEF Record
    <2>3. r.st # "none"
      BY <2>1 DEF Recorded
    <2> QED
      BY <2>2, <2>3 DEF TimelineType
  <1>4. ASSUME NEW w \in Workers, ResendRecord(w) PROVE \A i \in Seqs : cells[i].st # "none" => cells'[i].st # "none"
    <2>1. PICK t, r : t = Next1(worker[w].todo) /\ r = Recorded(cells[t], cells[t].rows, worker[w].out)
      OBVIOUS
    <2>2. cells' = [cells EXCEPT ![t] = r]
      BY <1>4, <2>1 DEF ResendRecord
    <2>3. r.st # "none"
      BY <2>1 DEF Recorded
    <2> QED
      BY <2>2, <2>3 DEF TimelineType
  <1>5. ASSUME NEW s \in Seqs, Skip(s) PROVE \A i \in Seqs : cells[i].st # "none" => cells'[i].st # "none"
    BY <1>5 DEF Skip, NoCell, TimelineType
  <1>6. ASSUME SingleRecord PROVE \A i \in Seqs : cells[i].st # "none" => cells'[i].st # "none"
    <2>1. PICK t, r : t = single.seq /\ r = Recorded(cells[t], cells[t].rows, single.out)
      OBVIOUS
    <2>2. cells' = [cells EXCEPT ![t] = r]
      BY <1>6, <2>1 DEF SingleRecord
    <2>3. r.st # "none"
      BY <2>1 DEF Recorded
    <2> QED
      BY <2>2, <2>3 DEF TimelineType
  <1> QED
    BY <1>1, <1>2, <1>3, <1>4, <1>5, <1>6 DEF Next, Works, Asks, Cancels, Single

(* The batch size is one, but for an edit. *)
LEMMA SameSize ==
  ASSUME JobType, SizeInv, [Next]_vars
  PROVE  job'.size = job.size \/ \E size \in Sizes : Edit(size)
  <1>1. CASE \E w \in Workers : Pick(w) \/ Load(w) \/ ReadTimeline(w) \/ Send(w) \/ Record(w)
                                    \/ Detached(w) \/ Resend(w) \/ ResendRecord(w)
                                    \/ Finish(w) \/ Throws(w) \/ Crash(w) \/ Shutdown(w)
    <2>1. UNCHANGED job
      BY <1>1 DEF Pick, Load, ReadTimeline, Send, Record, Detached, Resend, ResendRecord, Finish, Throws,
                Crash, Shutdown
    <2> QED
      BY <2>1
  <1>2. CASE \/ UNCHANGED vars
             \/ \E s \in Seqs : Skip(s) \/ SingleBegin(s)
             \/ CancelRead \/ CancelTell \/ CancelRemove \/ SingleSend \/ SingleRecord \/ Stalled \/ LockLost \/ Boot
    <2>1. UNCHANGED job
      BY <1>2 DEF vars, Skip, SingleBegin, CancelRead, CancelTell, CancelRemove, SingleSend, SingleRecord, Stalled,
                LockLost, Boot
    <2> QED
      BY <2>1
  <1>3. ASSUME NEW w \in Workers, LoadSettled(w) PROVE job'.size = job.size \/ \E size \in Sizes : Edit(size)
    BY <1>3 DEF LoadSettled, Becomes, JobType, Job, SizeInv
  <1>4. ASSUME NEW w \in Workers, Mark(w) PROVE job'.size = job.size \/ \E size \in Sizes : Edit(size)
    BY <1>4 DEF Mark, Becomes, JobType, Job, SizeInv
  <1>5. ASSUME NEW w \in Workers, Stopped(w) PROVE job'.size = job.size \/ \E size \in Sizes : Edit(size)
    BY <1>5 DEF Stopped, Becomes, JobType, Job, SizeInv
  <1>6. ASSUME NEW w \in Workers, Look(w) PROVE job'.size = job.size \/ \E size \in Sizes : Edit(size)
    BY <1>6 DEF Look, Becomes, JobType, Job, SizeInv
  <1>7. ASSUME NEW w \in Workers, Cursor(w) PROVE job'.size = job.size \/ \E size \in Sizes : Edit(size)
    BY <1>7 DEF Cursor, Becomes, JobType, Job, SizeInv
  <1>8. ASSUME NEW w \in Workers, Finalize(w) PROVE job'.size = job.size \/ \E size \in Sizes : Edit(size)
    BY <1>8 DEF Finalize, Becomes, JobType, Job, SizeInv
  <1>9. ASSUME NEW w \in Workers, ResendDone(w) PROVE job'.size = job.size \/ \E size \in Sizes : Edit(size)
    BY <1>9 DEF ResendDone, Becomes, JobType, Job, SizeInv
  <1>10. ASSUME NEW w \in Workers, Drifted(w) PROVE job'.size = job.size \/ \E size \in Sizes : Edit(size)
    BY <1>10 DEF Drifted, Becomes, JobType, Job, SizeInv
  <1>11. ASSUME NEW w \in Workers, Fails(w) PROVE job'.size = job.size \/ \E size \in Sizes : Edit(size)
    BY <1>11 DEF Fails, Becomes, JobType, Job, SizeInv
  <1>12. ASSUME NEW z \in Sizes, Edit(z) PROVE job'.size = job.size \/ \E size \in Sizes : Edit(size)
    BY <1>12
  <1>13. ASSUME Start PROVE job'.size = job.size \/ \E size \in Sizes : Edit(size)
    BY <1>13 DEF Start, Becomes, JobType, Job, SizeInv
  <1>14. ASSUME RetryFailed PROVE job'.size = job.size \/ \E size \in Sizes : Edit(size)
    BY <1>14 DEF RetryFailed, Becomes, JobType, Job, SizeInv
  <1>15. ASSUME ResendFailed PROVE job'.size = job.size \/ \E size \in Sizes : Edit(size)
    BY <1>15 DEF ResendFailed, Becomes, JobType, Job, SizeInv
  <1>16. ASSUME CancelMark PROVE job'.size = job.size \/ \E size \in Sizes : Edit(size)
    BY <1>16 DEF CancelMark, Becomes, JobType, Job, SizeInv
  <1>17. ASSUME SingleAfter PROVE job'.size = job.size \/ \E size \in Sizes : Edit(size)
    BY <1>17 DEF SingleAfter, Becomes, JobType, Job, SizeInv
  <1> QED
    BY <1>1, <1>2, <1>3, <1>4, <1>5, <1>6, <1>7, <1>8, <1>9, <1>10, <1>11, <1>12, <1>13,
       <1>14, <1>15, <1>16, <1>17 DEF Next, Works, Asks, Cancels, Single

(* Asking for something else leaves the edits alone. *)
LEMMA NoEdit ==
  ASSUME budget \in [Kinds -> Nat], budget["edit"] = 0, NEW k, Spend(k)
  PROVE  budget'["edit"] = 0 /\ k # "edit"
  BY DEF Spend, Kinds

(* Every step keeps the one batch size. *)
LEMMA SizeKept ==
  ASSUME JobType, SingleType, WorkerType, SizeInv, [Next]_vars
  PROVE  SizeInv'
  <1>1. CASE \/ UNCHANGED vars
             \/ SingleRecord
    <2>1. UNCHANGED <<config, job, entry, worker, budget>>
      BY <1>1 DEF vars, SingleRecord
    <2> QED
      BY <2>1 DEF SizeInv
  <1>2. ASSUME NEW w \in Workers, Pick(w) PROVE SizeInv'
    <2>1. budget'["edit"] = 0
      BY <1>2, NoEdit DEF Pick, FailsAtMost, SizeInv, SingleType
    <2>2. config' = config /\ job'.size = job.size
      BY <1>2 DEF Pick, Becomes, JobType, Job, SizeInv
    <2>3. job.status # "draft"
      BY <1>2, ReplayAssumption DEF Pick, Looks, SizeInv, Busy
    <2>4. job'.status # "draft"
      BY <1>2, <2>3 DEF Pick, Becomes, JobType, Job
    <2> QED
      BY <2>1, <2>2, <2>4 DEF SizeInv
  <1>3. ASSUME NEW w \in Workers, LoadSettled(w) PROVE SizeInv'
    <2>1. budget'["edit"] = 0
      BY <1>3, NoEdit DEF LoadSettled, FailsAtMost, SizeInv, SingleType
    <2>2. config' = config /\ job'.size = job.size
      BY <1>3 DEF LoadSettled, Becomes, JobType, Job, SizeInv
    <2>3. job.status # "draft"
      BY <1>3, ReplayAssumption DEF LoadSettled, Looks, SizeInv, Busy
    <2>4. job'.status # "draft"
      BY <1>3, <2>3 DEF LoadSettled, Becomes, JobType, Job
    <2> QED
      BY <2>1, <2>2, <2>4 DEF SizeInv
  <1>4. ASSUME NEW w \in Workers, Load(w) PROVE SizeInv'
    <2>1. budget'["edit"] = 0
      BY <1>4, NoEdit DEF Load, FailsAtMost, SizeInv, SingleType
    <2>2. config' = config /\ job'.size = job.size
      BY <1>4 DEF Load, Becomes, JobType, Job, SizeInv
    <2>3. job.status # "draft"
      BY <1>4, ReplayAssumption DEF Load, Looks, SizeInv, Busy
    <2>4. job'.status # "draft"
      BY <1>4, <2>3 DEF Load, Becomes, JobType, Job
    <2> QED
      BY <2>1, <2>2, <2>4 DEF SizeInv
  <1>5. ASSUME NEW w \in Workers, Mark(w) PROVE SizeInv'
    <2>1. budget'["edit"] = 0
      BY <1>5, NoEdit DEF Mark, FailsAtMost, SizeInv, SingleType
    <2>2. config' = config /\ job'.size = job.size
      BY <1>5 DEF Mark, Becomes, JobType, Job, SizeInv
    <2>3. job.status # "draft"
      BY <1>5, ReplayAssumption DEF Mark, Looks, SizeInv, Busy
    <2>4. job'.status # "draft"
      BY <1>5, <2>3 DEF Mark, Becomes, JobType, Job
    <2> QED
      BY <2>1, <2>2, <2>4 DEF SizeInv
  <1>6. ASSUME NEW w \in Workers, Stopped(w) PROVE SizeInv'
    <2>1. budget'["edit"] = 0
      BY <1>6, NoEdit DEF Stopped, FailsAtMost, SizeInv, SingleType
    <2>2. config' = config /\ job'.size = job.size
      BY <1>6 DEF Stopped, Becomes, JobType, Job, SizeInv
    <2>3. job.status # "draft"
      BY <1>6, ReplayAssumption DEF Stopped, Looks, SizeInv, Busy
    <2>4. job'.status # "draft"
      BY <1>6, <2>3 DEF Stopped, Becomes, JobType, Job
    <2> QED
      BY <2>1, <2>2, <2>4 DEF SizeInv
  <1>7. ASSUME NEW w \in Workers, Look(w) PROVE SizeInv'
    <2>1. budget'["edit"] = 0
      BY <1>7, NoEdit DEF Look, FailsAtMost, SizeInv, SingleType
    <2>2. config' = config /\ job'.size = job.size
      BY <1>7 DEF Look, Becomes, JobType, Job, SizeInv
    <2>3. job.status # "draft"
      BY <1>7, ReplayAssumption DEF Look, Looks, SizeInv, Busy
    <2>4. job'.status # "draft"
      BY <1>7, <2>3 DEF Look, Becomes, JobType, Job
    <2> QED
      BY <2>1, <2>2, <2>4 DEF SizeInv
  <1>8. ASSUME NEW w \in Workers, Send(w) PROVE SizeInv'
    <2>1. budget'["edit"] = 0
      BY <1>8, NoEdit DEF Send, FailsAtMost, SizeInv, SingleType
    <2>2. config' = config /\ job'.size = job.size
      BY <1>8 DEF Send, Becomes, JobType, Job, SizeInv
    <2>3. job.status # "draft"
      BY <1>8, ReplayAssumption DEF Send, Looks, SizeInv, Busy
    <2>4. job'.status # "draft"
      BY <1>8, <2>3 DEF Send, Becomes, JobType, Job
    <2> QED
      BY <2>1, <2>2, <2>4 DEF SizeInv
  <1>9. ASSUME NEW w \in Workers, Record(w) PROVE SizeInv'
    <2>1. budget'["edit"] = 0
      BY <1>9, NoEdit DEF Record, FailsAtMost, SizeInv, SingleType
    <2>2. config' = config /\ job'.size = job.size
      BY <1>9 DEF Record, Becomes, JobType, Job, SizeInv
    <2>3. job.status # "draft"
      BY <1>9, ReplayAssumption DEF Record, Looks, SizeInv, Busy
    <2>4. job'.status # "draft"
      BY <1>9, <2>3 DEF Record, Becomes, JobType, Job
    <2> QED
      BY <2>1, <2>2, <2>4 DEF SizeInv
  <1>10. ASSUME NEW w \in Workers, Cursor(w) PROVE SizeInv'
    <2>1. budget'["edit"] = 0
      BY <1>10, NoEdit DEF Cursor, FailsAtMost, SizeInv, SingleType
    <2>2. config' = config /\ job'.size = job.size
      BY <1>10 DEF Cursor, Becomes, JobType, Job, SizeInv
    <2>3. job.status # "draft"
      BY <1>10, ReplayAssumption DEF Cursor, Looks, SizeInv, Busy
    <2>4. job'.status # "draft"
      BY <1>10, <2>3 DEF Cursor, Becomes, JobType, Job
    <2> QED
      BY <2>1, <2>2, <2>4 DEF SizeInv
  <1>11. ASSUME NEW w \in Workers, Finalize(w) PROVE SizeInv'
    <2>1. budget'["edit"] = 0
      BY <1>11, NoEdit DEF Finalize, FailsAtMost, SizeInv, SingleType
    <2>2. config' = config /\ job'.size = job.size
      BY <1>11 DEF Finalize, Becomes, JobType, Job, SizeInv
    <2>3. job.status # "draft"
      BY <1>11, ReplayAssumption DEF Finalize, Looks, SizeInv, Busy
    <2>4. job'.status # "draft"
      BY <1>11, <2>3 DEF Finalize, Becomes, JobType, Job
    <2> QED
      BY <2>1, <2>2, <2>4 DEF SizeInv
  <1>12. ASSUME NEW w \in Workers, Detached(w) PROVE SizeInv'
    <2>1. budget'["edit"] = 0
      BY <1>12, NoEdit DEF Detached, FailsAtMost, SizeInv, SingleType
    <2>2. config' = config /\ job'.size = job.size
      BY <1>12 DEF Detached, Becomes, JobType, Job, SizeInv
    <2>3. job.status # "draft"
      BY <1>12, ReplayAssumption DEF Detached, Looks, SizeInv, Busy
    <2>4. job'.status # "draft"
      BY <1>12, <2>3 DEF Detached, Becomes, JobType, Job
    <2> QED
      BY <2>1, <2>2, <2>4 DEF SizeInv
  <1>13. ASSUME NEW w \in Workers, Resend(w) PROVE SizeInv'
    <2>1. budget'["edit"] = 0
      BY <1>13, NoEdit DEF Resend, FailsAtMost, SizeInv, SingleType
    <2>2. config' = config /\ job'.size = job.size
      BY <1>13 DEF Resend, Becomes, JobType, Job, SizeInv
    <2>3. job.status # "draft"
      BY <1>13, ReplayAssumption DEF Resend, Looks, SizeInv, Busy
    <2>4. job'.status # "draft"
      BY <1>13, <2>3 DEF Resend, Becomes, JobType, Job
    <2> QED
      BY <2>1, <2>2, <2>4 DEF SizeInv
  <1>14. ASSUME NEW w \in Workers, ResendRecord(w) PROVE SizeInv'
    <2>1. budget'["edit"] = 0
      BY <1>14, NoEdit DEF ResendRecord, FailsAtMost, SizeInv, SingleType
    <2>2. config' = config /\ job'.size = job.size
      BY <1>14 DEF ResendRecord, Becomes, JobType, Job, SizeInv
    <2>3. job.status # "draft"
      BY <1>14, ReplayAssumption DEF ResendRecord, Looks, SizeInv, Busy
    <2>4. job'.status # "draft"
      BY <1>14, <2>3 DEF ResendRecord, Becomes, JobType, Job
    <2> QED
      BY <2>1, <2>2, <2>4 DEF SizeInv
  <1>15. ASSUME NEW w \in Workers, ResendDone(w) PROVE SizeInv'
    <2>1. budget'["edit"] = 0
      BY <1>15, NoEdit DEF ResendDone, FailsAtMost, SizeInv, SingleType
    <2>2. config' = config /\ job'.size = job.size
      BY <1>15 DEF ResendDone, Becomes, JobType, Job, SizeInv
    <2>3. job.status # "draft"
      BY <1>15, ReplayAssumption DEF ResendDone, Looks, SizeInv, Busy
    <2>4. job'.status # "draft"
      BY <1>15, <2>3 DEF ResendDone, Becomes, JobType, Job
    <2> QED
      BY <2>1, <2>2, <2>4 DEF SizeInv
  <1>16. ASSUME NEW w \in Workers, Finish(w) PROVE SizeInv'
    <2>1. budget'["edit"] = 0
      BY <1>16, NoEdit DEF Finish, FailsAtMost, SizeInv, SingleType
    <2>2. config' = config /\ job'.size = job.size
      BY <1>16 DEF Finish, Becomes, JobType, Job, SizeInv
    <2>3. job.status # "draft"
      BY <1>16, ReplayAssumption DEF Finish, Looks, SizeInv, Busy
    <2>4. job'.status # "draft"
      BY <1>16, <2>3 DEF Finish, Becomes, JobType, Job
    <2> QED
      BY <2>1, <2>2, <2>4 DEF SizeInv
  <1>17. ASSUME NEW w \in Workers, Drifted(w) PROVE SizeInv'
    <2>1. budget'["edit"] = 0
      BY <1>17, NoEdit DEF Drifted, FailsAtMost, SizeInv, SingleType
    <2>2. config' = config /\ job'.size = job.size
      BY <1>17 DEF Drifted, Becomes, JobType, Job, SizeInv
    <2>3. job.status # "draft"
      BY <1>17, ReplayAssumption DEF Drifted, Looks, SizeInv, Busy
    <2>4. job'.status # "draft"
      BY <1>17, <2>3 DEF Drifted, Becomes, JobType, Job
    <2> QED
      BY <2>1, <2>2, <2>4 DEF SizeInv
  <1>18. ASSUME NEW w \in Workers, Throws(w) PROVE SizeInv'
    <2>1. budget'["edit"] = 0
      BY <1>18, NoEdit DEF Throws, FailsAtMost, SizeInv, SingleType
    <2>2. config' = config /\ job'.size = job.size
      BY <1>18 DEF Throws, Becomes, JobType, Job, SizeInv
    <2>3. job.status # "draft"
      BY <1>18, ReplayAssumption DEF Throws, Looks, SizeInv, Busy
    <2>4. job'.status # "draft"
      BY <1>18, <2>3 DEF Throws, Becomes, JobType, Job
    <2> QED
      BY <2>1, <2>2, <2>4 DEF SizeInv
  <1>19. ASSUME NEW w \in Workers, Fails(w) PROVE SizeInv'
    <2>1. budget'["edit"] = 0
      BY <1>19, NoEdit DEF Fails, FailsAtMost, SizeInv, SingleType
    <2>2. config' = config /\ job'.size = job.size
      BY <1>19 DEF Fails, Becomes, JobType, Job, SizeInv
    <2>3. job.status # "draft"
      BY <1>19, ReplayAssumption DEF Fails, Looks, SizeInv, Busy
    <2>4. job'.status # "draft"
      BY <1>19, <2>3 DEF Fails, Becomes, JobType, Job
    <2> QED
      BY <2>1, <2>2, <2>4 DEF SizeInv
  <1>20. ASSUME NEW w \in Workers, Crash(w) PROVE SizeInv'
    <2>1. budget'["edit"] = 0
      BY <1>20, NoEdit DEF Crash, FailsAtMost, SizeInv, SingleType
    <2>2. config' = config /\ job'.size = job.size
      BY <1>20 DEF Crash, Becomes, JobType, Job, SizeInv
    <2>3. job.status # "draft"
      BY <1>20, ReplayAssumption DEF Crash, Looks, SizeInv, Busy
    <2>4. job'.status # "draft"
      BY <1>20, <2>3 DEF Crash, Becomes, JobType, Job
    <2> QED
      BY <2>1, <2>2, <2>4 DEF SizeInv
  <1>21. ASSUME NEW w \in Workers, Shutdown(w) PROVE SizeInv'
    <2>1. budget'["edit"] = 0
      BY <1>21, NoEdit DEF Shutdown, FailsAtMost, SizeInv, SingleType
    <2>2. config' = config /\ job'.size = job.size
      BY <1>21 DEF Shutdown, Becomes, JobType, Job, SizeInv
    <2>3. job.status # "draft"
      BY <1>21, ReplayAssumption DEF Shutdown, Looks, SizeInv, Busy
    <2>4. job'.status # "draft"
      BY <1>21, <2>3 DEF Shutdown, Becomes, JobType, Job
    <2> QED
      BY <2>1, <2>2, <2>4 DEF SizeInv
  <1>22. ASSUME NEW size \in Sizes, Edit(size) PROVE SizeInv'
    <2>1. config' = size /\ job' = [job EXCEPT !.size = size] /\ UNCHANGED <<entry, worker, budget>>
      BY <1>22, EditEffect DEF SizeInv
    <2> QED
      BY <2>1 DEF SizeInv, JobType, Job
  <1>23. ASSUME NEW s \in Seqs, Skip(s) PROVE SizeInv'
    <2>1. budget'["edit"] = 0 /\ UNCHANGED <<config, job, entry, worker>>
      BY <1>23, NoEdit DEF Skip, FailsAtMost, SizeInv, SingleType
    <2> QED
      BY <2>1 DEF SizeInv
  <1>24. ASSUME NEW s \in Seqs, SingleBegin(s) PROVE SizeInv'
    <2>1. budget'["edit"] = 0 /\ UNCHANGED <<config, job, entry, worker>>
      BY <1>24, NoEdit DEF SingleBegin, FailsAtMost, SizeInv, SingleType
    <2> QED
      BY <2>1 DEF SizeInv
  <1>25. ASSUME Start PROVE SizeInv'
    <2>1. budget'["edit"] = 0
      BY <1>25, NoEdit DEF Start, FailsAtMost, SizeInv, SingleType
    <2>2. config' = config /\ job'.size = job.size
      BY <1>25 DEF Start, Becomes, JobType, Job, SizeInv
    <2>3. job'.status # "draft"
      BY <1>25 DEF Start, Becomes, JobType, Job, SizeInv
    <2> QED
      BY <2>1, <2>2, <2>3 DEF SizeInv
  <1>26. ASSUME RetryFailed PROVE SizeInv'
    <2>1. budget'["edit"] = 0
      BY <1>26, NoEdit DEF RetryFailed, FailsAtMost, SizeInv, SingleType
    <2>2. config' = config /\ job'.size = job.size
      BY <1>26 DEF RetryFailed, Becomes, JobType, Job, SizeInv
    <2>3. job'.status # "draft"
      BY <1>26 DEF RetryFailed, Becomes, JobType, Job, SizeInv
    <2> QED
      BY <2>1, <2>2, <2>3 DEF SizeInv
  <1>27. ASSUME ResendFailed PROVE SizeInv'
    <2>1. budget'["edit"] = 0
      BY <1>27, NoEdit DEF ResendFailed, FailsAtMost, SizeInv, SingleType
    <2>2. config' = config /\ job'.size = job.size
      BY <1>27 DEF ResendFailed, Becomes, JobType, Job, SizeInv
    <2>3. job'.status # "draft"
      BY <1>27 DEF ResendFailed, Becomes, JobType, Job, SizeInv
    <2> QED
      BY <2>1, <2>2, <2>3 DEF SizeInv
  <1>28. ASSUME CancelRead PROVE SizeInv'
    <2>1. budget'["edit"] = 0 /\ UNCHANGED <<config, job, entry, worker>>
      BY <1>28, NoEdit DEF CancelRead, FailsAtMost, SizeInv, SingleType
    <2> QED
      BY <2>1 DEF SizeInv
  <1>29. ASSUME CancelMark PROVE SizeInv'
    <2>1. budget'["edit"] = 0
      BY <1>29, NoEdit DEF CancelMark, FailsAtMost, SizeInv, SingleType
    <2>2. config' = config /\ job'.size = job.size
      BY <1>29 DEF CancelMark, Becomes, JobType, Job, SizeInv
    <2>3. job'.status # "draft"
      BY <1>29 DEF CancelMark, Becomes, JobType, Job, SizeInv
    <2> QED
      BY <2>1, <2>2, <2>3 DEF SizeInv
  <1>30. ASSUME SingleSend PROVE SizeInv'
    <2>1. budget'["edit"] = 0 /\ UNCHANGED <<config, job, entry, worker>>
      BY <1>30, NoEdit DEF SingleSend, FailsAtMost, SizeInv, SingleType
    <2> QED
      BY <2>1 DEF SizeInv
  <1>31. ASSUME SingleAfter PROVE SizeInv'
    <2>1. UNCHANGED <<budget, config, worker>>
      BY <1>31 DEF SingleAfter
    <2>2. job'.size = job.size
      BY <1>31 DEF SingleAfter, JobType, Job, SizeInv
    <2>3. job'.status = "draft" => job' = job /\ entry' = entry
      BY <1>31 DEF SingleAfter, JobType, Job
    <2> QED
      BY <2>1, <2>2, <2>3 DEF SizeInv
  <1>32. ASSUME Stalled PROVE SizeInv'
    <2>1. budget'["edit"] = 0 /\ UNCHANGED <<config, job, worker>>
      BY <1>32, NoEdit DEF Stalled, SizeInv, SingleType
    <2>2. job.status # "draft"
      BY <1>32 DEF Stalled, SizeInv, Active
    <2> QED
      BY <2>1, <2>2 DEF SizeInv
  <1>33. ASSUME LockLost PROVE SizeInv'
    <2>1. budget'["edit"] = 0 /\ UNCHANGED <<config, job, worker>>
      BY <1>33, NoEdit DEF LockLost, SizeInv, SingleType
    <2>2. job.status # "draft"
      BY <1>33 DEF LockLost, SizeInv, Active
    <2> QED
      BY <2>1, <2>2 DEF SizeInv
  <1>34. ASSUME Boot PROVE SizeInv'
    <2>1. budget'["edit"] = 0 /\ UNCHANGED <<config, job, worker>>
      BY <1>34, NoEdit DEF Boot, SizeInv, SingleType
    <2>2. job.status # "draft"
      BY <1>34 DEF Boot, SizeInv, Active
    <2> QED
      BY <2>1, <2>2 DEF SizeInv
  <1>35. ASSUME NEW w \in Workers, ReadTimeline(w) PROVE SizeInv'
    <2>1. UNCHANGED <<budget, config, job>>
      BY <1>35 DEF ReadTimeline
    <2>2. job.status # "draft"
      BY <1>35 DEF ReadTimeline, SizeInv
    <2> QED
      BY <2>1, <2>2 DEF SizeInv
  <1>36. ASSUME CancelTell PROVE SizeInv'
    <2>1. UNCHANGED <<budget, config, job, entry>>
      BY <1>36 DEF CancelTell
    <2>2. \A w \in Workers : worker'[w].pc = worker[w].pc
      BY <1>36 DEF CancelTell, WorkerType, Worker
    <2> QED
      BY <2>1, <2>2 DEF SizeInv
  <1>37. ASSUME CancelRemove PROVE SizeInv'
    <2>1. UNCHANGED <<budget, config, job, worker>>
      BY <1>37 DEF CancelRemove
    <2>2. entry.st = "none" => entry'.st = "none"
      BY <1>37 DEF CancelRemove, NoEntry
    <2> QED
      BY <2>1, <2>2 DEF SizeInv
  <1> QED
    BY <1>1, <1>2, <1>3, <1>4, <1>5, <1>6, <1>7, <1>8, <1>9, <1>10, <1>11, <1>12, <1>13,
       <1>14, <1>15, <1>16, <1>17, <1>18, <1>19, <1>20, <1>21, <1>22, <1>23, <1>24,
       <1>25, <1>26, <1>27, <1>28, <1>29, <1>30, <1>31, <1>32, <1>33, <1>34, <1>35, <1>36, <1>37 DEF Next, Works, Asks, Cancels, Single

(* A delivery that is there keeps its rows. *)
LEMMA RowsStay ==
  ASSUME NEW c, NEW rows, NEW ok
  PROVE  Recorded(c, rows, ok).rows = IF c.st = "none" THEN rows ELSE c.rows
  BY DEF Recorded

(* The batch a worker is about to send or record is that of its number. *)
LEMMA OwnBatch ==
  ASSUME Types, Sound, NEW w \in Workers, worker[w].pc \in {"send", "record"}
  PROVE  Seq(w) \in Seqs /\ Batch(w) = BatchFrom(Seq(w) * job.size, job.size)
  <1>1. worker[w].pc \in Reads /\ worker[w].pc \in Working
    BY DEF Reads, Working
  <1>2. worker[w].size = job.size /\ Aligned(worker[w].pos) /\ worker[w].pos < Rows
    BY <1>1 DEF Sound, SoundFor, Types, InBatch
  <1>3. PICK z \in Nat \ {0} : z = job.size
    BY ReplayAssumption DEF Types, JobType, Job
  <1>4. PICK q \in Nat : worker[w].pos = q * z
    <2>1. worker[w].pos # Rows
      BY <1>2, ReplayAssumption
    <2> QED
      BY <1>2, <1>3, <2>1 DEF Aligned
  <1>5. Seq(w) = q
    BY <1>2, <1>3, <1>4 DEF Seq, SeqOf
  <1>6. Seq(w) \in Seqs
    <2>1. worker[w].pos \in Nat
      BY DEF Types, WorkerType, Worker
    <2> QED
      BY <1>2, <1>3, <2>1, SeqInSeqs DEF Seq
  <1> QED
    BY <1>2, <1>3, <1>4, <1>5, <1>6 DEF Batch

(* Every step keeps deliveries with the rows of their batches. *)
LEMMA CellKept ==
  ASSUME Types, SizeInv, CellInv, Sound, OnceSent, [Next]_vars
  PROVE  CellInv'
  <1>1. CASE \E size \in Sizes : Edit(size)
    <2>1. cells' = cells /\ \A s \in Seqs : cells[s] = NoCell
      BY <1>1, EditEffect DEF SizeInv
    <2> QED
      BY <2>1 DEF CellInv, NoCell
  <1>2. ASSUME job'.size = job.size, NEW t, NEW r, cells' = [cells EXCEPT ![t] = r],
               t \in Seqs => r.rows = BatchFrom(t * job.size, job.size)
        PROVE  CellInv'
    BY <1>2 DEF CellInv, Types, TimelineType
  <1>3. CASE job'.size = job.size
    <2>1. CASE cells' = cells
      BY <1>3, <2>1 DEF CellInv
    <2>2. CASE SingleRecord
      <3>1. PICK t, r : t = single.seq /\ r = Recorded(cells[t], cells[t].rows, single.out)
        OBVIOUS
      <3>2. cells' = [cells EXCEPT ![t] = r]
        BY <2>2, <3>1 DEF SingleRecord
      <3>3. cells[t].st # "none" /\ r.rows = cells[t].rows
        BY <2>2, <3>1, RowsStay DEF SingleRecord, OnceSent
      <3> QED
        BY <1>2, <1>3, <3>2, <3>3 DEF CellInv
    <2>3. ASSUME NEW s \in Seqs, Skip(s) PROVE CellInv'
      <3>1. PICK r : r = [NoCell EXCEPT !.st = "skipped", !.rows = BatchFrom(s * job.size, job.size)]
        OBVIOUS
      <3>2. cells' = [cells EXCEPT ![s] = r] /\ r.rows = BatchFrom(s * job.size, job.size)
        BY <2>3, <3>1 DEF Skip, NoCell
      <3> QED
        BY <1>2, <1>3, <3>2
    <2>4. ASSUME NEW w \in Workers, ResendRecord(w) PROVE CellInv'
      <3>1. PICK t, r : t = Next1(worker[w].todo) /\ r = Recorded(cells[t], cells[t].rows, worker[w].out)
        OBVIOUS
      <3>2. cells' = [cells EXCEPT ![t] = r]
        BY <2>4, <3>1 DEF ResendRecord
      <3>3. t \in worker[w].todo
        BY <2>4, <3>1, NextOfSome DEF ResendRecord, Types, WorkerType, Worker, InBatch
      <3>4. cells[t].st # "none" /\ r.rows = cells[t].rows
        BY <3>1, <3>3, RowsStay DEF Sound, SoundFor
      <3> QED
        BY <1>2, <1>3, <3>2, <3>4 DEF CellInv
    <2>5. ASSUME NEW w \in Workers, Record(w) PROVE CellInv'
      <3>1. PICK t, r : t = Seq(w) /\ r = Recorded(cells[t], Batch(w), worker[w].out)
        OBVIOUS
      <3>2. cells' = [cells EXCEPT ![t] = r]
        BY <2>5, <3>1 DEF Record
      <3>3. Batch(w) = BatchFrom(t * job.size, job.size)
        BY <2>5, <3>1, OwnBatch DEF Record
      <3>4. t \in Seqs => r.rows = BatchFrom(t * job.size, job.size)
        BY <3>1, <3>3, RowsStay DEF CellInv
      <3> QED
        BY <1>2, <1>3, <3>2, <3>4
    <2> QED
      BY <2>1, <2>2, <2>3, <2>4, <2>5, TimelineSteps
  <1> QED
    BY <1>1, <1>3, SameSize DEF Types

(* What was covered stays so. *)
LEMMA CoveredStays ==
  ASSUME job'.size = job.size, \A s \in Seqs : cells[s].st # "none" => cells'[s].st # "none",
         NEW p, NEW q, q = p
  PROVE  /\ Covered(p) => \A s \in Seqs : s * job'.size < q => cells'[s].st # "none"
         /\ Aligned(p) => q = Rows \/ \E i \in Nat : q = i * job'.size
  BY DEF Covered, Aligned

(* The job row goes on from where it was. *)
LEMMA JobFrame ==
  ASSUME JobInv, job'.size = job.size, \A s \in Seqs : cells[s].st # "none" => cells'[s].st # "none",
         job'.cursor = job.cursor, job'.streamed => job.streamed,
         job'.status = "completed" => job.status = "completed" \/ job.streamed
  PROVE  JobInv'
  BY DEF JobInv, Covered, Aligned

(* Once a batch has its delivery, the place after it is covered. *)
LEMMA CursorAdvances ==
  ASSUME Types, Sound, NEW w \in Workers, worker[w].pc = "cursor", NEW next,
         next = worker[w].pos + worker[w].size
  PROVE  /\ next <= Rows => Covered(next) /\ Aligned(next)
         /\ ~(next <= Rows) => Covered(Rows)
  <1>1. PICK z \in Nat \ {0}, p \in Nat : z = job.size /\ z = worker[w].size /\ p = worker[w].pos /\ p < Rows
    <2>1. "cursor" \in Working
      BY DEF Working, Reads
    <2>2. worker[w].size = job.size
      BY <2>1 DEF Sound, SoundFor
    <2>3. worker[w].pos \in Nat /\ worker[w].size \in Nat \ {0}
      BY ReplayAssumption DEF Types, WorkerType, Worker
    <2>4. worker[w].pos < Rows
      BY DEF Types, InBatch
    <2> QED
      BY <2>2, <2>3, <2>4
  <1>2. Covered(p) /\ Aligned(p) /\ cells[SeqOf(p, z)].st # "none"
    BY <1>1 DEF Sound, SoundFor, Reads, Seq
  <1>3. /\ Covered(p + z) /\ (p + z <= Rows => Aligned(p + z))
        /\ p + z > Rows => Covered(Rows)
    BY <1>1, <1>2, Advance
  <1>4. next = p + z /\ p + z \in Nat /\ Rows \in Nat
    BY <1>1, ReplayAssumption
  <1>5. next <= Rows => Covered(next) /\ Aligned(next)
    BY <1>3, <1>4
  <1>6. ~(next <= Rows) => p + z > Rows
    BY <1>4
  <1> QED
    BY <1>3, <1>5, <1>6

(* Every step keeps what lies before the saved cursor covered. *)
LEMMA JobKept ==
  ASSUME Types, SizeInv, JobInv, Sound, [Next]_vars
  PROVE  JobInv'
  <1>1. CASE \E w \in Workers : Pick(w) \/ Load(w) \/ ReadTimeline(w) \/ Send(w) \/ Record(w)
                                    \/ Detached(w) \/ Resend(w) \/ ResendRecord(w)
                                    \/ Finish(w) \/ Throws(w) \/ Crash(w) \/ Shutdown(w)
    <2>1. job' = job
      BY <1>1 DEF Pick, Load, ReadTimeline, Send, Record, Detached, Resend, ResendRecord, Finish, Throws,
                Crash, Shutdown
    <2> QED
      BY <2>1, CellsGrow, JobFrame DEF Types
  <1>2. CASE \/ UNCHANGED vars
             \/ \E s \in Seqs : Skip(s) \/ SingleBegin(s)
             \/ CancelRead \/ CancelTell \/ CancelRemove \/ SingleSend \/ SingleRecord \/ Stalled \/ LockLost \/ Boot
    <2>1. job' = job
      BY <1>2 DEF vars, Skip, SingleBegin, CancelRead, CancelTell, CancelRemove, SingleSend, SingleRecord, Stalled,
                LockLost, Boot
    <2> QED
      BY <2>1, CellsGrow, JobFrame DEF Types
  <1>3. ASSUME NEW w \in Workers, LoadSettled(w) PROVE JobInv'
    <2>1. /\ job'.cursor = job.cursor /\ (job'.streamed => job.streamed)
          /\ job'.status = "completed" => job.status = "completed" \/ job.streamed
      BY <1>3 DEF LoadSettled, Becomes, Types, JobType, Job
    <2>2. job'.size = job.size
      BY <1>3 DEF LoadSettled, Becomes, Types, JobType, Job, SizeInv
    <2> QED
      BY <2>1, <2>2, CellsGrow, JobFrame DEF Types
  <1>4. ASSUME NEW w \in Workers, Mark(w) PROVE JobInv'
    <2>1. /\ job'.cursor = job.cursor /\ (job'.streamed => job.streamed)
          /\ job'.status = "completed" => job.status = "completed" \/ job.streamed
      BY <1>4 DEF Mark, Becomes, Types, JobType, Job
    <2>2. job'.size = job.size
      BY <1>4 DEF Mark, Becomes, Types, JobType, Job, SizeInv
    <2> QED
      BY <2>1, <2>2, CellsGrow, JobFrame DEF Types
  <1>5. ASSUME NEW w \in Workers, Stopped(w) PROVE JobInv'
    <2>1. /\ job'.cursor = job.cursor /\ (job'.streamed => job.streamed)
          /\ job'.status = "completed" => job.status = "completed" \/ job.streamed
      BY <1>5 DEF Stopped, Becomes, Types, JobType, Job
    <2>2. job'.size = job.size
      BY <1>5 DEF Stopped, Becomes, Types, JobType, Job, SizeInv
    <2> QED
      BY <2>1, <2>2, CellsGrow, JobFrame DEF Types
  <1>6. ASSUME NEW w \in Workers, Look(w) PROVE JobInv'
    <2>1. /\ cells' = cells /\ job'.size = job.size /\ job'.cursor = job.cursor /\ job'.status = job.status
          /\ worker[w].pc = "look" /\ (job'.streamed => job.streamed \/ worker[w].pos >= Rows)
      BY <1>6 DEF Look, Looks, Types, JobType, Job
    <2>2. CASE worker[w].pos >= Rows
      <3>1. worker[w].pos = Rows
        <4>1. worker[w].pos \in 0 .. Rows
          BY DEF Types, WorkerType, Worker
        <4>2. Rows \in Nat
          BY ReplayAssumption
        <4> QED
          BY <2>2, <4>1, <4>2
      <3>2. Covered(Rows)
        BY <2>1, <3>1 DEF Sound, SoundFor, Reads
      <3> QED
        BY <2>1, <3>2 DEF JobInv, Covered, Aligned
    <2>3. CASE ~(worker[w].pos >= Rows)
      BY <2>1, <2>3, JobFrame
    <2> QED
      BY <2>2, <2>3
  <1>7. ASSUME NEW w \in Workers, Cursor(w) PROVE JobInv'
    <2>1. PICK next : next = worker[w].pos + worker[w].size
      OBVIOUS
    <2>2. PICK b \in {FALSE, job.streamed} :
            job' = IF next <= Rows THEN [job EXCEPT !.cursor = next, !.streamed = b] ELSE job
      BY <1>7, <2>1 DEF Cursor
    <2>3. cells' = cells
      BY <1>7 DEF Cursor
    <2>4. CASE ~(next <= Rows)
      <3>1. job' = job
        BY <2>2, <2>4
      <3> QED
        BY <2>3, <3>1, JobFrame
    <2>5. CASE next <= Rows
      <3>1. job' = [job EXCEPT !.cursor = next, !.streamed = b]
        BY <2>2, <2>5
      <3>2. /\ job'.cursor = next /\ job'.size = job.size /\ job'.status = job.status
            /\ job'.streamed => job.streamed
        BY <3>1 DEF Types, JobType, Job
      <3>3. Covered(next) /\ Aligned(next)
        BY <1>7, <2>1, <2>5, CursorAdvances DEF Cursor
      <3> QED
        BY <2>3, <3>2, <3>3 DEF JobInv, Covered, Aligned
    <2> QED
      BY <2>4, <2>5
  <1>8. ASSUME NEW w \in Workers, Finalize(w) PROVE JobInv'
    <2>1. /\ cells' = cells /\ job'.size = job.size /\ job'.cursor = job.cursor /\ job'.streamed = job.streamed
          /\ job'.status = "completed" => worker[w].pc = "streamed"
      BY <1>8 DEF Finalize, Becomes, Types, JobType, Job
    <2>2. CASE worker[w].pc = "streamed"
      <3>1. Covered(Rows)
        BY <2>2 DEF Sound, SoundFor, Reads
      <3> QED
        BY <2>1, <3>1 DEF JobInv, Covered, Aligned
    <2>3. CASE worker[w].pc # "streamed"
      BY <2>1, <2>3, JobFrame
    <2> QED
      BY <2>2, <2>3
  <1>9. ASSUME NEW w \in Workers, ResendDone(w) PROVE JobInv'
    <2>1. /\ job'.cursor = job.cursor /\ (job'.streamed => job.streamed)
          /\ job'.status = "completed" => job.status = "completed" \/ job.streamed
      BY <1>9 DEF ResendDone, Becomes, Types, JobType, Job
    <2>2. job'.size = job.size
      BY <1>9 DEF ResendDone, Becomes, Types, JobType, Job, SizeInv
    <2> QED
      BY <2>1, <2>2, CellsGrow, JobFrame DEF Types
  <1>10. ASSUME NEW w \in Workers, Drifted(w) PROVE JobInv'
    <2>1. /\ job'.cursor = job.cursor /\ (job'.streamed => job.streamed)
          /\ job'.status = "completed" => job.status = "completed" \/ job.streamed
      BY <1>10 DEF Drifted, Becomes, Types, JobType, Job
    <2>2. job'.size = job.size
      BY <1>10 DEF Drifted, Becomes, Types, JobType, Job, SizeInv
    <2> QED
      BY <2>1, <2>2, CellsGrow, JobFrame DEF Types
  <1>11. ASSUME NEW w \in Workers, Fails(w) PROVE JobInv'
    <2>1. /\ job'.cursor = job.cursor /\ (job'.streamed => job.streamed)
          /\ job'.status = "completed" => job.status = "completed" \/ job.streamed
      BY <1>11 DEF Fails, Becomes, Types, JobType, Job
    <2>2. job'.size = job.size
      BY <1>11 DEF Fails, Becomes, Types, JobType, Job, SizeInv
    <2> QED
      BY <2>1, <2>2, CellsGrow, JobFrame DEF Types
  <1>12. ASSUME NEW size \in Sizes, Edit(size) PROVE JobInv'
    <2>1. /\ job' = [job EXCEPT !.size = size] /\ cells' = cells
          /\ \A s \in Seqs : cells[s] = NoCell
      BY <1>12, EditEffect DEF SizeInv
    <2>2. job'.cursor = job.cursor /\ job'.streamed = job.streamed /\ job'.status = job.status /\ job'.size = size
      BY <2>1 DEF Types, JobType, Job
    <2>3. job.cursor \in Nat /\ Rows \in Nat /\ Rows # 0 /\ size \in Nat
      BY ReplayAssumption DEF Types, JobType, Job
    <2>4. job.cursor = 0
      BY <2>1, <2>3, NothingCovered DEF JobInv, Types
    <2>5. ~(job.streamed \/ job.status = "completed")
      BY <2>1, <2>3, NothingCovered DEF JobInv, Types
    <2>6. \A s \in Seqs : s * size >= 0
      BY <2>3 DEF Seqs, Positions
    <2>7. 0 = 0 * size
      BY <2>3
    <2>8. Covered(job.cursor)'
      <3>1. \A s \in Seqs : s \in Nat
        BY <2>3 DEF Seqs, Positions
      <3>2. \A s \in Seqs : ~(s * size < 0)
        BY <2>3, <3>1
      <3> QED
        BY <2>2, <2>4, <3>2 DEF Covered
    <2>9. Aligned(job.cursor)'
      BY <2>2, <2>4, <2>7 DEF Aligned
    <2> QED
      BY <2>2, <2>5, <2>8, <2>9 DEF JobInv
  <1>13. ASSUME Start PROVE JobInv'
    <2>1. /\ job'.cursor = job.cursor /\ (job'.streamed => job.streamed)
          /\ job'.status = "completed" => job.status = "completed" \/ job.streamed
      BY <1>13 DEF Start, Becomes, Types, JobType, Job
    <2>2. job'.size = job.size
      BY <1>13 DEF Start, Becomes, Types, JobType, Job, SizeInv
    <2> QED
      BY <2>1, <2>2, CellsGrow, JobFrame DEF Types
  <1>14. ASSUME RetryFailed PROVE JobInv'
    <2>1. job' = [status |-> "queued", cursor |-> 0, streamed |-> FALSE, size |-> config]
      BY <1>14 DEF RetryFailed
    <2>2. PICK z \in Nat : z = job'.size
      BY <2>1, ReplayAssumption DEF Types, JobType, Job
    <2>3. Covered(job.cursor)'
      <3>1. \A s \in Seqs : s \in Nat
        BY ReplayAssumption DEF Seqs, Positions
      <3>2. \A s \in Seqs : ~(s * z < 0)
        BY <3>1
      <3> QED
        BY <2>1, <2>2, <3>2 DEF Covered
    <2>4. Aligned(job.cursor)'
      <3>1. 0 = 0 * z
        OBVIOUS
      <3> QED
        BY <2>1, <2>2, <3>1 DEF Aligned
    <2> QED
      BY <2>1, <2>3, <2>4 DEF JobInv
  <1>15. ASSUME ResendFailed PROVE JobInv'
    <2>1. /\ job'.cursor = job.cursor /\ (job'.streamed => job.streamed)
          /\ job'.status = "completed" => job.status = "completed" \/ job.streamed
      BY <1>15 DEF ResendFailed, Becomes, Types, JobType, Job
    <2>2. job'.size = job.size
      BY <1>15 DEF ResendFailed, Becomes, Types, JobType, Job, SizeInv
    <2> QED
      BY <2>1, <2>2, CellsGrow, JobFrame DEF Types
  <1>16. ASSUME CancelMark PROVE JobInv'
    <2>1. /\ job'.cursor = job.cursor /\ (job'.streamed => job.streamed)
          /\ job'.status = "completed" => job.status = "completed" \/ job.streamed
      BY <1>16 DEF CancelMark, Becomes, Types, JobType, Job
    <2>2. job'.size = job.size
      BY <1>16 DEF CancelMark, Becomes, Types, JobType, Job, SizeInv
    <2> QED
      BY <2>1, <2>2, CellsGrow, JobFrame DEF Types
  <1>17. ASSUME SingleAfter PROVE JobInv'
    <2>1. /\ job'.cursor = job.cursor /\ (job'.streamed => job.streamed)
          /\ job'.status = "completed" => job.status = "completed" \/ job.streamed
      BY <1>17 DEF SingleAfter, Becomes, Types, JobType, Job
    <2>2. job'.size = job.size
      BY <1>17 DEF SingleAfter, Becomes, Types, JobType, Job, SizeInv
    <2> QED
      BY <2>1, <2>2, CellsGrow, JobFrame DEF Types
  <1> QED
    BY <1>1, <1>2, <1>3, <1>4, <1>5, <1>6, <1>7, <1>8, <1>9, <1>10, <1>11, <1>12, <1>13,
       <1>14, <1>15, <1>16, <1>17 DEF Next, Works, Asks, Cancels, Single

(* A worker that is not at the job. *)
LEMMA SoundIdle ==
  ASSUME NEW w \in Workers, worker'[w].pc \notin Working, worker'[w].todo = {}
  PROVE  SoundFor(w)'
  <1>1. /\ worker'[w].pc \notin Reads \union {"mark", "read"}
        /\ worker'[w].pc # "cursor" /\ worker'[w].pc # "streamed"
    BY DEF Working, Reads
  <1> QED
    BY <1>1 DEF SoundFor

(* A worker that no step moves. *)
LEMMA SoundFrame ==
  ASSUME NEW w \in Workers, SoundFor(w), job'.size = job.size, Types,
         \A s \in Seqs : cells[s].st # "none" => cells'[s].st # "none",
         worker'[w].pc = worker[w].pc, worker'[w].pos = worker[w].pos, worker'[w].size = worker[w].size,
         worker'[w].seen = worker[w].seen, worker'[w].todo \subseteq worker[w].todo
  PROVE  SoundFor(w)'
  <1>1. worker[w].pc = "cursor" => Seq(w) \in Seqs
    <2>1. worker[w].pos \in Nat /\ worker[w].size \in Nat \ {0}
      BY ReplayAssumption DEF Types, WorkerType, Worker
    <2> QED
      BY <2>1, SeqInSeqs DEF Types, InBatch, Seq
  <1>2. Seq(w)' = Seq(w)
    BY DEF Seq
  <1>3. \A s \in worker[w].todo : s \in Seqs
    BY DEF Types, WorkerType, Worker
  <1>4. worker'[w].pc \in Working =>
          /\ worker'[w].size = job'.size
          /\ \A s \in Seqs : worker'[w].seen[s].st # "none" => cells'[s].st # "none"
    BY DEF SoundFor
  <1>5. ASSUME worker'[w].pc \in Reads \union {"mark", "read"}
        PROVE  Covered(worker[w].pos)' /\ Aligned(worker[w].pos)'
    <2>1. Covered(worker[w].pos) /\ Aligned(worker[w].pos)
      BY <1>5 DEF SoundFor
    <2> QED
      BY <2>1 DEF Covered, Aligned
  <1>6. worker'[w].pc = "cursor" => cells'[Seq(w)'].st # "none"
    BY <1>1, <1>2 DEF SoundFor
  <1>7. worker'[w].pc = "streamed" => worker'[w].pos = Rows
    BY DEF SoundFor
  <1>8. worker'[w].todo # {} => worker'[w].pc \in Resends
    <2>1. worker'[w].todo # {} => worker[w].todo # {}
      OBVIOUS
    <2> QED
      BY <2>1 DEF SoundFor
  <1>9. \A s \in worker'[w].todo : cells'[s].st # "none"
    BY <1>3 DEF SoundFor
  <1> QED
    BY <1>4, <1>5, <1>6, <1>7, <1>8, <1>9 DEF SoundFor

(* Every step keeps what lies before a worker covered. *)
LEMMA SoundKept ==
  ASSUME Types, SizeInv, JobInv, Sound, [Next]_vars
  PROVE  Sound'
  <1>1. CASE \/ UNCHANGED vars
             \/ \E s \in Seqs : Skip(s) \/ SingleBegin(s)
             \/ Start \/ RetryFailed \/ ResendFailed \/ CancelRead \/ CancelMark \/ CancelRemove \/ SingleSend
             \/ SingleRecord \/ SingleAfter \/ Stalled \/ LockLost \/ Boot
    <2> SUFFICES ASSUME NEW v \in Workers PROVE SoundFor(v)'
      BY DEF Sound
    <2>1. worker' = worker
      BY <1>1 DEF vars, Skip, SingleBegin, Start, RetryFailed, ResendFailed, CancelRead, CancelMark, CancelRemove,
                SingleSend, SingleRecord, SingleAfter, Stalled, LockLost, Boot
    <2>2. job'.size = job.size \/ \E size \in Sizes : Edit(size)
      BY SameSize DEF Types
    <2>3. CASE job'.size = job.size
      BY <2>1, <2>3, CellsGrow, SoundFrame DEF Sound, Types
    <2>4. CASE \E size \in Sizes : Edit(size)
      <3>1. worker[v].pc = "idle"
        BY <2>4, EditEffect DEF SizeInv
      <3>2. worker[v].todo = {}
        BY <3>1 DEF Sound, SoundFor, Resends
      <3> QED
        BY <2>1, <3>1, <3>2, NotWorking, SoundIdle
    <2> QED
      BY <2>2, <2>3, <2>4
  <1>2. ASSUME NEW w \in Workers, Pick(w) PROVE Sound'
    <2> SUFFICES ASSUME NEW v \in Workers PROVE SoundFor(v)'
      BY DEF Sound
    <2>1. job'.size = job.size
      BY <1>2 DEF Pick, Becomes, Types, JobType, Job, SizeInv
    <2>2. CASE v # w
      <3>1. worker'[v] = worker[v]
        BY <1>2, <2>2 DEF Pick, Types, WorkerType
      <3> QED
        BY <2>1, <3>1, CellsGrow, SoundFrame DEF Sound, Types
    <2>3. CASE v = w
      <3>1. worker'[w].pc = "load" /\ worker'[w].todo = worker[w].todo /\ worker[w].pc = "idle"
        BY <1>2 DEF Pick, Types, WorkerType, Worker
      <3>2. worker[w].todo = {}
        BY <3>1 DEF Sound, SoundFor, Resends
      <3> QED
        BY <2>3, <3>1, <3>2, NotWorking, SoundIdle
    <2> QED
      BY <2>2, <2>3
  <1>3. ASSUME NEW w \in Workers, LoadSettled(w) PROVE Sound'
    <2> SUFFICES ASSUME NEW v \in Workers PROVE SoundFor(v)'
      BY DEF Sound
    <2>1. job'.size = job.size
      BY <1>3 DEF LoadSettled, Becomes, Types, JobType, Job, SizeInv
    <2>2. CASE v # w
      <3>1. worker'[v] = worker[v]
        BY <1>3, <2>2 DEF LoadSettled, Ends, Types, WorkerType
      <3> QED
        BY <2>1, <3>1, CellsGrow, SoundFrame DEF Sound, Types
    <2>3. CASE v = w
      <3>1. worker'[w].pc \notin Working /\ worker'[w].todo = {}
        BY <1>3, NotWorking DEF LoadSettled, Ends, Off, Types, WorkerType, Worker
      <3> QED
        BY <2>3, <3>1, SoundIdle
    <2> QED
      BY <2>2, <2>3
  <1>4. ASSUME NEW w \in Workers, Load(w) PROVE Sound'
    <2> SUFFICES ASSUME NEW v \in Workers PROVE SoundFor(v)'
      BY DEF Sound
    <2>1. job'.size = job.size
      BY <1>4 DEF Load, Becomes, Types, JobType, Job, SizeInv
    <2>2. CASE v # w
      <3>1. worker'[v] = worker[v]
        BY <1>4, <2>2 DEF Load, Types, WorkerType
      <3> QED
        BY <2>1, <3>1, CellsGrow, SoundFrame DEF Sound, Types
    <2>3. CASE v = w
      <3>1. worker'[w] = [Off EXCEPT !.pc = "mark", !.mode = entry.mode, !.pos = job.cursor, !.size = job.size]
        BY <1>4 DEF Load, Types, WorkerType
      <3>2. /\ worker'[w].pc = "mark" /\ worker'[w].pos = job.cursor /\ worker'[w].size = job.size
            /\ worker'[w].todo = {} /\ worker'[w].seen = [s \in Seqs |-> NoCell]
        BY <3>1 DEF Off
      <3>3. UNCHANGED <<job, cells>> /\ NoCell.st = "none"
        BY <1>4 DEF Load, NoCell
      <3>4. Covered(worker[w].pos)' /\ Aligned(worker[w].pos)'
        BY <3>2, <3>3 DEF JobInv, Covered, Aligned
      <3> QED
        BY <2>3, <3>2, <3>3, <3>4 DEF SoundFor
    <2> QED
      BY <2>2, <2>3
  <1>5. ASSUME NEW w \in Workers, ReadTimeline(w) PROVE Sound'
    <2> SUFFICES ASSUME NEW v \in Workers PROVE SoundFor(v)'
      BY DEF Sound
    <2>1. job'.size = job.size
      BY <1>5 DEF ReadTimeline, Becomes, Types, JobType, Job, SizeInv
    <2>2. CASE v # w
      <3>1. worker'[v] = worker[v]
        BY <1>5, <2>2 DEF ReadTimeline, Types, WorkerType
      <3> QED
        BY <2>1, <3>1, CellsGrow, SoundFrame DEF Sound, Types
    <2>3. CASE v = w
      <3>1. /\ worker'[w].pc = IF worker[w].mode = "job" THEN "look" ELSE "resend"
            /\ worker'[w].todo = IF worker[w].mode = "job" THEN {} ELSE FailedSeqs
            /\ worker'[w].pos = worker[w].pos /\ worker'[w].size = worker[w].size /\ worker'[w].seen = cells
        BY <1>5 DEF ReadTimeline, Types, WorkerType, Worker
      <3>2. cells' = cells /\ worker[w].pc = "read" /\ "read" \in Working
        BY <1>5 DEF ReadTimeline, Working
      <3>3. worker[w].size = job.size /\ Covered(worker[w].pos) /\ Aligned(worker[w].pos)
        BY <3>2 DEF Sound, SoundFor
      <3>4. Covered(worker[w].pos)' /\ Aligned(worker[w].pos)'
        BY <2>1, <3>1, <3>2, <3>3 DEF Covered, Aligned
      <3>5. \A s \in FailedSeqs : cells[s].st # "none"
        BY DEF FailedSeqs
      <3> QED
        BY <2>1, <2>3, <3>1, <3>2, <3>3, <3>4, <3>5 DEF SoundFor, Resends
    <2> QED
      BY <2>2, <2>3
  <1>6. ASSUME NEW w \in Workers, Stopped(w) PROVE Sound'
    <2> SUFFICES ASSUME NEW v \in Workers PROVE SoundFor(v)'
      BY DEF Sound
    <2>1. job'.size = job.size
      BY <1>6 DEF Stopped, Becomes, Types, JobType, Job, SizeInv
    <2>2. CASE v # w
      <3>1. worker'[v] = worker[v]
        BY <1>6, <2>2 DEF Stopped, Ends, Types, WorkerType
      <3> QED
        BY <2>1, <3>1, CellsGrow, SoundFrame DEF Sound, Types
    <2>3. CASE v = w
      <3>1. worker'[w].pc \notin Working /\ worker'[w].todo = {}
        BY <1>6, NotWorking DEF Stopped, Ends, Off, Types, WorkerType, Worker
      <3> QED
        BY <2>3, <3>1, SoundIdle
    <2> QED
      BY <2>2, <2>3
  <1>7. ASSUME NEW w \in Workers, Look(w) PROVE Sound'
    <2> SUFFICES ASSUME NEW v \in Workers PROVE SoundFor(v)'
      BY DEF Sound
    <2>1. job'.size = job.size
      BY <1>7 DEF Look, Becomes, Types, JobType, Job, SizeInv
    <2>2. CASE v # w
      <3>1. worker'[v] = worker[v]
        BY <1>7, <2>2 DEF Look, Looks, Types, WorkerType
      <3> QED
        BY <2>1, <3>1, CellsGrow, SoundFrame DEF Sound, Types
    <2>3. CASE v = w
      <3>1. PICK seen \in NowSeen(w) :
              worker' = [worker EXCEPT ![w].seen = seen, ![w].out = Targets,
                                       ![w].pc = IF worker[w].pos >= Rows THEN "streamed"
                                                 ELSE IF Settled(seen[Seq(w)]) THEN "cursor" ELSE "send"]
        BY <1>7 DEF Look, Looks
      <3>2. cells' = cells /\ worker[w].pc = "look" /\ "look" \in Working /\ "look" \in Reads
        BY <1>7 DEF Look, Looks, Working, Reads
      <3>3. /\ worker'[w].seen = seen /\ worker'[w].pos = worker[w].pos /\ worker'[w].size = worker[w].size
            /\ worker'[w].todo = worker[w].todo
            /\ worker'[w].pc = IF worker[w].pos >= Rows THEN "streamed"
                               ELSE IF Settled(seen[Seq(w)]) THEN "cursor" ELSE "send"
        BY <3>1 DEF Types, WorkerType, Worker
      <3>4. /\ worker[w].size = job.size /\ Covered(worker[w].pos) /\ Aligned(worker[w].pos)
            /\ worker[w].todo = {}
        BY <3>2 DEF Sound, SoundFor, Resends
      <3>5. \A s \in Seqs : seen[s].st # "none" => cells[s].st # "none"
        BY <3>2 DEF NowSeen, Sound, SoundFor
      <3>6. Covered(worker[w].pos)' /\ Aligned(worker[w].pos)'
        BY <2>1, <3>2, <3>3, <3>4 DEF Covered, Aligned
      <3>7. worker[w].pos >= Rows => worker[w].pos = Rows
        <4>1. worker[w].pos \in 0 .. Rows
          BY DEF Types, WorkerType, Worker
        <4>2. Rows \in Nat
          BY ReplayAssumption
        <4> QED
          BY <4>1, <4>2
      <3>8. worker'[w].pc = "cursor" => cells[Seq(w)].st # "none"
        <4>1. ~(worker[w].pos >= Rows) => Seq(w) \in Seqs
          <5>1. worker[w].pos \in Nat /\ worker[w].size \in Nat \ {0}
            BY ReplayAssumption DEF Types, WorkerType, Worker
          <5>2. ~(worker[w].pos >= Rows) => worker[w].pos < Rows
            BY <5>1, ReplayAssumption
          <5> QED
            BY <5>1, <5>2, SeqInSeqs DEF Seq
        <4> QED
          BY <3>3, <3>5, <4>1 DEF Settled
      <3>9. Seq(w)' = Seq(w)
        BY <3>3 DEF Seq
      <3> QED
        BY <2>1, <2>3, <3>2, <3>3, <3>4, <3>5, <3>6, <3>7, <3>8, <3>9 DEF SoundFor
    <2> QED
      BY <2>2, <2>3
  <1>8. ASSUME NEW w \in Workers, Send(w) PROVE Sound'
    <2> SUFFICES ASSUME NEW v \in Workers PROVE SoundFor(v)'
      BY DEF Sound
    <2>1. job'.size = job.size
      BY <1>8 DEF Send, Becomes, Types, JobType, Job, SizeInv
    <2>2. CASE v # w
      <3>1. worker'[v] = worker[v]
        BY <1>8, <2>2 DEF Send, Types, WorkerType
      <3> QED
        BY <2>1, <3>1, CellsGrow, SoundFrame DEF Sound, Types
    <2>3. CASE v = w
      <3>1. PICK out : worker' = [worker EXCEPT ![w].out = out, ![w].pc = "record"]
        BY <1>8 DEF Send
      <3>2. /\ worker'[w].pc = "record" /\ worker'[w].pos = worker[w].pos /\ worker'[w].size = worker[w].size
            /\ worker'[w].seen = worker[w].seen /\ worker'[w].todo = worker[w].todo
        BY <3>1 DEF Types, WorkerType, Worker
      <3>3. cells' = cells /\ worker[w].pc = "send" /\ "send" \in Working /\ "send" \in Reads
        BY <1>8 DEF Send, Working, Reads
      <3>4. /\ worker[w].size = job.size /\ Covered(worker[w].pos) /\ Aligned(worker[w].pos)
            /\ worker[w].todo = {} /\ \A s \in Seqs : worker[w].seen[s].st # "none" => cells[s].st # "none"
        BY <3>3 DEF Sound, SoundFor, Resends
      <3>5. Covered(worker[w].pos)' /\ Aligned(worker[w].pos)'
        BY <2>1, <3>2, <3>3, <3>4 DEF Covered, Aligned
      <3> QED
        BY <2>1, <2>3, <3>2, <3>3, <3>4, <3>5 DEF SoundFor
    <2> QED
      BY <2>2, <2>3
  <1>9. ASSUME NEW w \in Workers, Record(w) PROVE Sound'
    <2> SUFFICES ASSUME NEW v \in Workers PROVE SoundFor(v)'
      BY DEF Sound
    <2>1. job'.size = job.size
      BY <1>9 DEF Record, Becomes, Types, JobType, Job, SizeInv
    <2>2. CASE v # w
      <3>1. worker'[v] = worker[v]
        BY <1>9, <2>2 DEF Record, Goes, Types, WorkerType
      <3> QED
        BY <2>1, <3>1, CellsGrow, SoundFrame DEF Sound, Types
    <2>3. CASE v = w
      <3>1. /\ worker'[w].pc = "cursor" /\ worker'[w].pos = worker[w].pos /\ worker'[w].size = worker[w].size
            /\ worker'[w].seen = worker[w].seen /\ worker'[w].todo = worker[w].todo
        BY <1>9 DEF Record, Goes, Types, WorkerType, Worker
      <3>2. worker[w].pc = "record" /\ "record" \in Working /\ "record" \in Reads
        BY <1>9 DEF Record, Working, Reads
      <3>3. /\ worker[w].size = job.size /\ Covered(worker[w].pos) /\ Aligned(worker[w].pos)
            /\ worker[w].todo = {} /\ \A s \in Seqs : worker[w].seen[s].st # "none" => cells[s].st # "none"
        BY <3>2 DEF Sound, SoundFor, Resends
      <3>4. \A s \in Seqs : cells[s].st # "none" => cells'[s].st # "none"
        BY CellsGrow DEF Types
      <3>5. Covered(worker[w].pos)' /\ Aligned(worker[w].pos)'
        BY <2>1, <3>1, <3>3, <3>4 DEF Covered, Aligned
      <3>6. Seq(w)' = Seq(w)
        BY <3>1 DEF Seq
      <3>7. cells'[Seq(w)].st # "none"
        <4>1. worker[w].pos \in Nat /\ worker[w].size \in Nat \ {0} /\ worker[w].pos < Rows
          BY <3>2, ReplayAssumption DEF Types, WorkerType, Worker, InBatch
        <4>2. Seq(w) \in Seqs
          BY <4>1, SeqInSeqs DEF Seq
        <4>3. cells' = [cells EXCEPT ![Seq(w)] = Recorded(cells[Seq(w)], Batch(w), worker[w].out)]
          BY <1>9 DEF Record
        <4> QED
          BY <4>2, <4>3 DEF Types, TimelineType, Recorded
      <3> QED
        BY <2>1, <2>3, <3>1, <3>2, <3>3, <3>4, <3>5, <3>6, <3>7 DEF SoundFor
    <2> QED
      BY <2>2, <2>3
  <1>10. ASSUME NEW w \in Workers, Cursor(w) PROVE Sound'
    <2> SUFFICES ASSUME NEW v \in Workers PROVE SoundFor(v)'
      BY DEF Sound
    <2>1. job'.size = job.size
      BY <1>10 DEF Cursor, Becomes, Types, JobType, Job, SizeInv
    <2>2. CASE v # w
      <3>1. worker'[v] = worker[v]
        BY <1>10, <2>2 DEF Cursor, Types, WorkerType
      <3> QED
        BY <2>1, <3>1, CellsGrow, SoundFrame DEF Sound, Types
    <2>3. CASE v = w
      <3>1. PICK next : next = worker[w].pos + worker[w].size
        OBVIOUS
      <3>2. PICK pos : pos = IF next <= Rows THEN next ELSE Rows
        OBVIOUS
      <3>3. PICK pc \in {"stop", "look"} :
              worker' = [worker EXCEPT ![w].pos = pos, ![w].out = {}, ![w].pc = pc]
        BY <1>10, <3>1, <3>2 DEF Cursor
      <3>4. /\ worker'[w].pc = pc /\ worker'[w].pos = pos /\ worker'[w].size = worker[w].size
            /\ worker'[w].seen = worker[w].seen /\ worker'[w].todo = worker[w].todo
        BY <3>3 DEF Types, WorkerType, Worker
      <3>5. cells' = cells /\ worker[w].pc = "cursor" /\ "cursor" \in Working
        BY <1>10 DEF Cursor, Working, Reads
      <3>6. Covered(pos) /\ Aligned(pos)
        <4>1. Aligned(Rows)
          BY DEF Aligned
        <4> QED
          BY <3>1, <3>2, <3>5, <4>1, CursorAdvances
      <3>7. Covered(worker[w].pos)' /\ Aligned(worker[w].pos)'
        BY <2>1, <3>4, <3>5, <3>6 DEF Covered, Aligned
      <3>8. /\ worker[w].size = job.size /\ worker[w].todo = {}
            /\ \A s \in Seqs : worker[w].seen[s].st # "none" => cells[s].st # "none"
        BY <3>5 DEF Sound, SoundFor, Resends
      <3> QED
        BY <2>1, <2>3, <3>3, <3>4, <3>5, <3>7, <3>8 DEF SoundFor
    <2> QED
      BY <2>2, <2>3
  <1>11. ASSUME NEW w \in Workers, Finalize(w) PROVE Sound'
    <2> SUFFICES ASSUME NEW v \in Workers PROVE SoundFor(v)'
      BY DEF Sound
    <2>1. job'.size = job.size
      BY <1>11 DEF Finalize, Becomes, Types, JobType, Job, SizeInv
    <2>2. CASE v # w
      <3>1. worker'[v] = worker[v]
        BY <1>11, <2>2 DEF Finalize, Ends, Types, WorkerType
      <3> QED
        BY <2>1, <3>1, CellsGrow, SoundFrame DEF Sound, Types
    <2>3. CASE v = w
      <3>1. worker'[w].pc \notin Working /\ worker'[w].todo = {}
        BY <1>11, NotWorking DEF Finalize, Ends, Off, Types, WorkerType, Worker
      <3> QED
        BY <2>3, <3>1, SoundIdle
    <2> QED
      BY <2>2, <2>3
  <1>12. ASSUME NEW w \in Workers, Detached(w) PROVE Sound'
    <2> SUFFICES ASSUME NEW v \in Workers PROVE SoundFor(v)'
      BY DEF Sound
    <2>1. job'.size = job.size
      BY <1>12 DEF Detached, Becomes, Types, JobType, Job, SizeInv
    <2>2. CASE v # w
      <3>1. worker'[v] = worker[v]
        BY <1>12, <2>2 DEF Detached, Ends, Types, WorkerType
      <3> QED
        BY <2>1, <3>1, CellsGrow, SoundFrame DEF Sound, Types
    <2>3. CASE v = w
      <3>1. worker'[w].pc \notin Working /\ worker'[w].todo = {}
        BY <1>12, NotWorking DEF Detached, Ends, Off, Types, WorkerType, Worker
      <3> QED
        BY <2>3, <3>1, SoundIdle
    <2> QED
      BY <2>2, <2>3
  <1>13. ASSUME NEW w \in Workers, Resend(w) PROVE Sound'
    <2> SUFFICES ASSUME NEW v \in Workers PROVE SoundFor(v)'
      BY DEF Sound
    <2>1. job'.size = job.size
      BY <1>13 DEF Resend, Becomes, Types, JobType, Job, SizeInv
    <2>2. CASE v # w
      <3>1. worker'[v] = worker[v]
        BY <1>13, <2>2 DEF Resend, Types, WorkerType
      <3> QED
        BY <2>1, <3>1, CellsGrow, SoundFrame DEF Sound, Types
    <2>3. CASE v = w
      <3>1. /\ worker'[w].pc = "resendRecord" /\ worker'[w].size = worker[w].size
            /\ worker'[w].seen = worker[w].seen /\ worker'[w].todo \subseteq worker[w].todo
        BY <1>13 DEF Resend, Types, WorkerType, Worker
      <3>2. worker[w].pc = "resend" /\ "resend" \in Working /\ "resendRecord" \in Resends /\ "resendRecord" \notin Reads
        BY <1>13 DEF Resend, Working, Reads, Resends
      <3>3. /\ worker[w].size = job.size
            /\ \A s \in Seqs : worker[w].seen[s].st # "none" => cells[s].st # "none"
            /\ \A s \in worker[w].todo : cells[s].st # "none" /\ s \in Seqs
        BY <3>2 DEF Sound, SoundFor, Types, WorkerType, Worker
      <3>4. \A s \in Seqs : cells[s].st # "none" => cells'[s].st # "none"
        BY CellsGrow DEF Types
      <3> QED
        BY <2>1, <2>3, <3>1, <3>2, <3>3, <3>4 DEF SoundFor
    <2> QED
      BY <2>2, <2>3
  <1>14. ASSUME NEW w \in Workers, ResendRecord(w) PROVE Sound'
    <2> SUFFICES ASSUME NEW v \in Workers PROVE SoundFor(v)'
      BY DEF Sound
    <2>1. job'.size = job.size
      BY <1>14 DEF ResendRecord, Becomes, Types, JobType, Job, SizeInv
    <2>2. CASE v # w
      <3>1. worker'[v] = worker[v]
        BY <1>14, <2>2 DEF ResendRecord, Types, WorkerType
      <3> QED
        BY <2>1, <3>1, CellsGrow, SoundFrame DEF Sound, Types
    <2>3. CASE v = w
      <3>1. /\ worker'[w].pc = "resend" /\ worker'[w].size = worker[w].size
            /\ worker'[w].seen = worker[w].seen /\ worker'[w].todo \subseteq worker[w].todo
        BY <1>14 DEF ResendRecord, Types, WorkerType, Worker
      <3>2. worker[w].pc = "resendRecord" /\ "resendRecord" \in Working /\ "resend" \in Resends /\ "resend" \notin Reads
        BY <1>14 DEF ResendRecord, Working, Reads, Resends
      <3>3. /\ worker[w].size = job.size
            /\ \A s \in Seqs : worker[w].seen[s].st # "none" => cells[s].st # "none"
            /\ \A s \in worker[w].todo : cells[s].st # "none" /\ s \in Seqs
        BY <3>2 DEF Sound, SoundFor, Types, WorkerType, Worker
      <3>4. \A s \in Seqs : cells[s].st # "none" => cells'[s].st # "none"
        BY CellsGrow DEF Types
      <3> QED
        BY <2>1, <2>3, <3>1, <3>2, <3>3, <3>4 DEF SoundFor
    <2> QED
      BY <2>2, <2>3
  <1>15. ASSUME NEW w \in Workers, ResendDone(w) PROVE Sound'
    <2> SUFFICES ASSUME NEW v \in Workers PROVE SoundFor(v)'
      BY DEF Sound
    <2>1. job'.size = job.size
      BY <1>15 DEF ResendDone, Becomes, Types, JobType, Job, SizeInv
    <2>2. CASE v # w
      <3>1. worker'[v] = worker[v]
        BY <1>15, <2>2 DEF ResendDone, Ends, Types, WorkerType
      <3> QED
        BY <2>1, <3>1, CellsGrow, SoundFrame DEF Sound, Types
    <2>3. CASE v = w
      <3>1. CASE Ends(w)
        <4>1. worker'[w].pc \notin Working /\ worker'[w].todo = {}
          BY <3>1, NotWorking DEF Ends, Off, Types, WorkerType
        <4> QED
          BY <2>3, <4>1, SoundIdle
      <3>2. CASE /\ job' = [job EXCEPT !.size = config]
                 /\ worker' = [worker EXCEPT ![w].pc = "mark", ![w].mode = "job",
                                             ![w].pos = job.cursor, ![w].size = config]
        <4>1. /\ worker'[w].pc = "mark" /\ worker'[w].pos = job.cursor /\ worker'[w].size = config
              /\ worker'[w].seen = worker[w].seen /\ worker'[w].todo = worker[w].todo
          BY <3>2 DEF Types, WorkerType, Worker
        <4>2. cells' = cells /\ worker[w].pc = "resend" /\ worker[w].todo = {} /\ "resend" \in Working
          BY <1>15 DEF ResendDone, Working, Resends
        <4>3. /\ config = job.size
              /\ \A s \in Seqs : worker[w].seen[s].st # "none" => cells[s].st # "none"
          BY <4>2 DEF SizeInv, Sound, SoundFor
        <4>4. Covered(worker[w].pos)' /\ Aligned(worker[w].pos)'
          BY <2>1, <4>1, <4>2 DEF JobInv, Covered, Aligned
        <4> QED
          BY <2>1, <2>3, <4>1, <4>2, <4>3, <4>4 DEF SoundFor
      <3> QED
        BY <1>15, <3>1, <3>2 DEF ResendDone
    <2> QED
      BY <2>2, <2>3
  <1>16. ASSUME NEW w \in Workers, Finish(w) PROVE Sound'
    <2> SUFFICES ASSUME NEW v \in Workers PROVE SoundFor(v)'
      BY DEF Sound
    <2>1. job'.size = job.size
      BY <1>16 DEF Finish, Becomes, Types, JobType, Job, SizeInv
    <2>2. CASE v # w
      <3>1. worker'[v] = worker[v]
        BY <1>16, <2>2 DEF Finish, Types, WorkerType
      <3> QED
        BY <2>1, <3>1, CellsGrow, SoundFrame DEF Sound, Types
    <2>3. CASE v = w
      <3>1. worker'[w].pc \notin Working /\ worker'[w].todo = {}
        BY <1>16, NotWorking DEF Finish, Off, Types, WorkerType, Worker
      <3> QED
        BY <2>3, <3>1, SoundIdle
    <2> QED
      BY <2>2, <2>3
  <1>17. ASSUME NEW w \in Workers, Drifted(w) PROVE Sound'
    <2> SUFFICES ASSUME NEW v \in Workers PROVE SoundFor(v)'
      BY DEF Sound
    <2>1. job'.size = job.size
      BY <1>17 DEF Drifted, Becomes, Types, JobType, Job, SizeInv
    <2>2. CASE v # w
      <3>1. worker'[v] = worker[v]
        BY <1>17, <2>2 DEF Drifted, Ends, Types, WorkerType
      <3> QED
        BY <2>1, <3>1, CellsGrow, SoundFrame DEF Sound, Types
    <2>3. CASE v = w
      <3>1. worker'[w].pc \notin Working /\ worker'[w].todo = {}
        BY <1>17, NotWorking DEF Drifted, Ends, Off, Types, WorkerType, Worker
      <3> QED
        BY <2>3, <3>1, SoundIdle
    <2> QED
      BY <2>2, <2>3
  <1>18. ASSUME NEW w \in Workers, Throws(w) PROVE Sound'
    <2> SUFFICES ASSUME NEW v \in Workers PROVE SoundFor(v)'
      BY DEF Sound
    <2>1. job'.size = job.size
      BY <1>18 DEF Throws, Becomes, Types, JobType, Job, SizeInv
    <2>2. CASE v # w
      <3>1. worker'[v] = worker[v]
        BY <1>18, <2>2 DEF Throws, Types, WorkerType
      <3> QED
        BY <2>1, <3>1, CellsGrow, SoundFrame DEF Sound, Types
    <2>3. CASE v = w
      <3>1. worker'[w].pc \notin Working /\ worker'[w].todo = {}
        BY <1>18, NotWorking DEF Throws, Off, Types, WorkerType, Worker
      <3> QED
        BY <2>3, <3>1, SoundIdle
    <2> QED
      BY <2>2, <2>3
  <1>19. ASSUME NEW w \in Workers, Fails(w) PROVE Sound'
    <2> SUFFICES ASSUME NEW v \in Workers PROVE SoundFor(v)'
      BY DEF Sound
    <2>1. job'.size = job.size
      BY <1>19 DEF Fails, Becomes, Types, JobType, Job, SizeInv
    <2>2. CASE v # w
      <3>1. worker'[v] = worker[v]
        BY <1>19, <2>2 DEF Fails, Ends, Types, WorkerType
      <3> QED
        BY <2>1, <3>1, CellsGrow, SoundFrame DEF Sound, Types
    <2>3. CASE v = w
      <3>1. worker'[w].pc \notin Working /\ worker'[w].todo = {}
        BY <1>19, NotWorking DEF Fails, Ends, Off, Types, WorkerType, Worker
      <3> QED
        BY <2>3, <3>1, SoundIdle
    <2> QED
      BY <2>2, <2>3
  <1>20. ASSUME NEW w \in Workers, Crash(w) PROVE Sound'
    <2> SUFFICES ASSUME NEW v \in Workers PROVE SoundFor(v)'
      BY DEF Sound
    <2>1. job'.size = job.size
      BY <1>20 DEF Crash, Becomes, Types, JobType, Job, SizeInv
    <2>2. CASE v # w
      <3>1. worker'[v] = worker[v]
        BY <1>20, <2>2 DEF Crash, Types, WorkerType
      <3> QED
        BY <2>1, <3>1, CellsGrow, SoundFrame DEF Sound, Types
    <2>3. CASE v = w
      <3>1. worker'[w].pc \notin Working /\ worker'[w].todo = {}
        BY <1>20, NotWorking DEF Crash, Off, Types, WorkerType, Worker
      <3> QED
        BY <2>3, <3>1, SoundIdle
    <2> QED
      BY <2>2, <2>3
  <1>21. ASSUME NEW w \in Workers, Shutdown(w) PROVE Sound'
    <2> SUFFICES ASSUME NEW v \in Workers PROVE SoundFor(v)'
      BY DEF Sound
    <2>1. job'.size = job.size
      BY <1>21 DEF Shutdown, Becomes, Types, JobType, Job, SizeInv
    <2>2. CASE v # w
      <3>1. worker'[v] = worker[v]
        BY <1>21, <2>2 DEF Shutdown, Types, WorkerType
      <3> QED
        BY <2>1, <3>1, CellsGrow, SoundFrame DEF Sound, Types
    <2>3. CASE v = w
      <3>1. /\ worker'[w].pc = worker[w].pc /\ worker'[w].pos = worker[w].pos /\ worker'[w].size = worker[w].size
            /\ worker'[w].seen = worker[w].seen /\ worker'[w].todo = worker[w].todo
        BY <1>21 DEF Shutdown, Types, WorkerType, Worker
      <3> QED
        BY <2>1, <2>3, <3>1, CellsGrow, SoundFrame DEF Sound, Types
    <2> QED
      BY <2>2, <2>3
  <1>22. ASSUME NEW size \in Sizes, Edit(size) PROVE Sound'
    <2> SUFFICES ASSUME NEW v \in Workers PROVE SoundFor(v)'
      BY DEF Sound
    <2>1. worker' = worker /\ worker[v].pc = "idle"
      BY <1>22, EditEffect DEF SizeInv
    <2>2. worker[v].todo = {}
      BY <2>1 DEF Sound, SoundFor, Resends
    <2> QED
      BY <2>1, <2>2, NotWorking, SoundIdle
  <1>23. ASSUME CancelTell PROVE Sound'
    <2> SUFFICES ASSUME NEW v \in Workers PROVE SoundFor(v)'
      BY DEF Sound
    <2>1. job'.size = job.size
      BY <1>23 DEF CancelTell, Becomes, Types, JobType, Job
    <2>2. /\ worker'[v].pc = worker[v].pc /\ worker'[v].pos = worker[v].pos /\ worker'[v].size = worker[v].size
          /\ worker'[v].seen = worker[v].seen /\ worker'[v].todo = worker[v].todo
      BY <1>23 DEF CancelTell, Types, WorkerType, Worker
    <2> QED
      BY <2>1, <2>2, CellsGrow, SoundFrame DEF Sound, Types
  <1>24. ASSUME NEW w \in Workers, Mark(w) PROVE Sound'
    <2> SUFFICES ASSUME NEW v \in Workers PROVE SoundFor(v)'
      BY DEF Sound
    <2>1. job'.size = job.size /\ cells' = cells
      BY <1>24 DEF Mark, Becomes, Types, JobType, Job, SizeInv
    <2>2. CASE v # w
      <3>1. worker'[v] = worker[v]
        BY <1>24, <2>2 DEF Mark, Goes, Types, WorkerType
      <3> QED
        BY <2>1, <3>1, CellsGrow, SoundFrame DEF Sound, Types
    <2>3. CASE v = w
      <3>1. /\ worker'[w].pc = "read" /\ worker'[w].pos = worker[w].pos /\ worker'[w].size = worker[w].size
            /\ worker'[w].seen = worker[w].seen /\ worker'[w].todo = worker[w].todo
        BY <1>24 DEF Mark, Goes, Types, WorkerType, Worker
      <3>2. worker[w].pc = "mark" /\ "mark" \in Working /\ "mark" \notin Resends
        BY <1>24 DEF Mark, Working, Resends
      <3>3. /\ worker[w].size = job.size /\ Covered(worker[w].pos) /\ Aligned(worker[w].pos)
            /\ worker[w].todo = {} /\ \A s \in Seqs : worker[w].seen[s].st # "none" => cells[s].st # "none"
        BY <3>2 DEF Sound, SoundFor
      <3>4. Covered(worker[w].pos)' /\ Aligned(worker[w].pos)'
        BY <2>1, <3>1, <3>3 DEF Covered, Aligned
      <3> QED
        BY <2>1, <2>3, <3>1, <3>3, <3>4 DEF SoundFor
    <2> QED
      BY <2>2, <2>3
  <1> QED
    BY <1>1, <1>2, <1>3, <1>4, <1>5, <1>6, <1>7, <1>8, <1>9, <1>10, <1>11, <1>12, <1>13,
       <1>14, <1>15, <1>16, <1>17, <1>18, <1>19, <1>20, <1>21, <1>22, <1>23, <1>24 DEF Next, Works, Asks, Cancels, Single

(* Every step keeps what is sent again singly in the timeline. *)
LEMMA OnceSentKept ==
  ASSUME Types, OnceSent, [Next]_vars
  PROVE  OnceSent'
  <1>1. CASE \E w \in Workers : Pick(w) \/ LoadSettled(w) \/ Load(w) \/ Mark(w) \/ ReadTimeline(w)
                                    \/ Stopped(w) \/ Look(w) \/ Send(w) \/ Record(w)
                                    \/ Cursor(w) \/ Finalize(w) \/ Detached(w) \/ Resend(w)
                                    \/ ResendRecord(w) \/ ResendDone(w) \/ Finish(w)
                                    \/ Drifted(w) \/ Throws(w) \/ Fails(w) \/ Crash(w)
                                    \/ Shutdown(w)
    <2>1. PICK w \in Workers : \/ Pick(w) \/ LoadSettled(w) \/ Load(w) \/ Mark(w) \/ ReadTimeline(w)
                              \/ Stopped(w) \/ Look(w) \/ Send(w) \/ Record(w)
                              \/ Cursor(w) \/ Finalize(w) \/ Detached(w) \/ Resend(w)
                              \/ ResendRecord(w) \/ ResendDone(w) \/ Finish(w)
                              \/ Drifted(w) \/ Throws(w) \/ Fails(w) \/ Crash(w)
                              \/ Shutdown(w)
      BY <1>1
    <2>2. ASSUME \/ Pick(w) \/ LoadSettled(w) \/ Load(w) \/ Mark(w) \/ ReadTimeline(w) \/ Stopped(w) \/ Look(w)
                 \/ Send(w)
          PROVE  single' = single
      BY <2>2 DEF Pick, LoadSettled, Load, Mark, ReadTimeline, Stopped, Look, Send
    <2>3. ASSUME \/ Record(w) \/ Cursor(w) \/ Finalize(w) \/ Detached(w) \/ Resend(w)
                 \/ ResendRecord(w)
          PROVE  single' = single
      BY <2>3 DEF Record, Cursor, Finalize, Detached, Resend, ResendRecord
    <2>4. ASSUME \/ ResendDone(w) \/ Finish(w) \/ Drifted(w) \/ Throws(w) \/ Fails(w)
                 \/ Crash(w) \/ Shutdown(w)
          PROVE  single' = single
      BY <2>4 DEF ResendDone, Finish, Drifted, Throws, Fails, Crash, Shutdown
    <2>5. single' = single
      BY <2>1, <2>2, <2>3, <2>4
    <2>6. single.seq \in Seqs
      BY DEF Types, SingleType, OneRetry
    <2> QED
      BY <2>5, <2>6, CellsGrow DEF OnceSent, Types
  <1>2. CASE \/ UNCHANGED vars
             \/ \E size \in Sizes : Edit(size)
             \/ \E s \in Seqs : Skip(s)
             \/ Start \/ RetryFailed \/ ResendFailed \/ CancelRead \/ CancelMark \/ CancelTell \/ CancelRemove
             \/ Stalled \/ LockLost \/ Boot
    <2>1. single' = single /\ single.seq \in Seqs
      BY <1>2 DEF vars, Edit, Skip, Start, RetryFailed, ResendFailed, CancelRead, CancelMark, CancelTell, CancelRemove,
                Stalled, LockLost, Boot, Types, SingleType, OneRetry
    <2> QED
      BY <2>1, CellsGrow DEF OnceSent, Types
  <1>3. ASSUME NEW s \in Seqs, SingleBegin(s) PROVE OnceSent'
    BY <1>3 DEF SingleBegin, OnceSent
  <1>4. ASSUME SingleSend PROVE OnceSent'
    <2>1. single.pc # "idle" /\ single'.seq = single.seq /\ single.seq \in Seqs
      BY <1>4 DEF SingleSend, Types, SingleType, OneRetry
    <2> QED
      BY <2>1, CellsGrow DEF OnceSent, Types
  <1>5. ASSUME SingleRecord PROVE OnceSent'
    <2>1. single.pc # "idle" /\ single'.seq = single.seq /\ single.seq \in Seqs
      BY <1>5 DEF SingleRecord, Types, SingleType, OneRetry
    <2> QED
      BY <2>1, CellsGrow DEF OnceSent, Types
  <1>6. ASSUME SingleAfter PROVE OnceSent'
    BY <1>6 DEF SingleAfter, NoSingle, OnceSent
  <1> QED
    BY <1>1, <1>2, <1>3, <1>4, <1>5, <1>6 DEF Next, Works, Asks, Cancels, Single

(* Nothing was done at the start... *)
LEMMA InitDone == Budgets["edit"] = 0 /\ Init => DoneInv
  <1> SUFFICES ASSUME Budgets["edit"] = 0, Init PROVE DoneInv
    OBVIOUS
  <1>1. Types
    BY InitTypes
  <1>2. job = [status |-> "draft", cursor |-> 0, streamed |-> FALSE, size |-> config]
    BY DEF Init
  <1>3. SizeInv
    BY <1>2 DEF Init, SizeInv, NoEntry, Off
  <1>4. CellInv /\ OnceSent
    BY DEF Init, CellInv, OnceSent, NoCell, NoSingle
  <1>5. JobInv
    <2>1. PICK z \in Nat : z = job.size
      BY <1>1, ReplayAssumption DEF Types, JobType, Job
    <2>2. \A s \in Seqs : s \in Nat
      BY ReplayAssumption DEF Seqs, Positions
    <2>3. \A s \in Seqs : ~(s * z < 0)
      BY <2>2
    <2>4. 0 = 0 * z
      OBVIOUS
    <2> QED
      BY <1>2, <2>1, <2>3, <2>4 DEF JobInv, Covered, Aligned
  <1>6. Sound
    BY NotWorking DEF Init, Sound, SoundFor, Off, Working
  <1> QED
    BY <1>1, <1>3, <1>4, <1>5, <1>6 DEF DoneInv

(* ...and every step keeps the invariant. *)
LEMMA StepDone == DoneInv /\ [Next]_vars => DoneInv'
  BY StepTypes, SizeKept, CellKept, JobKept, SoundKept, OnceSentKept DEF DoneInv, Types

(* A run that is said to be completed has a delivery for every row, whatever
   stopped it on the way and whoever took it up again (execute, executeResend,
   retryDelivery, finalize), as long as nobody changes the batch size of a
   bridge that has been started or whose batches have been skipped. *)
THEOREM CompletedRunHasAll == Budgets["edit"] = 0 => (Spec => []CompletedMeansAll)
  <1> SUFFICES ASSUME Budgets["edit"] = 0 PROVE Spec => []CompletedMeansAll
    OBVIOUS
  <1>1. Init => DoneInv
    BY InitDone
  <1>2. DoneInv => CompletedMeansAll
    <2> SUFFICES ASSUME DoneInv, job.status = "completed", NEW r \in Positions
                 PROVE  \E s \in Seqs : r \in cells[s].rows
      BY DEF CompletedMeansAll
    <2>1. PICK z \in Nat \ {0} : z = job.size
      BY ReplayAssumption DEF DoneInv, Types, JobType, Job
    <2>2. Rows \in 0 .. Rows /\ r < Rows
      BY ReplayAssumption DEF Positions
    <2> QED
      BY <2>1, <2>2, CoveredRow DEF DoneInv, JobInv
  <1> QED
    BY <1>1, <1>2, StepDone, PTL DEF Spec

(* What a resume does not read again was sent, or set aside, before: every row
   below the saved cursor (saveCheckpoint) has a delivery. *)
THEOREM NothingBehindCursor == Budgets["edit"] = 0 => (Spec => []BehindCursor)
  <1> SUFFICES ASSUME Budgets["edit"] = 0 PROVE Spec => []BehindCursor
    OBVIOUS
  <1>1. Init => DoneInv
    BY InitDone
  <1>2. DoneInv => BehindCursor
    <2> SUFFICES ASSUME DoneInv, NEW r \in Positions, r < job.cursor
                 PROVE  \E s \in Seqs : r \in cells[s].rows
      BY DEF BehindCursor
    <2>1. PICK z \in Nat \ {0} : z = job.size
      BY ReplayAssumption DEF DoneInv, Types, JobType, Job
    <2>2. job.cursor \in 0 .. Rows
      BY DEF DoneInv, Types, JobType, Job
    <2> QED
      BY <2>1, <2>2, CoveredRow DEF DoneInv, JobInv
  <1> QED
    BY <1>1, <1>2, StepDone, PTL DEF Spec

-----------------------------------------------------------------------------
(* nothing is written again *)

(* Batches of two numbers have no row in common. *)
LEMMA BatchesApart ==
  ASSUME NEW z \in Nat \ {0}, NEW s \in Nat, NEW t \in Nat,
         BatchFrom(s * z, z) \intersect BatchFrom(t * z, z) # {}
  PROVE  s = t
  <1>1. PICK a \in Nat, b \in Nat : a = s * z /\ b = t * z
    BY Multiples
  <1>2. PICK r \in Positions : a <= r /\ r < a + z /\ b <= r /\ r < b + z
    BY <1>1 DEF BatchFrom
  <1>3. r \in Nat
    BY <1>2, ReplayAssumption DEF Positions
  <1>4. (s < t => a + z <= b) /\ (t < s => b + z <= a)
    BY <1>1, Multiples
  <1>5. ~(s < t) /\ ~(t < s)
    BY <1>2, <1>3, <1>4
  <1> QED
    BY <1>5

(* While there is one batch size, the rows of a delivery are in no other: what
   the timeline says of it is all it says of them. *)
LEMMA OnlyHere ==
  ASSUME Types, CellInv, OkIfFailed, NEW s \in Seqs, NEW leftOut,
         cells[s].st # "success", cells[s].ok \subseteq leftOut
  PROVE  NotYetHad(BatchFrom(s * job.size, job.size), leftOut)
  <1> SUFFICES ASSUME NEW t \in Seqs,
                      cells[t].rows \intersect BatchFrom(s * job.size, job.size) # {}
               PROVE  cells[t].st # "success" /\ cells[t].ok \subseteq leftOut
    BY DEF NotYetHad
  <1>1. CASE cells[t].st = "none"
    BY <1>1 DEF OkIfFailed
  <1>2. CASE cells[t].st # "none"
    <2>1. PICK z \in Nat \ {0} : z = job.size
      BY ReplayAssumption DEF Types, JobType, Job
    <2>2. BatchFrom(t * z, z) \intersect BatchFrom(s * z, z) # {}
      BY <1>2, <2>1 DEF CellInv
    <2>3. s \in Nat /\ t \in Nat
      BY ReplayAssumption DEF Seqs, Positions
    <2>4. t = s
      BY <2>2, <2>3, BatchesApart
    <2> QED
      BY <2>4
  <1> QED
    BY <1>1, <1>2

(* While nobody edits the batch size of a run that has begun, whoever is alone
   with the job writes no row to a target that any delivery of the timeline
   says it has: the worker that reads the source (execute's look at the earlier
   deliveries), the one that sends captured deliveries again (executeResend) and
   the retry of a single one (retryDelivery), with deliver's skipping of the
   targets that have committed; for every source, batch size and number of
   workers, whatever fails or stalls. *)
THEOREM NothingSentTwice == Budgets["edit"] = 0 => (Spec => []NotWrittenAgain)
  <1> SUFFICES ASSUME Budgets["edit"] = 0 PROVE Spec => []NotWrittenAgain
    OBVIOUS
  <1>1. Init => AgainInv /\ DoneInv
    BY InitAgain, InitDone
  <1>2. AgainInv /\ DoneInv /\ [Next]_vars => (AgainInv /\ DoneInv)'
    BY StepAgain, StepDone
  <1>3. AgainInv /\ DoneInv => NotWrittenAgain
    <2> SUFFICES ASSUME AgainInv, DoneInv PROVE NotWrittenAgain
      OBVIOUS
    <2> USE DEF AgainInv, DoneInv
    <2>1. ASSUME NEW w \in Workers \ together, worker[w].pc = "send"
          PROVE  NotYetHad(Batch(w), Prior(w))
      <3>1. PICK s \in Seqs : s = Seq(w) /\ Batch(w) = BatchFrom(s * job.size, job.size)
        BY <2>1, OwnBatch
      <3>2. s \in Nat
        BY ReplayAssumption DEF Seqs, Positions
      <3>3. cells[s].st \in {"success", "failed"} => worker[w].seen[s] = cells[s]
        BY <2>1, <3>1, <3>2 DEF Fresh, FreshFor, KnownFrom
      <3>4. ~Settled(worker[w].seen[s])
        BY <2>1, <3>1 DEF Fresh, FreshFor
      <3>5. cells[s].st # "success"
        BY <3>3, <3>4 DEF Settled
      <3>6. cells[s].ok \subseteq Prior(w)
        BY <3>1, <3>3 DEF OkIfFailed, Prior
      <3> QED
        BY <3>1, <3>5, <3>6, OnlyHere
    <2>2. ASSUME NEW w \in Workers \ together, worker[w].pc = "resend", worker[w].todo # {}
          PROVE  NotYetHad(Captured(w).rows, Captured(w).ok)
      <3>1. PICK s \in worker[w].todo : s = Next1(worker[w].todo)
        BY <2>2, NextOfSome DEF Types, WorkerType, Worker
      <3>2. s \in Seqs
        BY DEF Types, WorkerType, Worker
      <3>3. Captured(w) = cells[s] /\ cells[s].st = "failed"
        BY <2>2, <3>1 DEF Fresh, FreshFor, Resends, Captured
      <3>4. cells[s].rows = BatchFrom(s * job.size, job.size)
        BY <3>2, <3>3 DEF CellInv
      <3> QED
        BY <3>2, <3>3, <3>4, OnlyHere
    <2>3. ASSUME single.pc = "send", "single" \notin together
          PROVE  NotYetHad(cells[single.seq].rows, single.ok)
      <3>1. PICK s \in Seqs : s = single.seq
        BY DEF Types, SingleType, OneRetry
      <3>2. cells[s].st = "failed" /\ cells[s].ok = single.ok
        BY <2>3, <3>1 DEF SingleAlone
      <3>3. cells[s].rows = BatchFrom(s * job.size, job.size)
        BY <3>2 DEF CellInv
      <3> QED
        BY <3>1, <3>2, <3>3, OnlyHere
    <2> QED
      BY <2>1, <2>2, <2>3 DEF NotWrittenAgain
  <1> QED
    BY <1>1, <1>2, <1>3, PTL DEF Spec
=============================================================================
