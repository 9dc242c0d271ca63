------------------------------ MODULE Repairs ------------------------------
(***************************************************************************)
(* Three writers of one destination.  The live stream delivers changes in  *)
(* order and parks what is refused (bridge-cdc.service.ts); a retry of     *)
(* dead letters reads a row from the source and writes what it read        *)
(* (dead-letter.service.ts); a verification compares both ends and, as a   *)
(* reconcile, repairs (bridge-verify.service.ts).  None waits for another: *)
(* every read and every write is a step of its own.                        *)
(*                                                                         *)
(* A row is the number of the change that wrote it, 0 for no row.  One     *)
(* keyed database target, one page, a bridge that propagates deletes or    *)
(* does not.                                                               *)
(***************************************************************************)
EXTENDS Naturals, Sequences, FiniteSets, SequencesExt

CONSTANTS
  Keys,
  MaxLog,     \* changes made at the source
  MaxBatch,   \* changes of one delivery
  Budgets     \* how often: "refuse", "retry", "verify", "discard", "cancel", "crash", "any"

ASSUME RepairsAssumption ==
  /\ MaxLog \in Nat /\ MaxBatch \in Nat \ {0}
  /\ \A b \in DOMAIN Budgets : Budgets[b] \in Nat

VARIABLES
  propagates,   \* the bridge's trigger includes deletes
  src, log,     \* the source: rows, and the changes the stream will see
  pos, seq,     \* saved: how far is delivered, and in how many deliveries
  dest,         \* the destination
  sent,         \* the delivery that is written and not yet saved
  letters,      \* BridgeDeadLetter rows
  cells,        \* BridgeDelivery rows: the changes of each, and its status
  rt, vf,       \* the retry and the verification under way
  budget,
  high,         \* ghost: up to which change each row has ever been brought
  raced         \* ghost: rows last written by a writer that another had overtaken, and which

streamVars == <<pos, seq, sent, letters, cells>>
vars == <<propagates, src, log, streamVars, dest, rt, vf, budget, high, raced>>

(* one of this kind, and one of all but the crashes *)
Spend(b) ==
  /\ budget[b] > 0 /\ budget["any"] > 0
  /\ budget' = [budget EXCEPT ![b] = @ - 1, !["any"] = @ - 1]

NoRetry == [at |-> "idle", todo |-> <<>>, touched |-> {}, force |-> FALSE,
            val |-> 0, seen |-> 0, over |-> {}]
Writers == {"retry", "repair", "removal"}
NoRows == [k \in Keys |-> 0]
NoRun == [status |-> "none", at |-> "idle", fix |-> FALSE, remove |-> FALSE, round |-> 0,
          pend |-> {}, val |-> NoRows, seen |-> 0, got |-> {}, over |-> {},
          found |-> 0, fixed |-> 0, extra |-> 0, removed |-> 0, noted |-> FALSE,
          moved |-> {}, cancel |-> "none"]

NoBatch == [at |-> "none", to |-> 0, bad |-> {}]
Changes == 1 .. Len(log)
Letters == [change : Changes, cell : 1 .. seq + 1, status : {"pending", "resolved", "discarded", "replaced"}]

TypeOK ==
  /\ propagates \in BOOLEAN
  /\ {src, dest, high} \subseteq [Keys -> 0 .. MaxLog]
  /\ log \in Seq([key : Keys, ver : 0 .. MaxLog, seen : BOOLEAN]) /\ pos \in 0 .. Len(log)
  /\ Len(cells) \in seq .. seq + 1 /\ sent.at \in {"none", "park", "record", "save"}
  /\ sent.to \in 0 .. Len(log) /\ sent.bad \subseteq Changes
  /\ cells \in Seq([changes : SUBSET Changes, status : {"success", "failed"}])
  /\ letters \in Seq(Letters)
  /\ rt.at \in {"idle", "read", "write", "resolve", "mark"}
  /\ rt.todo \in Seq(DOMAIN letters) /\ rt.touched \subseteq 1 .. seq + 1
  /\ vf.status \in {"none", "queued", "running", "canceling", "canceled", "completed", "failed"}
  /\ vf.cancel \in {"none", "remove", "finish", "tell"}
  /\ vf.pend \subseteq Keys /\ vf.val \in [Keys -> 0 .. MaxLog]
  /\ {vf.found, vf.fixed, vf.extra, vf.removed} \subseteq 0 .. Cardinality(Keys)
  /\ budget \in [DOMAIN Budgets -> Nat]
  /\ raced \subseteq Keys \X Writers

Init ==
  /\ propagates \in BOOLEAN
  /\ src = NoRows /\ log = <<>> /\ pos = 0 /\ seq = 0 /\ sent = NoBatch /\ dest = NoRows
  /\ letters = <<>> /\ cells = <<>>
  /\ rt = NoRetry /\ vf = NoRun
  /\ budget = Budgets
  /\ high = NoRows /\ raced = {}

(* what the ghosts note: rows that moved since the verification read its page,
   rows another writer wrote since a repair read them *)
Moved(S) == IF vf.at \in {"idle", "queued", "picked", "page", "cut"} THEN vf ELSE [vf EXCEPT !.moved = @ \cup S]
Unraced(S) == {r \in raced : r[1] \notin S}
Holding == {"write", "look", "repair", "settle", "remove"}
Overtaken(v, S) == IF v.at \in Holding THEN [v EXCEPT !.over = @ \cup S] ELSE v

(* a row is written or deleted; a bridge that does not propagate deletes
   never sees the deletion *)
Change(k, del) ==
  /\ Len(log) < MaxLog
  /\ del => src[k] # 0
  /\ log' = Append(log, [key |-> k, ver |-> IF del THEN 0 ELSE Len(log) + 1,
                         seen |-> ~del \/ propagates])
  /\ src' = [src EXCEPT ![k] = IF del THEN 0 ELSE Len(log) + 1]
  /\ vf' = Moved({k})
  /\ UNCHANGED <<propagates, streamVars, dest, rt, budget, high, raced>>

-----------------------------------------------------------------------------
(* the stream *)

Between(a, b) == {n \in 1 .. Len(log) : a < n /\ n <= b}
ChangesOf(k, S) == {n \in S : log[n].key = k /\ log[n].seen}

Pending == {i \in DOMAIN letters : letters[i].status = "pending"}
Batch(to) == {n \in Between(pos, to) : log[n].seen}

(* deliverBatch with isolation: what the destination takes is written in order... *)
Deliver(to, bad) ==
  LET good == Batch(to) \ bad
      hit  == {k \in Keys : ChangesOf(k, good) # {}} IN
  /\ sent = NoBatch
  /\ pos < to /\ to <= pos + MaxBatch /\ to <= Len(log)
  /\ bad \subseteq Batch(to)
  /\ IF bad = {} THEN UNCHANGED budget ELSE Spend("refuse")
  /\ sent' = [at |-> IF bad # {} THEN "park" ELSE IF Batch(to) # {} THEN "record" ELSE "save",
              to |-> to, bad |-> bad]
  /\ dest' = [k \in Keys |-> IF k \in hit THEN log[Max(ChangesOf(k, good))].ver ELSE dest[k]]
  /\ high' = [k \in Keys |-> IF k \in hit THEN Max({high[k], Max(ChangesOf(k, good))}) ELSE high[k]]
  /\ raced' = Unraced(hit)
  /\ rt' = Overtaken(rt, hit)
  /\ vf' = Overtaken(Moved({log[n].key : n \in Batch(to)}), hit)
  /\ UNCHANGED <<propagates, src, log, pos, seq, letters, cells>>

Records == UNCHANGED <<propagates, src, log, dest, rt, vf, budget, high, raced>>

(* ...what it refuses is parked, in place of what a delivery under the same
   number had parked and nobody has dealt with... *)
Letter(n) == [change |-> n, cell |-> seq + 1, status |-> "pending"]
Park ==
  /\ sent.at = "park"
  /\ sent' = [sent EXCEPT !.at = "record"]
  /\ letters' = [i \in DOMAIN letters |->
                   IF i \in Pending /\ letters[i].cell = seq + 1
                     THEN [letters[i] EXCEPT !.status = "replaced"] ELSE letters[i]]
                \o [i \in 1 .. Cardinality(sent.bad) |-> Letter(SetToSortSeq(sent.bad, <)[i])]
  /\ Records /\ UNCHANGED <<pos, seq, cells>>

(* ...the delivery is put on record under its number... *)
Record ==
  /\ sent.at = "record"
  /\ sent' = [sent EXCEPT !.at = "save"]
  /\ cells' = Append(SubSeq(cells, 1, seq),
                     [changes |-> Batch(sent.to),
                      status |-> IF sent.bad = {} THEN "success" ELSE "failed"])
  /\ Records /\ UNCHANGED <<pos, seq, letters>>

(* ...and the cursor is saved *)
Checkpoint ==
  /\ sent.at = "save"
  /\ pos' = sent.to /\ sent' = NoBatch
  /\ seq' = IF Batch(sent.to) = {} THEN seq ELSE seq + 1
  /\ Records /\ UNCHANGED <<letters, cells>>

-----------------------------------------------------------------------------
(* DeadLetterService *)

KeyOf(i) == log[letters[i].change].key

Discard(i) ==
  /\ i \in Pending /\ Spend("discard")
  /\ letters' = [letters EXCEPT ![i].status = "discarded"]
  /\ UNCHANGED <<propagates, src, log, pos, seq, sent, dest, cells, rt, vf, high, raced>>

(* retry: one at a time per bridge, over some or all pending entries, oldest first *)
Retry(S, force) ==
  /\ rt.at = "idle" /\ S # {} /\ Spend("retry")
  /\ force => ~propagates   \* it makes no difference otherwise
  /\ rt' = [NoRetry EXCEPT !.at = "read", !.todo = SetToSortSeq(S, <), !.force = force]
  /\ UNCHANGED <<propagates, src, log, streamVars, dest, vf, high, raced>>

(* the entry was replaced by another parking of it: it cannot be updated, and
   the retry ends with an error *)
Gone(i) == letters[i].status = "replaced"

Onward(touched) ==
  [NoRetry EXCEPT !.at = IF Len(rt.todo) > 1 THEN "read" ELSE "mark",
                  !.todo = Tail(rt.todo), !.force = rt.force, !.touched = touched]

(* Slip: a retry writes the change as it was recorded *)
RefreshReadRecorded ==
  /\ rt.at = "read"
  /\ LET n == letters[Head(rt.todo)].change IN
     rt' = [rt EXCEPT !.at = "write", !.val = log[n].ver, !.seen = n, !.over = {}]
  /\ UNCHANGED <<propagates, src, log, streamVars, dest, vf, budget, high, raced>>

(* refresh: the row as the source has it now.  A row that is gone from a
   bridge that does not propagate deletes is left alone, or, forced, written
   as it was recorded *)
RefreshRead ==
  /\ rt.at = "read"
  /\ LET i == Head(rt.todo)
         k == KeyOf(i)
         kept == src[k] = 0 /\ ~propagates IN
     rt' = IF kept /\ ~rt.force THEN IF Gone(i) THEN NoRetry ELSE Onward(rt.touched)
           ELSE [rt EXCEPT !.at = "write", !.over = {},
                           !.val = IF kept THEN log[letters[i].change].ver ELSE src[k],
                           !.seen = IF kept THEN letters[i].change ELSE Len(log)]
  /\ UNCHANGED <<propagates, src, log, streamVars, dest, vf, budget, high, raced>>

(* one row is written by a repair that read it when the log had `seen` changes *)
Repaired(who, rows, val, seen, over) ==
  /\ dest' = [k \in Keys |-> IF k \in rows THEN val[k] ELSE dest[k]]
  /\ high' = [k \in Keys |-> IF k \in rows THEN Max({high[k], seen}) ELSE high[k]]
  /\ raced' = Unraced(rows) \cup {<<k, who>> : k \in rows \cap over}

RefreshWrite ==
  /\ rt.at = "write"
  /\ LET k == KeyOf(Head(rt.todo)) IN
     /\ Repaired("retry", {k}, [NoRows EXCEPT ![k] = rt.val], rt.seen, rt.over)
     /\ vf' = Overtaken(Moved({k}), {k})
  /\ rt' = [rt EXCEPT !.at = "resolve", !.val = 0, !.seen = 0, !.over = {}]
  /\ UNCHANGED <<propagates, src, log, streamVars, budget>>

(* resolve: whatever became of the entry meanwhile *)
Resolve ==
  /\ rt.at = "resolve"
  /\ LET i == Head(rt.todo) IN
     IF Gone(i) THEN rt' = NoRetry /\ UNCHANGED letters
     ELSE /\ letters' = [letters EXCEPT ![i].status = "resolved"]
          /\ rt' = Onward(rt.touched \cup {letters[i].cell})
  /\ UNCHANGED <<propagates, src, log, pos, seq, sent, dest, cells, vf, budget, high, raced>>

(* fail: still refused, still pending *)
RefreshFails ==
  /\ rt.at = "write" /\ Spend("refuse")
  /\ rt' = IF Gone(Head(rt.todo)) THEN NoRetry ELSE Onward(rt.touched)
  /\ UNCHANGED <<propagates, src, log, streamVars, dest, vf, high, raced>>

LettersOf(c) == {i \in DOMAIN letters : letters[i].cell = c /\ ~Gone(i)}

Shown(c) == c \in DOMAIN cells

(* Slip: a cell is recovered when nothing of it is waiting any more *)
MarkRecoveredNonePending ==
  /\ rt.at = "mark"
  /\ IF rt.touched = {} THEN rt' = NoRetry /\ UNCHANGED cells
     ELSE LET c == CHOOSE x \in rt.touched : TRUE IN
          /\ rt' = [rt EXCEPT !.touched = @ \ {c}]
          /\ cells' = IF Shown(c) /\ LettersOf(c) \cap Pending = {} THEN [cells EXCEPT ![c].status = "success"] ELSE cells
  /\ UNCHANGED <<propagates, src, log, pos, seq, sent, dest, letters, vf, budget, high, raced>>

(* markDeliveryRecovered, for each delivery an entry of which was resolved *)
MarkRecovered ==
  /\ rt.at = "mark"
  /\ IF rt.touched = {} THEN rt' = NoRetry /\ UNCHANGED cells
     ELSE LET c == CHOOSE x \in rt.touched : TRUE IN
          /\ rt' = [rt EXCEPT !.touched = @ \ {c}]
          /\ cells' = IF Shown(c) /\ \A i \in LettersOf(c) : letters[i].status = "resolved"
                        THEN [cells EXCEPT ![c].status = "success"] ELSE cells
  /\ UNCHANGED <<propagates, src, log, pos, seq, sent, dest, letters, vf, budget, high, raced>>

-----------------------------------------------------------------------------
(* BridgeVerifyService *)

Active == {"queued", "running", "canceling"}

VerifyStart(fix, remove) ==
  /\ vf.status \notin Active /\ vf.at = "idle" /\ vf.cancel = "none"
  /\ remove => fix
  /\ Spend("verify")
  /\ vf' = [NoRun EXCEPT !.status = "queued", !.at = "queued", !.fix = fix, !.remove = remove]
  /\ UNCHANGED <<propagates, src, log, streamVars, dest, rt, high, raced>>

Verifying(at) == vf.at = at
StepOf(v) == vf' = v /\ UNCHANGED <<propagates, src, log, streamVars, dest, rt, budget, high, raced>>

(* cancel: what it does is settled by what the row says now... *)
VerifyCancel ==
  /\ vf.status \in Active /\ vf.cancel = "none" /\ Spend("cancel")
  /\ vf' = [vf EXCEPT !.cancel = IF vf.status = "queued" THEN "remove" ELSE "tell"]
  /\ UNCHANGED <<propagates, src, log, streamVars, dest, rt, high, raced>>

(* ...what had not been picked up leaves the queue, if it still has not been, and
   is over; what was running is told to wind down, whatever it is by now *)
CancelRemove ==
  /\ vf.cancel = "remove"
  /\ StepOf([vf EXCEPT !.cancel = "finish", !.at = IF @ = "queued" THEN "idle" ELSE @])
CancelFinish == vf.cancel = "finish" /\ StepOf([vf EXCEPT !.cancel = "none", !.status = "canceled"])
CancelTell   == vf.cancel = "tell"   /\ StepOf([vf EXCEPT !.cancel = "none", !.status = "canceling"])

(* run: the worker reads the row, and then marks it *)
VerifyPickUp == Verifying("queued") /\ StepOf([vf EXCEPT !.at = "picked"])
VerifyRunning ==
  Verifying("picked") /\ StepOf([vf EXCEPT !.at = "page", !.status = "running"])

(* the worker is through with a verification, whose cancel may still be on its way *)
Over(status) == [NoRun EXCEPT !.status = status, !.cancel = vf.cancel]

(* one end cannot be read: the run has failed, and says so if it can *)
Running == {"page", "compare", "again", "look", "beat", "extras", "keys", "settle", "done"}
VerifyFails ==
  /\ vf.at \in Running /\ Spend("refuse")
  /\ vf' \in {Over("failed"), Over(vf.status)}
  /\ UNCHANGED <<propagates, src, log, streamVars, dest, rt, high, raced>>

(* pass 1: a page of the source, then the destination's rows of those keys *)
ReadPage ==
  /\ Verifying("page")
  /\ StepOf([vf EXCEPT !.at = "compare", !.val = src, !.moved = {},
                       !.pend = {k \in Keys : src[k] # 0}])

Suspects == {k \in vf.pend : dest[k] # vf.val[k]}

Compare ==
  /\ Verifying("compare")
  /\ StepOf([vf EXCEPT !.at = IF Suspects = {} THEN "beat" ELSE "again", !.pend = Suspects])

(* secondLook: the suspects as the source has them now *)
LookAgain ==
  /\ Verifying("again")
  /\ LET still == {k \in vf.pend : src[k] # 0} IN
     StepOf([vf EXCEPT !.at = IF still = {} THEN "beat" ELSE "look",
                       !.pend = still, !.val = src, !.seen = Len(log), !.over = {}])

Rounds == IF vf.fix THEN 3 ELSE 1

(* Slip: the repair is not looked at again *)
LookOnce ==
  /\ Verifying("look")
  /\ LET found == IF vf.round = 0 THEN Cardinality(Suspects) ELSE 0 IN
     StepOf([vf EXCEPT !.found = @ + found, !.pend = Suspects,
                       !.at = IF ~vf.fix \/ Suspects = {} \/ vf.round > 0 THEN "beat" ELSE "repair"])

(* secondLook: what is still wrong is counted once; a reconcile repairs it,
   and says so when it is still wrong in the last round *)
Look ==
  /\ Verifying("look")
  /\ LET found == IF vf.round = 0 THEN Cardinality(Suspects) ELSE 0
         last == vf.round = Rounds - 1 /\ vf.round > 0 IN
     StepOf([vf EXCEPT !.found = @ + found, !.pend = Suspects,
                       !.noted = @ \/ (vf.fix /\ Suspects # {} /\ last),
                       !.at = IF ~vf.fix \/ Suspects = {} \/ last THEN "beat" ELSE "repair"])

Repair ==
  /\ Verifying("repair")
  /\ Repaired("repair", vf.pend, vf.val, vf.seen, vf.over)
  /\ vf' = [vf EXCEPT !.at = "again", !.round = @ + 1,
                      !.fixed = @ + (IF vf.round = 0 THEN Cardinality(vf.pend) ELSE 0)]
  /\ rt' = Overtaken(rt, vf.pend)
  /\ UNCHANGED <<propagates, src, log, streamVars, budget>>

RepairFails ==
  /\ Verifying("repair") /\ Spend("refuse")
  /\ vf' = [vf EXCEPT !.at = "beat", !.noted = TRUE]
  /\ UNCHANGED <<propagates, src, log, streamVars, dest, rt, high, raced>>

(* beat: a verification that is not running any more goes no further *)
Beat(next) ==
  IF vf.status = "running"
    THEN StepOf([vf EXCEPT !.at = next, !.pend = {}, !.val = NoRows, !.seen = 0, !.over = {}, !.round = 0])
    ELSE StepOf(Over("canceled"))

BeatOne == Verifying("beat") /\ Beat("extras")

(* pass 2: the destination's rows, then the source is asked for their keys *)
ReadDestination ==
  Verifying("extras") /\ StepOf([vf EXCEPT !.at = "keys", !.pend = {k \in Keys : dest[k] # 0}])

FindExtras ==
  /\ Verifying("keys")
  /\ LET gone == {k \in vf.pend : src[k] = 0} IN
     StepOf([vf EXCEPT !.at = IF gone = {} THEN "done" ELSE "settle", !.pend = gone, !.got = {}])

(* settle: both ends once more, at the same time, in either order *)
SettleReads(side) ==
  /\ Verifying("settle") /\ side \in {"source", "target"} \ vf.got
  /\ StepOf([vf EXCEPT !.got = @ \cup {side},
                       !.over = IF side = "source" THEN {} ELSE @,
                       !.seen = IF side = "source" THEN Len(log) ELSE @,
                       !.pend = {k \in @ : IF side = "source" THEN src[k] = 0 ELSE dest[k] # 0}])

Settle ==
  /\ Verifying("settle") /\ vf.got = {"source", "target"}
  /\ StepOf([vf EXCEPT !.extra = Cardinality(vf.pend),
                       !.at = IF vf.remove /\ vf.pend # {} THEN "remove" ELSE "done"])

RemoveExtras ==
  /\ Verifying("remove")
  /\ Repaired("removal", vf.pend, NoRows, vf.seen, vf.over)
  /\ vf' = [vf EXCEPT !.at = "done", !.removed = Cardinality(vf.pend)]
  /\ rt' = Overtaken(rt, vf.pend)
  /\ UNCHANGED <<propagates, src, log, streamVars, budget>>

RemoveFails ==
  /\ Verifying("remove") /\ Spend("refuse")
  /\ vf' = [vf EXCEPT !.at = "done", !.noted = TRUE]
  /\ UNCHANGED <<propagates, src, log, streamVars, dest, rt, high, raced>>

Complete ==
  /\ Verifying("done")
  /\ StepOf(Over(IF vf.status = "running" THEN "completed" ELSE "canceled"))

(* what is left of a verification whose process died: its row *)
CutOff == [NoRun EXCEPT !.status = vf.status, !.fix = vf.fix, !.remove = vf.remove]

(* the process dies: a retry is forgotten, a verification is cut off, a delivery
   that is not on record is made again *)
Crash ==
  /\ rt.at # "idle" \/ vf.at # "idle" \/ sent # NoBatch
  /\ budget["crash"] > 0 /\ budget' = [budget EXCEPT !["crash"] = @ - 1]
  /\ sent' = NoBatch
  /\ rt' = NoRetry
  /\ vf' = IF vf.at \in {"idle", "queued"} THEN [vf EXCEPT !.cancel = "none"] ELSE [CutOff EXCEPT !.at = "cut"]
  /\ UNCHANGED <<propagates, src, log, pos, seq, letters, cells, dest, high, raced>>

(* the queue hands the job of a dead worker to another one, which begins anew *)
TakeUp ==
  /\ Verifying("cut") /\ vf.status \in {"queued", "running"}
  /\ StepOf([CutOff EXCEPT !.at = "picked"])

RetireStale ==
  /\ \/ Verifying("cut")
     \/ Verifying("idle") /\ vf.status \in {"running", "canceling"}
  /\ StepOf([vf EXCEPT !.at = "idle", !.status = IF vf.status \in {"running", "canceling"} THEN "failed" ELSE vf.status])

-----------------------------------------------------------------------------
Retrying == RefreshRead \/ RefreshWrite \/ Resolve \/ MarkRecovered
Verification ==
  \/ VerifyPickUp \/ VerifyRunning \/ ReadPage \/ Compare \/ LookAgain \/ Look \/ Repair \/ BeatOne
  \/ ReadDestination \/ FindExtras \/ Settle \/ RemoveExtras \/ Complete \/ TakeUp \/ RetireStale
  \/ CancelRemove \/ CancelFinish \/ CancelTell
  \/ \E side \in {"source", "target"} : SettleReads(side)

Next ==
  \/ \E k \in Keys, del \in BOOLEAN : Change(k, del)
  \/ \E to \in 1 .. Len(log) : \E bad \in SUBSET Between(pos, to) : Deliver(to, bad)
  \/ Park \/ Record \/ Checkpoint
  \/ \E i \in Pending : Discard(i)
  \/ \E S \in {Pending} \cup {{i} : i \in Pending}, force \in BOOLEAN : Retry(S, force)
  \/ \E fix, remove \in BOOLEAN : VerifyStart(fix, remove)
  \/ VerifyCancel \/ Retrying \/ RefreshFails \/ Verification \/ RepairFails \/ RemoveFails \/ VerifyFails \/ Crash

Spec == Init /\ [][Next]_vars

-----------------------------------------------------------------------------
(* what the destination should hold: the newest change the stream can see *)
Expected(k) == LET S == ChangesOf(k, Between(0, pos)) IN IF S = {} THEN 0 ELSE log[Max(S)].ver

(* nothing of this row is parked or given up *)
Settled(k) == \A i \in DOMAIN letters : KeyOf(i) = k => letters[i].status \in {"resolved", "replaced"}

(* When nothing is on its way to a row and none of its changes was set aside,
   the destination holds the newest one, whatever was retried and repaired
   beside the stream -- unless the stream overtook the last repair of it. *)
RepairsConverge ==
  pos = Len(log) /\ propagates =>
    \A k \in Keys : Settled(k) => dest[k] = Expected(k) \/ \E who \in Writers : <<k, who>> \in raced

(* A cell below the saved number (the next one is written anew if the cursor is
   not saved) is green only if every change of it, or a newer one of the same
   row, was brought to the destination: by the stream, or by retries that
   resolved each of its dead letters. *)
GreenIsDelivered ==
  \A c \in 1 .. seq : cells[c].status = "success" =>
    \A n \in cells[c].changes : high[log[n].key] >= n

InSync == vf.at = "done" /\ vf.status = "running" /\ vf.found <= vf.fixed /\ vf.extra <= vf.removed

(* A verification that ends with "in sync" and no note is to be believed: a
   row that was left alone since it began is the same at both ends, and no row
   a reconcile rewrote is left as the stream had overtaken it (rows removed
   as extra are not looked at again). *)
VerdictTruthful ==
  InSync /\ ~vf.noted =>
    \A k \in Keys :
      \/ dest[k] = src[k]
      \/ k \in vf.moved /\ <<k, "repair">> \notin raced
      \/ k \in vf.moved /\ (~Settled(k) \/ dest[k] = Expected(k) \/ \E n \in Between(pos, Len(log)) : log[n].key = k)
=============================================================================
