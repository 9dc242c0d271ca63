---------------------------- MODULE SnapshotCopy ----------------------------
(***************************************************************************)
(* Copy the table, then follow its changes: cdc/snapshot-provider.ts over  *)
(* the three kinds of engine.  "slot" (PostgreSQL): the server has held a  *)
(* place in its log since the bridge was made.  "log" (MySQL, MongoDB): a  *)
(* place is taken when a copy begins, and the stream opened there          *)
(* afterwards.  "none" (Redis): the stream is opened first and its changes *)
(* are held, the newest per key, until the copy is done.                   *)
(*                                                                         *)
(* The source is a table of keys whose rows carry the number of the change *)
(* that wrote them: 1 for the rows it had to begin with, n + 1 for change  *)
(* n, 0 for no row.  The pipeline behind the provider (CdcPipeline) is a   *)
(* queue here: in order, written and then checkpointed, dropped by a crash.*)
(***************************************************************************)
EXTENDS Naturals, Sequences, FiniteSets

CONSTANTS
  KeyCount,   \* keys are 1 .. KeyCount, in the order the table is paged
  PageSize,   \* rows of a page read
  HoldMax,    \* SYNCLE_SNAPSHOT_HOLD_MAX
  MaxLog,     \* changes made at the source
  Crashes, ReadErrors   \* how often the process dies, and a read fails

ASSUME CopyAssumption ==
  /\ {KeyCount, PageSize, HoldMax} \subseteq Nat \ {0}
  /\ {MaxLog, Crashes, ReadErrors} \subseteq Nat

VARIABLES
  engine,    \* what its capturePosition can do
  src, log,  \* the source: its rows, and what changed
  dest,      \* the destination
  extra,     \* ghost: rows it had that were gone from the source when a copy began
  saved,     \* the job's checkpoint, which the watermark in memory equals
  phase, page, ended, next, after, from, held, pos,   \* the stream
  pipe, wrote,                                        \* the pipeline
  crashes, errors                                     \* how much has gone wrong

sourceVars == <<src, log>>
copyVars == <<page, ended, next, after, from>>
vars == <<engine, sourceVars, dest, extra, saved, phase, copyVars, held, pos, pipe, wrote, crashes, errors>>

Keys == 1 .. KeyCount
hasLog == engine # "none"

(* SnapshotCursor of a row and of the end of the copy, and a log position *)
NoCursor == [kind |-> "none", at |-> 0, key |-> 0, from |-> 0]
RowCursor(i, k, f) == [kind |-> "row", at |-> i, key |-> k, from |-> f]
DoneCursor(i, f) == [kind |-> "done", at |-> i, key |-> 0, from |-> f]
LogCursor(n) == [kind |-> "log", at |-> n, key |-> 0, from |-> 0]

Copies(c) == c.kind \in {"row", "done"}

(* cursorAfter: the copy comes before the stream *)
CursorAfter(a, b) ==
  \/ b.kind = "none"
  \/ Copies(a) = Copies(b) /\ a.at > b.at
  \/ ~Copies(a) /\ Copies(b)

Cursors == [kind : {"none", "row", "done", "log"}, at : Nat, key : {0} \union Keys, from : Nat]
Items == [key : {0} \union Keys, ver : 0 .. MaxLog + 1, cursor : Cursors]

TypeOK ==
  /\ engine \in {"slot", "log", "none"}
  /\ src \in [Keys -> 0 .. MaxLog + 1] /\ dest \in [Keys -> 0 .. MaxLog + 1]
  /\ log \in Seq([key : Keys, del : BOOLEAN]) /\ extra \subseteq Keys
  /\ saved \in Cursors
  /\ phase \in {"off", "copy", "open", "hand", "follow", "fatal"}
  /\ page \subseteq [key : Keys, ver : 1 .. MaxLog + 1] /\ ended \in BOOLEAN
  /\ next \in Nat /\ after \in {0} \union Keys
  /\ {from, pos} \subseteq 0 .. Len(log)
  /\ held \subseteq Items
  /\ pipe \in Seq(Items) /\ wrote \in BOOLEAN
  /\ crashes \in 0 .. Crashes /\ errors \in 0 .. ReadErrors + 1

Init ==
  /\ engine \in {"slot", "log", "none"}
  /\ src \in [Keys -> {0, 1}] /\ log = <<>>
  /\ dest = [k \in Keys |-> 0] /\ extra = {}
  /\ saved = NoCursor
  /\ phase = "off" /\ page = {} /\ ended = FALSE
  /\ next = 0 /\ after = 0 /\ from = 0 /\ held = {} /\ pos = 0
  /\ pipe = <<>> /\ wrote = FALSE
  /\ crashes = 0 /\ errors = 0

(* the source changes, whatever the bridge is doing *)
Change(k, del) ==
  /\ Len(log) < MaxLog
  /\ del => src[k] # 0
  /\ log' = Append(log, [key |-> k, del |-> del])
  /\ src' = [src EXCEPT ![k] = IF del THEN 0 ELSE Len(log) + 2]
  /\ extra' = extra \ {k}
  /\ UNCHANGED <<engine, dest, saved, phase, copyVars, held, pos, pipe, wrote, crashes, errors>>

-----------------------------------------------------------------------------
(* the pipeline *)

(* handleChange: what is not after the watermark was delivered long ago *)
Accepted(item) == IF CursorAfter(item.cursor, saved) THEN Append(pipe, item) ELSE pipe

Notice == 0
Item(k, ver, cursor) == [key |-> k, ver |-> ver, cursor |-> cursor]

Write ==
  /\ pipe # <<>> /\ ~wrote
  /\ LET i == Head(pipe) IN
     dest' = IF i.key = Notice THEN dest ELSE [dest EXCEPT ![i.key] = i.ver]
  /\ wrote' = TRUE
  /\ UNCHANGED <<engine, sourceVars, extra, saved, phase, copyVars, held, pos, pipe, crashes, errors>>

Checkpoint ==
  /\ wrote
  /\ saved' = Head(pipe).cursor
  /\ pipe' = Tail(pipe) /\ wrote' = FALSE
  /\ UNCHANGED <<engine, sourceVars, dest, extra, phase, copyVars, held, pos, crashes, errors>>

-----------------------------------------------------------------------------
(* startStream *)

Fresh(f, nx, af) == next' = nx /\ after' = af /\ from' = f /\ page' = {} /\ ended' = FALSE

(* the place a copy begun now is followed from *)
Captured == IF engine = "log" THEN Len(log) ELSE 0

StartCopy ==
  /\ phase = "off" /\ saved.kind \in {"none", "row"}
  /\ phase' = "copy"
  /\ IF saved.kind = "row" THEN Fresh(saved.from, saved.at + 1, saved.key) /\ UNCHANGED extra
     ELSE /\ Fresh(Captured, 0, 0)
          /\ extra' = IF engine = "log" THEN {k \in Keys : src[k] = 0 /\ dest[k] # 0} ELSE extra
  /\ pos' = IF hasLog THEN pos ELSE Len(log)
  /\ UNCHANGED <<engine, sourceVars, dest, saved, held, pipe, wrote, crashes, errors>>

(* the place a follower starts at: a slot's server replays from the place it
   holds, and an engine without a log listens from now *)
Place(n) == CASE engine = "slot" -> 0 [] engine = "log" -> n [] OTHER -> Len(log)

(* Slip: a bridge that had finished its copy follows from now *)
StartFollowNow ==
  /\ phase = "off" /\ saved.kind \in {"done", "log"}
  /\ phase' = "follow"
  /\ pos' = IF saved.kind = "done" THEN Len(log) ELSE Place(saved.at)
  /\ UNCHANGED <<engine, sourceVars, dest, extra, saved, copyVars, held, pipe, wrote, crashes, errors>>

StartFollow ==
  /\ phase = "off" /\ saved.kind \in {"done", "log"}
  /\ phase' = "follow"
  /\ pos' = Place(IF saved.kind = "done" THEN saved.from ELSE saved.at)
  /\ UNCHANGED <<engine, sourceVars, dest, extra, saved, copyVars, held, pipe, wrote, crashes, errors>>

-----------------------------------------------------------------------------
(* copyThenFollow: copy *)

RowsAfter(k) == {i \in Keys : i > k /\ src[i] # 0}

(* the first rows after the last one handed over, all of them at the end *)
ReadPage ==
  /\ phase = "copy" /\ page = {} /\ ~ended
  /\ \E S \in SUBSET RowsAfter(after) :
       /\ \A i \in S : \A j \in RowsAfter(after) \ S : i < j
       /\ S = RowsAfter(after) \/ Cardinality(S) = PageSize
       /\ Cardinality(S) <= PageSize
       /\ page' = {[key |-> i, ver |-> src[i]] : i \in S}
       /\ ended' = (S = RowsAfter(after))
  /\ UNCHANGED <<engine, sourceVars, dest, extra, saved, phase, next, after, from, held, pos, pipe, wrote,
                 crashes, errors>>

(* Slip: a row's cursor names the place the log is at when it is handed over *)
HandRowLate ==
  /\ phase = "copy"
  /\ \E r \in page :
       /\ \A s \in page : r.key <= s.key
       /\ pipe' = Accepted(Item(r.key, r.ver, RowCursor(next, r.key, Len(log))))
       /\ after' = r.key /\ page' = page \ {r}
  /\ next' = next + 1
  /\ UNCHANGED <<engine, sourceVars, dest, extra, saved, phase, ended, from, held, pos, wrote, crashes, errors>>

HandRow ==
  /\ phase = "copy"
  /\ \E r \in page :
       /\ \A s \in page : r.key <= s.key
       /\ pipe' = Accepted(Item(r.key, r.ver, RowCursor(next, r.key, from)))
       /\ after' = r.key /\ page' = page \ {r}
  /\ next' = next + 1
  /\ UNCHANGED <<engine, sourceVars, dest, extra, saved, phase, ended, from, held, pos, wrote, crashes, errors>>

(* the read fails: it is taken up again after the last row handed over *)
ReadFails ==
  /\ phase = "copy" /\ ~(ended /\ page = {}) /\ errors < ReadErrors
  /\ errors' = errors + 1
  /\ page' = {} /\ ended' = FALSE
  /\ UNCHANGED <<engine, sourceVars, dest, extra, saved, phase, next, after, from, held, pos, pipe, wrote, crashes>>

(* the stream ends: what is not checkpointed is dropped *)
Dropped == page' = {} /\ held' = {} /\ pipe' = <<>> /\ wrote' = FALSE

(* too many failures in a row, of a read or of the opening of the stream *)
GivesUp ==
  /\ phase \in {"copy", "open"} /\ errors = ReadErrors /\ ReadErrors > 0
  /\ errors' = errors + 1
  /\ phase' = "fatal" /\ Dropped
  /\ UNCHANGED <<engine, sourceVars, dest, extra, saved, ended, next, after, from, pos, crashes>>

(* the end of the copy is put on record, and then the stream is opened *)
Copied ==
  /\ phase = "copy" /\ page = {} /\ ended
  /\ pipe' = Accepted(Item(Notice, 0, DoneCursor(next, from)))
  /\ phase' = IF hasLog THEN "open" ELSE "hand"
  /\ UNCHANGED <<engine, sourceVars, dest, extra, saved, copyVars, held, pos, wrote, crashes, errors>>

(* Slip: the stream is opened where the log is when the copy is done *)
OpenNow ==
  /\ phase = "open"
  /\ phase' = "follow" /\ pos' = Len(log)
  /\ UNCHANGED <<engine, sourceVars, dest, extra, saved, copyVars, held, pipe, wrote, crashes, errors>>

Open ==
  /\ phase = "open"
  /\ phase' = "follow" /\ pos' = from
  /\ UNCHANGED <<engine, sourceVars, dest, extra, saved, copyVars, held, pipe, wrote, crashes, errors>>

-----------------------------------------------------------------------------
(* the engine's stream: what it reads is held, or goes into the pipeline *)

(* Redis reads the value when it hears of the change, not with it *)
Heard(n) ==
  LET c == log[n] IN
  Item(c.key, IF c.del THEN 0 ELSE IF ~hasLog /\ src[c.key] # 0 THEN src[c.key] ELSE n + 1, LogCursor(n))

(* HeldChanges.add: the newest change of a key.  They are held in the order of
   their positions *)
HeldWith(item) == {h \in held : h.key # item.key} \union {item}

Follow ==
  /\ phase = "follow" /\ pos < Len(log)
  /\ pipe' = Accepted(Heard(pos + 1))
  /\ pos' = pos + 1
  /\ UNCHANGED <<engine, sourceVars, dest, extra, saved, phase, copyVars, held, wrote, crashes, errors>>

Hold ==
  /\ ~hasLog /\ phase \in {"copy", "hand"} /\ pos < Len(log)
  /\ Cardinality(HeldWith(Heard(pos + 1))) <= HoldMax
  /\ held' = HeldWith(Heard(pos + 1))
  /\ pos' = pos + 1
  /\ UNCHANGED <<engine, sourceVars, dest, extra, saved, phase, copyVars, pipe, wrote, crashes, errors>>

Overflow ==
  /\ ~hasLog /\ phase \in {"copy", "hand"} /\ pos < Len(log)
  /\ Cardinality(HeldWith(Heard(pos + 1))) > HoldMax
  /\ phase' = "fatal" /\ Dropped
  /\ UNCHANGED <<engine, sourceVars, dest, extra, saved, ended, next, after, from, pos, crashes, errors>>

(* what was held is handed over, oldest first; when none is left the gate opens *)
HandHeld ==
  /\ phase = "hand"
  /\ \/ held = {} /\ phase' = "follow" /\ UNCHANGED <<held, pipe>>
     \/ \E h \in held :
          /\ \A g \in held : h.cursor.at <= g.cursor.at
          /\ pipe' = Accepted(h) /\ held' = held \ {h} /\ UNCHANGED phase
  /\ UNCHANGED <<engine, sourceVars, dest, extra, saved, copyVars, pos, wrote, crashes, errors>>

(* the process dies, or the bridge is stopped; it is started again *)
Crash ==
  /\ phase \notin {"off", "fatal"} /\ crashes < Crashes
  /\ crashes' = crashes + 1
  /\ phase' = "off" /\ Dropped
  /\ UNCHANGED <<engine, sourceVars, dest, extra, saved, ended, next, after, from, pos, errors>>

-----------------------------------------------------------------------------
Works ==
  \/ Write \/ Checkpoint \/ StartCopy \/ StartFollow
  \/ ReadPage \/ HandRow \/ Copied \/ Open \/ Follow \/ Hold \/ Overflow \/ HandHeld

Next ==
  \/ \E k \in Keys, del \in BOOLEAN : Change(k, del)
  \/ Works \/ ReadFails \/ GivesUp \/ Crash

Spec == Init /\ [][Next]_vars

(* the pipeline delivers, the stream reads, and a stopped bridge is resumed *)
Fairness ==
  /\ WF_vars(Write \/ Checkpoint)
  /\ WF_vars(StartCopy \/ StartFollow \/ ReadPage \/ HandRow \/ Copied \/ Open \/ HandHeld)
  /\ WF_vars(Follow \/ Hold \/ Overflow)
FairSpec == Spec /\ Fairness

-----------------------------------------------------------------------------
AtRest == phase = "follow" /\ pos = Len(log) /\ pipe = <<>>

(* a copy never deletes: what was gone before it began stays *)
Right(k) == dest[k] = src[k] \/ k \in extra

(* Once the stream has caught up the destination is the source: no row read
   by the copy has landed on a later change of it, none changed during the
   copy is missed, and none is skipped by a copy that was cut off and resumed.
   (An engine without a log loses what happens while nobody listens.) *)
CopyConverges == AtRest /\ (hasLog \/ crashes = 0) => \A k \in Keys : Right(k)

(* The checkpoint never runs ahead of the destination: with it, the changes
   after it and the rest of the copy, every row can still be made right. *)
ResumePointSafe ==
  hasLog /\ saved.kind # "none" =>
    \A k \in Keys :
      \/ Right(k)
      \/ saved.kind = "row" /\ k > saved.key
      \/ \E n \in 1 .. Len(log) :
           log[n].key = k /\ n > (IF saved.kind = "log" THEN saved.at ELSE saved.from)

(* A bridge over an engine with a log, left alone by its users, ends up with
   the destination equal to the source, or stopped for a reason it names. *)
CopySettles == <>[](phase = "fatal" \/ ~hasLog \/ \A k \in Keys : Right(k))
=============================================================================
