----------------------------- MODULE WatchPoll -----------------------------
(***************************************************************************)
(* A bridge that polls a table (runPoll of bridge-watch.service.ts, with   *)
(* watchQuery and advanceCursor of packages/core/src/bridges/watch.ts).    *)
(*                                                                         *)
(* One bridge, one job, one poll at a time.  A row is its key and the      *)
(* value of the column that is watched: its number under "increment", the  *)
(* time of its last change under "timestamp".  A transaction takes that    *)
(* value when it begins and shows the row when it commits.  Every await of *)
(* a poll is a step, and the table may change between any two.  That one   *)
(* poll runs at a time is what withLock is for; it is not modelled here.   *)
(***************************************************************************)
EXTENDS Naturals, FiniteSets, Sequences

CONSTANTS
  Keys,            \* primary keys, 1..n
  MaxTime,         \* the clock stops here
  Cases,           \* how the bridge is set up, and what is asked for and goes wrong
  Lookback,        \* lookbackMs, in ticks of the clock
  Late,            \* how long a transaction takes at most, in ticks, per strategy
  PageLimit,       \* rows of a page
  MaxPerPoll,      \* rows after which a poll ends
  ScanPages,       \* SCAN_PAGES_PER_POLL
  MaxConsecutive,  \* SYNCLE_MAX_CONSECUTIVE_FAILURES
  MaxParked        \* SYNCLE_DEAD_LETTER_MAX_ROWS

Strategies == {"increment", "timestamp", "snapshot"}
Kinds == {"write", "delete", "fail", "park", "drift", "stop", "crash", "any"}

ASSUME WatchAssumption ==
  /\ Keys \subseteq Nat /\ IsFiniteSet(Keys)
  /\ MaxTime \in Nat \ {0} /\ Lookback \in Nat /\ Late \in [Strategies -> Nat]
  /\ PageLimit \in Nat \ {0} /\ MaxPerPoll \in Nat \ {0} /\ ScanPages \in Nat \ {0}
  /\ MaxConsecutive \in Nat \ {0} /\ MaxParked \in Nat
  /\ Cases \subseteq [strategy : Strategies, from : {"now", "beginning"}, onError : {"abort", "continue"},
                     budget : [Kinds -> Nat]]

VARIABLES
  config,   \* what the bridge was set to
  clock,    \* the source's clock, or its sequence
  open,     \* the source: the value each transaction took, 0 if there is none
  table,    \* the source: the value of each row, 0 if there is none
  job,      \* the job's row in the store: status, cursor, offset
  poll,     \* the poll at work
  cells,    \* the timeline: the delivery under each sequence number, from 0
  parked,   \* dead letters
  sent,     \* how often a row as it was then went out, 2 for more than once
  landed,   \* what was delivered
  ghost,    \* what was there before, what the page has sent, what a page that
            \* was cut off had sent, cells whose number was not saved, whether
            \* rows moved while a poll was further into its window
  budget

vars == <<config, clock, open, table, job, poll, cells, parked, sent, landed, ghost, budget>>
sourceVars == <<clock, open, table>>
outVars == <<cells, parked, sent, landed>>

Versions == Keys \X (1..MaxTime)
Cursors == [ts : 0..MaxTime, keys : SUBSET Versions]
NoCursor == [ts |-> 0, keys |-> {}]
Idle == [pc |-> "idle", cursor |-> NoCursor, seq |-> 0, offset |-> 0, pages |-> 0, delivered |-> 0,
         rows |-> {}, found |-> 0, next |-> NoCursor, full |-> FALSE, fails |-> 0, ok |-> TRUE, aborted |-> FALSE]

Polls ==
  [pc : {"idle", "seed", "fetch", "row", "record", "failed", "seq"}, cursor : Cursors, seq : Nat, offset : Nat,
   pages : Nat, delivered : Nat, rows : SUBSET Versions, found : Nat, next : Cursors, full : BOOLEAN,
   fails : Nat, ok : BOOLEAN, aborted : BOOLEAN]

SourceType == clock \in 1..MaxTime /\ open \in [Keys -> 0..MaxTime] /\ table \in [Keys -> 0..MaxTime]
OutType ==
  /\ cells \in Seq([row : Versions, ok : BOOLEAN]) /\ parked \subseteq [seq : Nat, row : Versions]
  /\ sent \in [Versions -> 0..2] /\ landed \subseteq Versions
TypeOK ==
  /\ config \in Cases /\ budget \in [Kinds -> Nat] /\ SourceType /\ OutType
  /\ job \in [status : {"none", "running", "paused"}, cursor : Cursors, offset : Nat] /\ poll \in Polls
  /\ ghost \in [before : SUBSET Versions, page : SUBSET Versions, cut : SUBSET Versions, loose : SUBSET Nat,
               shifted : BOOLEAN]

Init ==
  /\ config \in Cases
  /\ clock = 1 /\ open = [k \in Keys |-> 0] /\ table = [k \in Keys |-> 0]
  /\ job = [status |-> "none", cursor |-> NoCursor, offset |-> 0]
  /\ poll = Idle /\ cells = <<>> /\ parked = {}
  /\ sent = [v \in Versions |-> 0] /\ landed = {}
  /\ ghost = [before |-> {}, page |-> {}, cut |-> {}, loose |-> {}, shifted |-> FALSE]
  /\ budget = config.budget

Spend(k) ==
  /\ budget[k] > 0 /\ budget["any"] > 0
  /\ budget' = [budget EXCEPT ![k] = @ - 1, !["any"] = @ - 1]

There == {<<k, table[k]>> : k \in {j \in Keys : table[j] # 0}}

-----------------------------------------------------------------------------
(* the source *)

(* time passes while no transaction takes longer than they do *)
CanTick == clock < MaxTime /\ \A k \in Keys : open[k] # 0 => clock + 1 <= open[k] + Late[config.strategy]
Tick ==
  /\ config.strategy = "timestamp" /\ CanTick /\ clock' = clock + 1
  /\ UNCHANGED <<config, open, table, job, poll, outVars, ghost, budget>>

(* a transaction takes the time, or the next number.  Only timestamps show an
   update; the others are given inserts of new rows *)
Begin(k) ==
  /\ open[k] = 0 /\ budget["write"] > 0 /\ budget' = [budget EXCEPT !["write"] = @ - 1]
  /\ open' = [open EXCEPT ![k] = clock]
  /\ IF config.strategy = "timestamp" THEN UNCHANGED clock
     ELSE /\ table[k] = 0 /\ \A s \in 1..MaxTime : sent[<<k, s>>] = 0 /\ <<k, s>> \notin ghost.before
          /\ clock < MaxTime /\ clock' = clock + 1
          /\ \A j \in Keys : open[j] # 0 => clock <= open[j] + Late[config.strategy]
  /\ UNCHANGED <<config, table, job, poll, outVars, ghost>>

(* a poll pages by offset through a window of known rows, and a row leaves its
   place in that window or comes into it *)
Digging == poll.offset > 0 \/ (poll.pc = "row" /\ poll.full /\ poll.found = 0 /\ poll.next = poll.cursor)
Moves(k) == ghost' = [ghost EXCEPT !.shifted = @ \/ (Digging /\ (table[k] # 0 \/ open[k] <= poll.cursor.ts))]

Commit(k) ==
  /\ open[k] # 0
  /\ table' = [table EXCEPT ![k] = open[k]] /\ open' = [open EXCEPT ![k] = 0]
  /\ Moves(k)
  /\ UNCHANGED <<config, clock, job, poll, outVars, budget>>

Delete(k) ==
  /\ table[k] # 0 /\ Spend("delete")
  /\ table' = [table EXCEPT ![k] = 0] /\ Moves(k)
  /\ UNCHANGED <<config, clock, open, job, poll, outVars>>

-----------------------------------------------------------------------------
(* watch.ts *)

(* Slip: no look behind the cursor *)
InQueryAhead(c, v) == config.strategy = "snapshot" \/ v[2] > c.ts \/ (config.strategy = "timestamp" /\ v[2] = c.ts)

(* watchQuery: the rows a poll asks for, and their order *)
InQuery(c, v) ==
  CASE config.strategy = "increment" -> v[2] > c.ts
    [] config.strategy = "timestamp" -> v[2] + Lookback >= c.ts
    [] OTHER -> TRUE
watchQuery(c) == {v \in There : InQuery(c, v)}
Precedes(v, w) ==
  IF config.strategy = "snapshot" THEN v[1] < w[1]
  ELSE v[2] < w[2] \/ (v[2] = w[2] /\ v[1] < w[1])
Rank(S, v) == Cardinality({u \in S : Precedes(u, v)})
First(S) == CHOOSE v \in S : \A u \in S : ~Precedes(u, v)

(* a page of them, from an offset on *)
Page(c, offset) ==
  {v \in watchQuery(c) : Rank(watchQuery(c), v) \in offset .. (offset + PageLimit - 1)}

(* advanceCursor: which of a page's rows are new... *)
newRows(c, page) == IF config.strategy = "increment" THEN page ELSE page \ c.keys

Top(S, least) == CHOOSE t \in S \union {least} : \A u \in S \union {least} : t >= u
InWindow(t, top) == t = top \/ t + Lookback >= top

(* Slip: what earlier pages remembered is dropped *)
AdvanceForgets(c, page) ==
  LET top == Top({v[2] : v \in page}, c.ts) IN
  CASE config.strategy = "increment" -> [c EXCEPT !.ts = top]
    [] config.strategy = "snapshot"  -> [c EXCEPT !.keys = @ \union page]
    [] OTHER -> IF page = {} THEN c
                ELSE [ts |-> top, keys |-> {v \in page : InWindow(v[2], top)}]

(* ...and the cursor behind the page: the highest value, and for timestamps the
   rows that the next query will bring again *)
advanceCursor(c, page) ==
  LET top == Top({v[2] : v \in page}, c.ts) IN
  CASE config.strategy = "increment" -> [c EXCEPT !.ts = top]
    [] config.strategy = "snapshot"  -> [c EXCEPT !.keys = @ \union page]
    [] OTHER -> IF page = {} THEN c
                ELSE [ts |-> top,
                      keys |-> {v \in page : InWindow(v[2], top)}
                               \union {v \in c.keys : c.ts # 0 /\ InWindow(c.ts, top)}]

-----------------------------------------------------------------------------
(* starting and stopping *)

(* start, initialCursor: from now on, or from the beginning *)
Start ==
  /\ job.status = "none" /\ poll.pc = "idle"
  /\ IF config.from = "beginning"
     THEN job' = [job EXCEPT !.status = "running"] /\ UNCHANGED poll
     ELSE /\ poll' = [Idle EXCEPT !.pc = "seed", !.cursor.ts = Top({v[2] : v \in There}, 0)]
          /\ UNCHANGED job
  /\ ghost' = [ghost EXCEPT !.before = IF config.from = "now" THEN There ELSE {}]
  /\ UNCHANGED <<config, sourceVars, outVars, budget>>

(* the rows that are there at the last time, or, for a snapshot, at all *)
Seed ==
  /\ poll.pc = "seed"
  /\ LET keys == CASE config.strategy = "increment" -> {}
                   [] config.strategy = "snapshot"  -> There
                   [] OTHER -> {v \in There : poll.cursor.ts # 0 /\ v[2] >= poll.cursor.ts}
         ts == IF config.strategy = "snapshot" THEN 0 ELSE poll.cursor.ts IN
     /\ job' = [job EXCEPT !.status = "running", !.cursor = [ts |-> ts, keys |-> keys]]
     /\ ghost' = [ghost EXCEPT !.before = @ \union keys]
  /\ poll' = Idle
  /\ UNCHANGED <<config, sourceVars, outVars, budget>>

Restart ==
  /\ job.status = "paused"
  /\ job' = [job EXCEPT !.status = "running"]
  /\ UNCHANGED <<config, sourceVars, poll, outVars, ghost, budget>>

(* stop: the registry reaches a poll that runs in the same process; one in
   another process goes on to its end *)
Stop ==
  /\ job.status = "running" /\ Spend("stop")
  /\ job' = [job EXCEPT !.status = "paused"]
  /\ \E same \in BOOLEAN : poll' = [poll EXCEPT !.aborted = @ \/ (same /\ poll.pc # "idle")]
  /\ UNCHANGED <<config, sourceVars, outVars, ghost>>

-----------------------------------------------------------------------------
(* the poll *)

(* a poll that ends within a page: the cursor is not saved, and what the page
   has sent will be sent again *)
Over == poll' = Idle
CutOff == ghost' = [ghost EXCEPT !.cut = @ \union ghost.page, !.page = {}]

PollBegin ==
  /\ poll.pc = "idle" /\ job.status = "running"
  /\ poll' = [Idle EXCEPT !.pc = "fetch", !.cursor = job.cursor, !.seq = job.offset]
  /\ UNCHANGED <<config, sourceVars, job, outVars, ghost, budget>>

Limit == IF config.strategy = "snapshot" THEN PageLimit ELSE MaxPerPoll
Drained == poll.delivered >= Limit \/ poll.pages >= ScanPages

(* the next page of the window *)
Fetch ==
  /\ poll.pc = "fetch" /\ ~Drained /\ ~poll.aborted
  /\ LET page == Page(poll.cursor, poll.offset) IN
     poll' = [poll EXCEPT !.pc = "row", !.pages = @ + 1,
                !.rows = newRows(poll.cursor, page), !.found = Cardinality(newRows(poll.cursor, page)),
                !.next = advanceCursor(poll.cursor, page), !.full = Cardinality(page) >= PageLimit]
  /\ UNCHANGED <<config, sourceVars, job, outVars, ghost, budget>>

(* runPoll ends: drained, or stopped *)
PollEnd ==
  /\ \/ poll.pc = "fetch" /\ (Drained \/ poll.aborted)
     \/ poll.pc = "row" /\ poll.aborted
  /\ Over /\ CutOff
  /\ UNCHANGED <<config, sourceVars, job, outVars, budget>>

(* sink.deliver: one row *)
Deliver(ok) ==
  /\ poll.pc = "row" /\ poll.rows # {} /\ ~poll.aborted
  /\ IF ok THEN UNCHANGED budget ELSE budget["fail"] > 0 /\ budget' = [budget EXCEPT !["fail"] = @ - 1]
  /\ LET v == First(poll.rows) IN
     /\ sent' = [sent EXCEPT ![v] = IF @ = 0 THEN 1 ELSE 2]
     /\ landed' = IF ok THEN landed \union {v} ELSE landed
     /\ ghost' = [ghost EXCEPT !.page = @ \union {v}]
  /\ poll' = [poll EXCEPT !.pc = "record", !.ok = ok]
  /\ UNCHANGED <<config, sourceVars, job, cells, parked>>

(* recordDelivery: the cell of this number, new or not *)
Record ==
  /\ poll.pc = "record"
  /\ LET cell == [row |-> First(poll.rows), ok |-> poll.ok] IN
     cells' = IF poll.seq < Len(cells) THEN [cells EXCEPT ![poll.seq + 1] = cell] ELSE Append(cells, cell)
  /\ poll' = IF poll.ok THEN [poll EXCEPT !.pc = "seq", !.fails = 0]
             ELSE [poll EXCEPT !.pc = "failed", !.fails = @ + 1]
  /\ UNCHANGED <<config, sourceVars, job, parked, sent, landed, ghost, budget>>

(* pause: onError=abort, a destination that is dead, a queue that is full, or a
   row that could not be set aside *)
Full == Cardinality(parked) + 1 > MaxParked
Pause ==
  /\ poll.pc = "failed"
  /\ \/ (config.onError = "abort" \/ poll.fails >= MaxConsecutive \/ Full) /\ UNCHANGED budget
     \/ Spend("park")
  /\ job' = [job EXCEPT !.status = "paused"]
  /\ Over /\ CutOff
  /\ UNCHANGED <<config, sourceVars, outVars>>

(* park, replaceFrom: what an earlier attempt left from this number on is replaced *)
Park ==
  /\ poll.pc = "failed" /\ config.onError = "continue" /\ poll.fails < MaxConsecutive /\ ~Full
  /\ parked' = {p \in parked : p.seq < poll.seq} \union {[seq |-> poll.seq, row |-> First(poll.rows)]}
  /\ poll' = [poll EXCEPT !.pc = "seq"]
  /\ UNCHANGED <<config, sourceVars, job, cells, sent, landed, ghost, budget>>

(* Slip: the number is only saved with the page *)
SaveSeqWithPage ==
  /\ poll.pc = "seq"
  /\ poll' = [poll EXCEPT !.pc = "row", !.seq = @ + 1, !.rows = @ \ {First(@)}]
  /\ UNCHANGED <<config, sourceVars, job, outVars, ghost, budget>>

(* the number is saved at once, the cursor with the page *)
SaveSeq ==
  /\ poll.pc = "seq"
  /\ poll' = [poll EXCEPT !.pc = "row", !.seq = @ + 1, !.rows = @ \ {First(@)}]
  /\ job' = [job EXCEPT !.offset = poll.seq + 1]
  /\ UNCHANGED <<config, sourceVars, outVars, ghost, budget>>

(* Slip: a full page of known rows is asked for again *)
TurnNot == [poll EXCEPT !.pc = "fetch", !.offset = 0]

(* the next page: further into a window of rows that are all known, or from the
   top of the new window *)
Turn ==
  IF poll.found = 0 /\ poll.next = poll.cursor
  THEN [poll EXCEPT !.pc = "fetch", !.offset = @ + PageLimit]
  ELSE [poll EXCEPT !.pc = "fetch", !.offset = 0]

SavePage ==
  /\ poll.pc = "row" /\ poll.rows = {} /\ ~poll.aborted
  /\ job' = [job EXCEPT !.cursor = poll.next, !.offset = poll.seq]
  /\ ghost' = [ghost EXCEPT !.page = {}]
  /\ poll' = IF poll.full THEN [Turn EXCEPT !.cursor = poll.next, !.delivered = @ + poll.found] ELSE Idle
  /\ UNCHANGED <<config, sourceVars, outVars, budget>>

(* the table has changed under the bridge *)
Drift ==
  /\ poll.pc = "row" /\ poll.rows # {} /\ ~poll.aborted /\ Spend("drift")
  /\ job' = [job EXCEPT !.status = "paused"]
  /\ Over /\ CutOff
  /\ UNCHANGED <<config, sourceVars, outVars>>

Crash ==
  /\ poll.pc # "idle" /\ Spend("crash")
  /\ Over
  /\ ghost' = [ghost EXCEPT !.cut = @ \union ghost.page, !.page = {},
                 !.loose = IF poll.pc \in {"failed", "seq"} THEN @ \union {poll.seq + 1} ELSE @]
  /\ UNCHANGED <<config, sourceVars, job, outVars>>

Work ==
  \/ Seed \/ PollBegin \/ Fetch \/ PollEnd \/ Deliver(TRUE) \/ Record \/ Pause \/ Park \/ SaveSeq \/ SavePage

Next ==
  \/ Tick \/ \E k \in Keys : Begin(k) \/ Commit(k) \/ Delete(k)
  \/ Start \/ Restart \/ Stop \/ Work \/ Deliver(FALSE) \/ Drift \/ Crash

Spec == Init /\ [][Next]_vars

(* the scheduler goes on firing, awaited calls answer, transactions end *)
FairSpec == Spec /\ WF_vars(Work) /\ WF_vars(\E k \in Keys : Commit(k))

-----------------------------------------------------------------------------
Settled(v) == v \in landed \/ v \in ghost.before \/ \E p \in parked : p.row = v
StillAhead(v) == InQuery(job.cursor, v) /\ (config.strategy # "increment" => v \notin job.cursor.keys)

(* A row that is there has been delivered or set aside, or the saved cursor
   still asks for it. *)
NothingSkipped == job.status # "none" => \A v \in There : Settled(v) \/ StillAhead(v)

(* That is so whatever commits late within the lookback, however pages fall, and
   wherever a poll is stopped, fails or dies, as long as no row leaves its place
   while a poll pages by offset through a window of known rows. *)
SkipsNothing == ~ghost.shifted => NothingSkipped

(* A row goes out twice only if the page it went out with was cut off: the
   overlap that every poll reads again is never sent again. *)
EmittedOnce == \A v \in Versions : sent[v] = 2 => v \in ghost.cut

(* A delivery that is shown stays: its number is not given to another row, when
   a page is cut off and read again, unless the process died before it could
   save the number. *)
NumbersNotReused ==
  [][\A i \in DOMAIN cells : cells[i].ok /\ i \notin ghost.loose => cells'[i] = cells[i]]_vars

(* A bridge that listens gets everything there is in the end: no poll asks for
   the same page for ever. *)
CatchesUp == <>[](job.status # "running" \/ ghost.shifted \/ \A v \in There : Settled(v))

(* Rows that were there when a bridge was told to start from now are not sent. *)
ExistingIgnored == \A v \in ghost.before : sent[v] = 0
=============================================================================
