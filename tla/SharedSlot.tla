----------------------------- MODULE SharedSlot -----------------------------
(***************************************************************************)
(* One replication slot for many bridges: postgres-shared-slot.ts, for one *)
(* slot.  Joining through the barrier, opening and stopping members,       *)
(* leaving, and the one reader that hands every change to the members      *)
(* whose table it belongs to and tells the server the position of the      *)
(* slowest.                                                                *)
(*                                                                         *)
(* The source writes in transactions.  A transaction's changes of a table  *)
(* are one event here, and are decoded only if the table was published     *)
(* when they were made (seen), which is how pgoutput looks it up; the      *)
(* others are hidden.  A position of the WAL is the number of commits      *)
(* before it.  A cursor is a number in the order lsnAfter gives: the       *)
(* change of table k in transaction t, or the end of t.  A "table" stands  *)
(* for a table with a set of operations, which is what is published.       *)
(***************************************************************************)
EXTENDS Integers, Sequences, FiniteSetsExt

CONSTANTS
  Bridges,
  TableCount,
  Table,        \* the table each bridge reads
  Txns,         \* transactions that can be open at a time
  MaxWal,       \* transactions that commit
  Founders,     \* the bridges that have joined to begin with
  MaxTouch,     \* times a transaction touches a table
  Disturbances  \* members that stop or leave, readers, handlers and processes that fail

Tables == 1 .. TableCount

ASSUME SharedSlotAssumption ==
  /\ TableCount \in Nat
  /\ Table \in [Bridges -> Tables]
  /\ Founders \subseteq Bridges
  /\ {MaxWal, MaxTouch, Disturbances} \subseteq Nat

VARIABLES
  open, wal, pub, slot,      \* the source: transactions, publications, the slot's confirmed position
  rows,                      \* the store: cdc_shared_members.confirmedLsn
  saved, got, pend,          \* each bridge's pipeline: its cursor, the changes behind it, those in flight
  base,                      \* ghost: where a bridge began, and what was in the table by then
  member, idle, gen, cycle,  \* SharedStream
  run, handing,              \* its run(), and the each() under way
  busy, waits,               \* the operation that has the slot's queue, and the transactions it waits for
  cut,                       \* ghost: tables whose join a crash cut short
  touches, left              \* how often transactions have touched tables; disturbances left

sourceVars == <<open, wal>>
serverVars == <<pub, slot>>
pipeVars == <<saved, got, pend, base>>
streamVars == <<member, idle, gen, cycle>>
readVars == <<run, handing>>
queueVars == <<busy, waits>>
vars == <<sourceVars, serverVars, rows, pipeVars, streamVars, readVars, queueVars, cut, touches, left>>

None == -1
NoBase == [from |-> None, copied |-> None]
NoTxn == [seen |-> {}, hidden |-> {}]
NoMember == [on |-> FALSE, since |-> 0, highest |-> 0, acked |-> 0, confirmed |-> 0]
NoWork == [cursor |-> 0, gen |-> 0, todo |-> {}]
NotRunning == [at |-> "off", gen |-> 0, pos |-> 0]
Looping == [at |-> "loop", gen |-> 0, pos |-> 0]
Free == [at |-> "free", bridge |-> None, leave |-> FALSE]

Disturb == left > 0 /\ left' = left - 1

(* cursors: PgPosition, in the order of lsnAfter *)
Width == TableCount + 1
ChangeCursor(t, k) == (t - 1) * Width + k
EndCursor(t) == t * Width
IsEnd(c) == c % Width = 0
TxnOf(c) == (c - 1) \div Width + 1
(* parsePgCursor: only the end of a transaction may be confirmed *)
AckOf(c) == IF IsEnd(c) THEN c \div Width ELSE None

Running == {b \in Bridges : member[b].on}
HasRow == {b \in Bridges : rows[b] # None}
OpenTxns == {x \in Txns : open[x] # NoTxn}

(* refreshIdle: positions() of the store as it will be *)
RefreshIdle == idle' = rows'

(* floor, of the members and the idle map as they will be *)
FloorOf(mem, idl) ==
  LET here == {b \in Bridges : mem[b].on}
      there == {b \in Bridges \ here : idl[b] # None}
      all == {mem[b].confirmed : b \in here} \union {idl[b] : b \in there}
  IN IF all = {} THEN None ELSE Min(all)

(* confirm: told to the server if there is a reader to tell it by *)
Confirm(mem) ==
  slot' = IF run.at = "read" THEN Max({slot, FloorOf(mem, idle)}) ELSE slot

(* persist: at most once a second while a member runs, and once more when it
   stops, where a failed write is only logged; what that has left in the row
   is settled when somebody reads it *)
Persisted(b) == IF member[b].on THEN rows[b] .. member[b].confirmed ELSE {rows[b]}

(* a table is in order again once nothing is left of the join that was cut *)
StillCut == cut' = {k \in cut : k \in pub' \/ \E b \in Bridges : rows'[b] # None /\ Table[b] = k}

(* unpublish, unless another member reads the same *)
Unpublished(b, others) ==
  IF \E o \in others \ {b} : Table[o] = Table[b] THEN pub ELSE pub \ {Table[b]}

Lsns == None .. Len(wal)
Txn == [seen : SUBSET Tables, hidden : SUBSET Tables]

TypeOK ==
  /\ open \in [Txns -> Txn] /\ wal \in Seq(Txn)
  /\ pub \subseteq Tables /\ slot \in Lsns
  /\ {rows, idle} \subseteq [Bridges -> Lsns]
  /\ saved \in [Bridges -> None .. EndCursor(Len(wal))] /\ got \in [Bridges -> SUBSET (1 .. Len(wal))]
  /\ pend \in [Bridges -> Seq(1 .. EndCursor(Len(wal)))] /\ base \in [Bridges -> [from : Lsns, copied : Lsns]]
  /\ \A b \in Bridges : /\ member[b].on \in BOOLEAN /\ member[b].confirmed \in Lsns
                         /\ {member[b].since, member[b].highest, member[b].acked} \subseteq Nat
  /\ gen \in Nat /\ cycle \in BOOLEAN
  /\ run \in [at : {"off", "loop", "wait", "read"}, gen : Nat, pos : 0 .. EndCursor(Len(wal))]
  /\ handing.todo \subseteq Bridges
  /\ busy.bridge \in Bridges \union {None} /\ waits \subseteq OpenTxns
  /\ cut \subseteq Tables /\ touches \in 0 .. MaxTouch /\ left \in 0 .. Disturbances

Init ==
  /\ open = [x \in Txns |-> NoTxn] /\ wal = <<>>
  /\ pub = {Table[b] : b \in Founders} /\ slot = IF Founders = {} THEN None ELSE 0
  /\ rows = [b \in Bridges |-> IF b \in Founders THEN 0 ELSE None]
  /\ saved = [b \in Bridges |-> None] /\ got = [b \in Bridges |-> {}]
  /\ pend = [b \in Bridges |-> <<>>] /\ base = [b \in Bridges |-> NoBase]
  /\ member = [b \in Bridges |-> NoMember] /\ idle = [b \in Bridges |-> None]
  /\ gen = 0 /\ cycle = FALSE /\ run = NotRunning /\ handing = NoWork
  /\ busy = Free /\ waits = {} /\ cut = {} /\ touches = 0 /\ left = Disturbances

-----------------------------------------------------------------------------
(* the source *)

Touch(x, k) ==
  /\ Len(wal) < MaxWal /\ touches < MaxTouch
  /\ touches' = touches + 1
  /\ open' = IF k \in pub THEN [open EXCEPT ![x].seen = @ \union {k}]
                           ELSE [open EXCEPT ![x].hidden = @ \union {k}]
  /\ open' # open
  /\ UNCHANGED <<wal, serverVars, rows, pipeVars, streamVars, readVars, queueVars, cut, left>>

EndTxn(x) ==
  /\ x \in OpenTxns
  /\ \/ Len(wal) < MaxWal /\ wal' = Append(wal, open[x])
     \/ UNCHANGED wal
  /\ open' = [open EXCEPT ![x] = NoTxn]
  /\ waits' = waits \ {x}
  /\ UNCHANGED <<serverVars, rows, pipeVars, streamVars, readVars, busy, cut, touches, left>>

-----------------------------------------------------------------------------
(* join *)

Step(at) == busy' = [busy EXCEPT !.at = at]
At(at) == busy.at = at
Joins(b) == [at |-> "hold", bridge |-> b, leave |-> FALSE]

(* a new member; ensureSlot makes the slot if there is none, for which the
   server waits until the transactions open now have ended *)
Join(b) ==
  /\ At("free") /\ ~member[b].on /\ rows[b] = None
  /\ busy' = IF slot = None THEN [Joins(b) EXCEPT !.at = "create"] ELSE Joins(b)
  /\ waits' = IF slot = None THEN OpenTxns ELSE {}
  /\ UNCHANGED <<sourceVars, serverVars, rows, pipeVars, streamVars, readVars, cut, touches, left>>

JoinCreated ==
  /\ At("create") /\ waits = {}
  /\ slot' = Len(wal)
  /\ Step("hold")
  /\ UNCHANGED <<sourceVars, pub, rows, pipeVars, streamVars, readVars, waits, cut, touches, left>>

(* held from here on, at a provisional position *)
JoinHold ==
  /\ At("hold")
  /\ rows' = [rows EXCEPT ![busy.bridge] = slot]
  /\ RefreshIdle
  /\ Step("publish")
  /\ UNCHANGED <<sourceVars, serverVars, pipeVars, member, gen, cycle, readVars, waits, cut, touches, left>>

(* a table that was already published has no gap to close *)
JoinPublish ==
  /\ At("publish")
  /\ LET k == Table[busy.bridge] IN
     IF k \in pub THEN Step("take") /\ UNCHANGED <<pub, waits>>
     ELSE pub' = pub \union {k} /\ waits' = OpenTxns /\ Step("barrier")
  /\ UNCHANGED <<sourceVars, slot, rows, pipeVars, streamVars, readVars, cut, touches, left>>

JoinBarrier ==
  /\ At("barrier") /\ waits = {}
  /\ Step("take")
  /\ UNCHANGED <<sourceVars, serverVars, rows, pipeVars, streamVars, readVars, waits, cut, touches, left>>

(* a table that no other member reads *)
Torn(b) == {Table[b]} \ {Table[o] : o \in HasRow \ {b}}

(* a step of the join fails, as the barrier does when sharedSlotJoinWaitMs is over:
   not a member after all.  What takes it back may fail too, and is not told *)
JoinGivesUp ==
  /\ busy.at \in {"publish", "barrier", "take"}
  /\ LET b == busy.bridge
         without == [rows EXCEPT ![b] = None] IN
     \/ /\ rows' = without /\ pub' = Unpublished(b, HasRow)
        /\ StillCut /\ UNCHANGED left
     \/ /\ Disturb
        /\ rows' \in {rows, without} /\ pub' \in {pub, Unpublished(b, HasRow)}
        /\ cut' = {k \in cut \union Torn(b) : k \in pub' \/ \E o \in Bridges : rows'[o] # None /\ Table[o] = k}
  /\ RefreshIdle
  /\ busy' = Free /\ waits' = {}
  /\ UNCHANGED <<sourceVars, slot, pipeVars, member, gen, cycle, readVars, touches>>

JoinTake ==
  /\ At("take")
  /\ rows' = [rows EXCEPT ![busy.bridge] = Len(wal)]
  /\ RefreshIdle
  /\ busy' = Free
  /\ UNCHANGED <<sourceVars, serverVars, pipeVars, member, gen, cycle, readVars, waits, cut, touches, left>>

(* a join of one that has its row: the table is put back, and nothing else *)
Rejoin(b) ==
  /\ At("free") /\ rows[b] # None /\ Table[b] \notin pub
  /\ pub' = pub \union {Table[b]}
  /\ UNCHANGED <<sourceVars, slot, rows, pipeVars, streamVars, readVars, queueVars, cut, touches, left>>

-----------------------------------------------------------------------------
(* members *)

(* open, and add up to its first await: read for from its saved cursor, or
   from where it joined, and by no reader that runs already *)
Open(b) ==
  /\ At("free") /\ ~member[b].on /\ rows[b] # None /\ Table[b] \in pub
  /\ LET had == IF saved[b] = None THEN EndCursor(rows[b]) ELSE saved[b] IN
     member' = [member EXCEPT ![b] = [on |-> TRUE, since |-> gen + 1, highest |-> had,
                                      acked |-> had, confirmed |-> rows[b]]]
  /\ base' = [base EXCEPT ![b] = IF @ = NoBase THEN [from |-> rows[b], copied |-> Len(wal)] ELSE @]
  /\ busy' = [at |-> "adding", bridge |-> b, leave |-> FALSE]
  /\ UNCHANGED <<sourceVars, serverVars, rows, saved, got, pend, idle, gen, cycle, readVars, waits, cut, touches, left>>

(* restart: what the running reader hands out stops counting at once *)
Restart ==
  /\ At("adding")
  /\ idle' = rows
  /\ gen' = gen + 1 /\ cycle' = TRUE
  /\ busy' = Free
  /\ UNCHANGED <<sourceVars, serverVars, rows, pipeVars, member, readVars, waits, cut, touches, left>>

(* remove, up to its last await; the pipeline's teardown is CdcPipeline's *)
Removed(b) ==
  /\ member' = [member EXCEPT ![b] = NoMember]
  /\ pend' = [pend EXCEPT ![b] = <<>>]
  /\ \E lsn \in Persisted(b) : rows' = [rows EXCEPT ![b] = lsn]

Stop(b) ==
  /\ At("free") /\ member[b].on
  /\ Disturb
  /\ Removed(b)
  /\ busy' = [at |-> "removed", bridge |-> b, leave |-> FALSE]
  /\ UNCHANGED <<sourceVars, serverVars, saved, got, base, idle, gen, cycle, readVars, waits, cut, touches>>

(* leave begins with a remove too *)
Leave(b) ==
  /\ At("free") /\ rows[b] # None
  /\ Disturb
  /\ Removed(b)
  /\ busy' = [at |-> IF member[b].on THEN "removed" ELSE "delete", bridge |-> b, leave |-> TRUE]
  /\ UNCHANGED <<sourceVars, serverVars, saved, got, base, idle, gen, cycle, readVars, waits, cut, touches>>

(* leave of a bridge that has no row, and is the last to know of the slot *)
LeaveAgain(b) ==
  /\ At("free") /\ HasRow = {} /\ slot # None
  /\ busy' = [at |-> "delete", bridge |-> b, leave |-> TRUE]
  /\ UNCHANGED <<sourceVars, serverVars, rows, pipeVars, streamVars, readVars, waits, cut, touches, left>>

(* close, up to its wait for run(): the reader is stopped if there is one yet *)
Close ==
  /\ gen' = gen + 1 /\ cycle' = FALSE
  /\ run' = IF run.at = "read" THEN Looping ELSE run

AfterRemove == IF busy.leave THEN Step("delete") ELSE busy' = Free

(* remove: refreshIdle, and the last member closes the stream *)
RemoveEnds ==
  /\ At("removed")
  /\ idle' = rows
  /\ IF Running = {} THEN Close /\ Step("closing")
     ELSE AfterRemove /\ UNCHANGED <<gen, cycle, run>>
  /\ UNCHANGED <<sourceVars, serverVars, rows, pipeVars, member, handing, waits, cut, touches, left>>

(* run() has ended: the stream is forgotten *)
Closed ==
  /\ At("closing") /\ run.at = "off"
  /\ gen' = 0 /\ handing' = NoWork
  /\ AfterRemove
  /\ UNCHANGED <<sourceVars, serverVars, rows, pipeVars, member, idle, cycle, run, waits, cut, touches, left>>

(* leave: the row goes, and with it what the bridge knew of its position *)
LeaveDelete ==
  /\ At("delete")
  /\ LET b == busy.bridge IN
     /\ rows' = [rows EXCEPT ![b] = None]
     /\ saved' = [saved EXCEPT ![b] = None] /\ got' = [got EXCEPT ![b] = {}]
     /\ base' = [base EXCEPT ![b] = NoBase]
  /\ RefreshIdle
  /\ Step(IF rows[busy.bridge] = None THEN "counted" ELSE "unpublish")
  /\ UNCHANGED <<sourceVars, serverVars, pend, member, gen, cycle, readVars, waits, cut, touches, left>>

LeaveUnpublish ==
  /\ busy.at \in {"unpublish", "counted"}
  /\ pub' = IF At("unpublish") THEN Unpublished(busy.bridge, HasRow) ELSE pub
  /\ IF HasRow # {} THEN busy' = Free /\ UNCHANGED <<gen, cycle, run>>
     ELSE Close /\ Step("last")
  /\ UNCHANGED rows /\ StillCut
  /\ UNCHANGED <<sourceVars, slot, pipeVars, member, idle, handing, waits, touches, left>>

(* the last one takes the slot and the publications with it *)
LeaveLast ==
  /\ At("last") /\ run.at = "off"
  /\ slot' = None /\ pub' = {} /\ cut' = {}
  /\ gen' = 0 /\ handing' = NoWork
  /\ busy' = Free
  /\ UNCHANGED <<sourceVars, rows, pipeVars, member, idle, cycle, run, waits, touches, left>>

-----------------------------------------------------------------------------
(* run *)

(* the timer restart has set: the reader is replaced *)
Cycle ==
  /\ cycle /\ cycle' = FALSE
  /\ run' = IF run.at \in {"off", "read"} THEN Looping ELSE run
  /\ UNCHANGED <<sourceVars, serverVars, rows, pipeVars, member, idle, gen, handing, queueVars, cut, touches, left>>

(* Slip: the loop does not look whether anybody is left *)
RunLoopOn ==
  /\ run.at = "loop"
  /\ run' = [at |-> "wait", gen |-> gen, pos |-> 0]
  /\ UNCHANGED <<sourceVars, serverVars, rows, pipeVars, streamVars, handing, queueVars, cut, touches, left>>

RunLoop ==
  /\ run.at = "loop"
  /\ run' = IF Running = {} THEN NotRunning ELSE [at |-> "wait", gen |-> gen, pos |-> 0]
  /\ UNCHANGED <<sourceVars, serverVars, rows, pipeVars, streamVars, handing, queueVars, cut, touches, left>>

(* nothing of the previous reader may still be on its way to a member *)
Subscribe ==
  /\ run.at = "wait" /\ handing = NoWork
  /\ run' = [run EXCEPT !.at = "read", !.pos = EndCursor(slot)]
  /\ UNCHANGED <<sourceVars, serverVars, rows, pipeVars, streamVars, handing, queueVars, cut, touches, left>>

(* the server, or the network, ends the stream; one that is not answered any
   more is ended by the server's timeout *)
ReaderEnds ==
  /\ run.at = "read"
  /\ \/ run.gen # gen /\ UNCHANGED left
     \/ run.gen = gen /\ Disturb
  /\ run' = Looping
  /\ UNCHANGED <<sourceVars, serverVars, rows, pipeVars, streamVars, handing, queueVars, cut, touches>>

(* what the server sends next: the changes decoded of a transaction, and its
   end, which a server may leave out when there are none *)
NextTxn == run.pos \div Width + 1
NextChanges == {k \in wal[NextTxn].seen : ChangeCursor(NextTxn, k) > run.pos}

Reading == run.at = "read" /\ run.gen = gen /\ handing = NoWork

Hand(c, S) ==
  /\ run' = [run EXCEPT !.pos = c]
  /\ handing' = IF S = {} THEN NoWork ELSE [cursor |-> c, gen |-> run.gen, todo |-> S]

Read ==
  /\ Reading /\ NextTxn <= Len(wal)
  /\ IF NextChanges # {}
     THEN LET k == Min(NextChanges) IN
          Hand(ChangeCursor(NextTxn, k), {b \in Running : Table[b] = k})
     ELSE \/ Hand(EndCursor(NextTxn), Running)
          \/ wal[NextTxn].seen = {} /\ Hand(EndCursor(NextTxn), {})
  /\ UNCHANGED <<sourceVars, serverVars, rows, pipeVars, streamVars, queueVars, cut, touches, left>>

(* Slip: what a member has had is handed to it again *)
TakesAgain(b) == member[b].on /\ member[b].since <= handing.gen

(* Slip: a reader from before the member was added serves it too *)
TakesAnyReader(b) == member[b].on /\ handing.cursor > member[b].highest

(* each: once, in order, and nothing by a reader older than the member.  It *)
(* goes over the members as they were when it began: one removed meanwhile  *)
(* may still be handed the change, but its pipeline was stopped first and   *)
(* drops it, so it takes nothing here; added again, its since is later.     *)
Takes(b) ==
  /\ member[b].on
  /\ member[b].since <= handing.gen
  /\ handing.cursor > member[b].highest

Done(b) ==
  handing' = IF handing.todo = {b} THEN NoWork ELSE [handing EXCEPT !.todo = @ \ {b}]

HandTo(b) ==
  /\ b \in handing.todo
  /\ Done(b)
  /\ IF Takes(b)
     THEN /\ member' = [member EXCEPT ![b].highest = handing.cursor]
          /\ pend' = [pend EXCEPT ![b] = Append(@, handing.cursor)]
     ELSE UNCHANGED <<member, pend>>
  /\ UNCHANGED <<sourceVars, serverVars, rows, saved, got, base, idle, gen, cycle, run, queueVars, cut, touches, left>>

(* a member's handler throws: it is given nothing further *)
HandThrows(b) ==
  /\ b \in handing.todo /\ Takes(b)
  /\ Disturb
  /\ Done(b)
  /\ Removed(b) /\ RefreshIdle
  /\ UNCHANGED <<sourceVars, serverVars, saved, got, base, gen, cycle, run, queueVars, cut, touches>>

(* what was handed over is durable, and ack says so *)
Settle(b) ==
  /\ pend[b] # <<>>
  /\ LET c == Head(pend[b]) IN
     /\ saved' = [saved EXCEPT ![b] = c]
     /\ got' = [got EXCEPT ![b] = IF IsEnd(c) THEN @ ELSE @ \union {TxnOf(c)}]
     /\ member' = [member EXCEPT ![b].acked = Max({@, c}),
                                 ![b].confirmed = Max({@, AckOf(c)})]
     /\ IF IsEnd(c) THEN Confirm(member') ELSE UNCHANGED slot
  /\ pend' = [pend EXCEPT ![b] = Tail(@)]
  /\ UNCHANGED <<sourceVars, pub, rows, base, idle, gen, cycle, readVars, queueVars, cut, touches, left>>

(* a keepalive: a member with nothing in flight has got to where it reports *)
Quiet(b) ==
  /\ member[b].on /\ member[b].since <= run.gen
  /\ member[b].highest <= member[b].acked

(* Slip: a keepalive is answered, and moves nobody *)
HeartbeatAnswers ==
  /\ Reading /\ IsEnd(run.pos)
  /\ Confirm(member)
  /\ UNCHANGED <<sourceVars, pub, rows, pipeVars, streamVars, readVars, queueVars, cut, touches, left>>

Heartbeat ==
  /\ Reading /\ IsEnd(run.pos)
  /\ LET at == run.pos \div Width
         moved == {b \in Bridges : Quiet(b) /\ member[b].confirmed < at}
     IN member' = [b \in Bridges |-> IF b \in moved THEN [member[b] EXCEPT !.confirmed = at]
                                                    ELSE member[b]]
  /\ Confirm(member')
  /\ UNCHANGED <<sourceVars, pub, rows, pipeVars, idle, gen, cycle, readVars, queueVars, cut, touches, left>>

-----------------------------------------------------------------------------
(* the process dies: the source, the store and the cursors are what is left *)
Crash ==
  /\ Disturb
  /\ member' = [b \in Bridges |-> NoMember] /\ pend' = [b \in Bridges |-> <<>>]
  /\ gen' = 0 /\ cycle' = FALSE /\ run' = NotRunning /\ handing' = NoWork
  /\ cut' = IF busy.at \in {"publish", "barrier"} THEN cut \union {Table[busy.bridge]} ELSE cut
  /\ rows' \in [Bridges -> None .. Len(wal)] /\ \A b \in Bridges : rows'[b] \in Persisted(b)
  /\ busy' = Free /\ waits' = {}
  /\ UNCHANGED <<sourceVars, serverVars, saved, got, base, idle, touches>>

Next ==
  \/ \E x \in Txns : EndTxn(x) \/ \E k \in Tables : Touch(x, k)
  \/ \E b \in Bridges : Join(b) \/ Rejoin(b) \/ Open(b) \/ Stop(b) \/ Leave(b) \/ LeaveAgain(b)
  \/ JoinCreated \/ JoinHold \/ JoinPublish \/ JoinBarrier \/ JoinGivesUp \/ JoinTake
  \/ Restart \/ RemoveEnds \/ Closed \/ LeaveDelete \/ LeaveUnpublish \/ LeaveLast
  \/ Cycle \/ RunLoop \/ Subscribe \/ ReaderEnds \/ Read \/ Heartbeat
  \/ \E b \in Bridges : HandTo(b) \/ HandThrows(b) \/ Settle(b)
  \/ Crash

Spec == Init /\ [][Next]_vars

-----------------------------------------------------------------------------
(* A change of a transaction that committed after a bridge began is in its
   table's copy, or in its hands, or still to come to it. *)

Had(b, t) == t \in got[b] \/ \E i \in DOMAIN pend[b] : pend[b][i] = ChangeCursor(t, Table[b])

(* the reader of the member's time has not passed it, or has it in hand *)
Ahead(b, c) ==
  \/ ~member[b].on
  \/ /\ member[b].highest < c
     /\ \/ run.at # "read" \/ run.gen # gen \/ run.gen < member[b].since
        \/ run.pos < c
        \/ handing.cursor = c /\ b \in handing.todo

ToCome(b, t) ==
  LET c == ChangeCursor(t, Table[b]) IN
  /\ saved[b] < c /\ slot # None /\ slot < t
  /\ (IF member[b].on THEN member[b].confirmed ELSE rows[b]) < t
  /\ Ahead(b, c)

(* NothingMissed: the header's promise. A member misses no change, whoever
   else joins, stops, leaves or is slow, and wherever the reader is replaced
   or the process dies. Two things are left out: a table whose join a crash
   cut short (cut), and a bridge that has not read yet. *)
NothingMissed ==
  \A b \in Bridges : base[b] # NoBase /\ rows[b] # None =>
    \A t \in 1 .. Len(wal) :
      /\ Table[b] \in wal[t].hidden /\ Table[b] \notin cut => t <= base[b].copied
      /\ Table[b] \in wal[t].seen /\ t > base[b].from => Had(b, t) \/ ToCome(b, t)

(* InOrderOnce: what a member is handed comes in order and once, behind what
   it has made durable, however often the stream starts again. *)
InOrderOnce ==
  \A b \in Bridges :
    /\ \A i \in DOMAIN pend[b] : pend[b][i] > (IF i = 1 THEN saved[b] ELSE pend[b][i - 1])
    /\ pend[b] # <<>> => member[b].on

-----------------------------------------------------------------------------
(* Fairness: timers fire, awaits and transactions end, the server sends what
   it has and keepalives, and its timeout ends a stream nobody answers. *)
FairSpec ==
  /\ Spec
  /\ \A x \in Txns : WF_vars(EndTxn(x))
  /\ WF_vars(JoinCreated) /\ WF_vars(JoinHold) /\ WF_vars(JoinPublish)
  /\ WF_vars(JoinBarrier \/ JoinGivesUp) /\ WF_vars(JoinTake)
  /\ WF_vars(Restart) /\ WF_vars(RemoveEnds) /\ WF_vars(Closed)
  /\ WF_vars(LeaveDelete) /\ WF_vars(LeaveUnpublish) /\ WF_vars(LeaveLast)
  /\ WF_vars(Cycle) /\ WF_vars(RunLoop) /\ WF_vars(Subscribe)
  /\ WF_vars(ReaderEnds /\ run.gen # gen) /\ WF_vars(Read) /\ WF_vars(Heartbeat)
  /\ \A b \in Bridges : WF_vars(HandTo(b)) /\ WF_vars(Settle(b))

(* SlotReleased: once the members all run, the slot gets to the end of the WAL
   and the source may discard it: no member, however quiet its table, holds it
   for ever, and each of them has had what is its. *)
SlotReleased ==
  []<>(\/ HasRow = {} \/ HasRow # Running
       \/ slot = Len(wal) /\ \A b \in Running : pend[b] = <<>>)

(* QueueMoves: whatever operation has the slot's queue lets go of it. *)
QueueMoves == []<>(busy = Free)
=============================================================================
