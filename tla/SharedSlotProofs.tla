-------------------------- MODULE SharedSlotProofs --------------------------
(***************************************************************************)
(* Proofs about SharedSlot, for any bridges, tables, transactions and      *)
(* disturbances: type correctness, that what a member is handed comes in   *)
(* order and once, and in the second half that it misses nothing.          *)
(*                                                                         *)
(* The base invariant has five parts, each of which needs the others: the  *)
(* types, what the operation in the stream's queue may rely on between two *)
(* of its awaits, what is stored, the reader and its generation, what is   *)
(* in flight.  The first lemmas are about cursors, the next say what each  *)
(* of the larger actions leaves alone and where it leads (their names end  *)
(* in Effect), and then one lemma per part says that every step keeps it.  *)
(***************************************************************************)
EXTENDS SharedSlot, TLAPS, WellFoundedInduction

(* the source: open and committed transactions, the publication *)
SourceType ==
  /\ open \in [Txns -> Txn] /\ wal \in Seq(Txn) /\ waits \subseteq OpenTxns
  /\ pub \subseteq Tables /\ cut \subseteq Tables
  /\ touches \in 0 .. MaxTouch /\ left \in 0 .. Disturbances

(* what is stored, for a log of n transactions: slot, rows, the idle members, what a bridge began with *)
StoreType(n) ==
  /\ slot \in None .. n
  /\ rows \in [Bridges -> None .. n] /\ idle \in [Bridges -> None .. n]
  /\ base \in [Bridges -> [from : None .. n, copied : None .. n]]

(* the pipelines: the saved cursors, what was got, what was handed over and is not settled *)
PipeType(n) ==
  /\ saved \in [Bridges -> None .. EndCursor(n)]
  /\ got \in [Bridges -> SUBSET (1 .. n)]
  /\ pend \in [Bridges -> Seq(1 .. EndCursor(n))]

(* the stream's members and its generation *)
MemberType(n) ==
  /\ member \in [Bridges -> [on : BOOLEAN, since : Nat, highest : 0 .. EndCursor(n),
                             acked : 0 .. EndCursor(n), confirmed : 0 .. n]]
  /\ gen \in Nat /\ cycle \in BOOLEAN

(* the reader and the change it hands over *)
RunType(n) ==
  /\ run \in [at : {"off", "loop", "wait", "read"}, gen : Nat, pos : 0 .. EndCursor(n)]
  /\ handing \in [cursor : 0 .. EndCursor(n), gen : Nat, todo : SUBSET Bridges]

(* the operation that has the stream's queue *)
BusyType ==
  busy \in [at : {"free", "create", "hold", "publish", "barrier", "take", "adding", "removed",
                  "closing", "delete", "unpublish", "counted", "last"},
            bridge : Bridges \union {None}, leave : BOOLEAN]

(* the state's types, every position within the log there is *)
Types ==
  /\ SourceType /\ BusyType
  /\ StoreType(Len(wal)) /\ PipeType(Len(wal)) /\ MemberType(Len(wal)) /\ RunType(Len(wal))

(* the steps of a join up to where its member is added *)
Joining == {"create", "hold", "publish", "barrier", "take"}

(* what the operation in the queue may rely on at each of its steps: nobody else
   changes its bridge's row, base or membership between two of them *)
QueueInv ==
  /\ busy.at # "free" => busy.bridge \in Bridges
  /\ busy.at \in Joining => base[busy.bridge] = NoBase
  /\ busy.at \in Joining \union {"removed", "closing", "delete", "unpublish", "counted"} =>
       ~member[busy.bridge].on
  /\ busy.at \in {"create", "hold", "unpublish", "counted"} => rows[busy.bridge] = None
  /\ busy.at \in {"publish", "barrier", "take", "adding"} => rows[busy.bridge] # None
  /\ busy.at = "create" => slot = None
  /\ busy.at = "hold" => slot # None
  /\ busy.at = "last" => ~cycle /\ \A b \in Bridges : rows[b] = None

(* what is stored of a bridge is coherent: no slot is ahead of a new row, no
   idle position ahead of the row it stands for *)
StoreOf(b) ==
  /\ rows[b] = None => base[b] = NoBase
  /\ base[b] = NoBase => saved[b] = None /\ ~member[b].on
  /\ rows[b] # None => slot # None
  /\ rows[b] # None /\ base[b] = NoBase => slot <= rows[b]
  /\ rows[b] # None /\ idle[b] # None => idle[b] <= rows[b]
  /\ rows[b] # None /\ (cycle \/ run.at # "off") => idle[b] # None

(* ...of every bridge *)
StoreInv == \A b \in Bridges : StoreOf(b)

(* a reader has a slot; its generation, and that of what it hands over, is no
   later than the stream's *)
ReaderInv ==
  /\ cycle \/ run.at # "off" => slot # None
  /\ run.at \in {"wait", "read"} => run.gen <= gen
  /\ handing # NoWork => handing.gen <= gen
  /\ handing # NoWork /\ run.at = "read" => handing.gen = run.gen

(* what a bridge was handed and has not settled: in order, after what it has
   saved and acknowledged, no later than the highest it was handed *)
FlightOf(b) ==
  /\ pend[b] # <<>> => member[b].on
  /\ member[b].on => saved[b] <= member[b].highest /\ member[b].acked <= member[b].highest
  /\ \A i \in DOMAIN pend[b] :
       /\ pend[b][i] <= member[b].highest
       /\ pend[b][i] > member[b].acked /\ pend[b][i] > saved[b]
       /\ \A j \in DOMAIN pend[b] : j < i => pend[b][j] < pend[b][i]

(* ...of every bridge *)
FlightInv == \A b \in Bridges : FlightOf(b)

(* The inductive invariant below every other: types, queue, store, reader and
   what is in flight, each of which the others need. *)
BaseInv == Types /\ QueueInv /\ StoreInv /\ ReaderInv /\ FlightInv

-----------------------------------------------------------------------------
(* numbers: the least of a set, and cursors *)

(* A nonempty set of naturals has a least element, and Min is it. *)
LEMMA LeastNatural ==
  ASSUME NEW S, S \subseteq Nat, S # {}
  PROVE  Min(S) \in S /\ \A y \in S : Min(S) <= y
  <1>1. PICK x \in S : \A y \in S : ~(<<y, x>> \in OpToRel(<, Nat))
    <2>1. IsWellFoundedOn(OpToRel(<, Nat), Nat)
      BY NatLessThanWellFounded
    <2> QED
      BY <2>1, WFMin, Zenon
  <1>2. \A i, j \in Nat : i < j => <<i, j>> \in OpToRel(<, Nat)
    BY DEF OpToRel
  <1>3. \A y \in S : x <= y
    <2> SUFFICES ASSUME NEW y \in S PROVE x <= y
      OBVIOUS
    <2>1. x \in Nat /\ y \in Nat
      OBVIOUS
    <2>2. ~(y < x)
      BY <1>1, <1>2, <2>1, Zenon
    <2> QED
      BY <2>1, <2>2
  <1> QED
    BY <1>3 DEF Min

(* The larger of two integers. *)
LEMMA LargerOfTwo ==
  ASSUME NEW x \in Int, NEW y \in Int
  PROVE  Max({x, y}) = IF x >= y THEN x ELSE y
  BY DEF Max

(* Quotient and remainder of an integer. *)
LEMMA Division ==
  ASSUME NEW w \in Nat, w >= 1, NEW c \in Int
  PROVE  c \div w \in Int /\ c % w \in 0 .. w - 1 /\ c = (c \div w) * w + (c % w)
  OBVIOUS

(* ...and of a multiple plus a remainder. *)
LEMMA DivisionOf ==
  ASSUME NEW w \in Nat, w >= 1, NEW q \in Int, NEW r \in 0 .. w - 1
  PROVE  (q * w + r) \div w = q /\ (q * w + r) % w = r
  OBVIOUS

(* Multiples of a positive number keep the order. *)
LEMMA Multiples ==
  ASSUME NEW w \in Nat, w >= 1, NEW s \in Int, NEW t \in Int
  PROVE  /\ s * w \in Int /\ t * w \in Int
         /\ s <= t => s * w <= t * w
         /\ s < t => s * w + w <= t * w
  OBVIOUS

(* Cursors of one transaction: one for each table, and its end. *)
LEMMA WidthType == Width \in Nat /\ Width >= 1 /\ \A k \in Tables : k \in 1 .. Width - 1
  BY SharedSlotAssumption DEF Width, Tables

(* The cursors of a transaction lie between its predecessor's end and its own. *)
LEMMA CursorOrder ==
  ASSUME NEW t \in Int, NEW k \in Tables, NEW s \in Int
  PROVE  /\ ChangeCursor(t, k) \in Int /\ EndCursor(s) \in Int
         /\ s < t => EndCursor(s) < ChangeCursor(t, k)
         /\ s >= t => ChangeCursor(t, k) < EndCursor(s)
  <1>1. k \in 1 .. Width - 1 /\ Width \in Nat /\ Width >= 1
    BY WidthType
  <1>2. PICK w \in Nat : w = Width /\ w >= 1
    BY <1>1
  <1>3. /\ (t - 1) * w \in Int /\ s * w \in Int
        /\ s <= t - 1 => s * w <= (t - 1) * w
        /\ t - 1 < s => (t - 1) * w + w <= s * w
    BY <1>2, Multiples
  <1>4. k \in 1 .. w - 1
    BY <1>1, <1>2
  <1> QED
    BY <1>2, <1>3, <1>4 DEF ChangeCursor, EndCursor

(* The ends of transactions are in the order of the transactions. *)
LEMMA EndOrder ==
  ASSUME NEW s \in Int, NEW t \in Int
  PROVE  /\ EndCursor(s) \in Int
         /\ s <= t => EndCursor(s) <= EndCursor(t)
         /\ s >= 0 => EndCursor(s) >= s
         /\ s >= 0 => EndCursor(s) >= 0
  <1>1. PICK w \in Nat : w = Width /\ w >= 1
    BY WidthType
  <1>2. s * w \in Int /\ (s <= t => s * w <= t * w)
    BY <1>1, Multiples
  <1>3. s >= 0 => s * w >= s
    BY <1>1
  <1> QED
    BY <1>1, <1>2, <1>3 DEF EndCursor

(* What the number of a cursor says: its transaction, and whether it ends it. *)
LEMMA CursorOf ==
  ASSUME NEW t \in Int, NEW k \in Tables
  PROVE  ~IsEnd(ChangeCursor(t, k)) /\ TxnOf(ChangeCursor(t, k)) = t
  <1>1. PICK w \in Nat : w = Width /\ w >= 1
    BY WidthType
  <1>2. k \in 1 .. w - 1
    BY <1>1, WidthType
  <1>3. ((t - 1) * w + k) % w = k /\ ((t - 1) * w + (k - 1)) \div w = t - 1
    <2>1. t - 1 \in Int /\ k \in 0 .. w - 1 /\ k - 1 \in 0 .. w - 1
      BY <1>1, <1>2
    <2>2. ((t - 1) * w + k) % w = k
      BY <1>1, <2>1, DivisionOf
    <2>3. ((t - 1) * w + (k - 1)) \div w = t - 1
      BY <1>1, <2>1, DivisionOf, Zenon
    <2> QED
      BY <2>2, <2>3
  <1>4. (t - 1) * w \in Int
    BY <1>1
  <1>5. ((t - 1) * w + k) - 1 = (t - 1) * w + (k - 1)
    BY <1>2, <1>4
  <1>6. k # 0
    BY <1>2
  <1> QED
    BY <1>1, <1>3, <1>5, <1>6 DEF ChangeCursor, IsEnd, TxnOf

(* The ends at or before a cursor are those of earlier transactions. *)
LEMMA EndsBefore ==
  ASSUME NEW c \in Int, NEW t \in Int, NEW k \in Tables, c < ChangeCursor(t, k)
  PROVE  c \div Width \in Int /\ c \div Width + 1 <= t
  <1>1. PICK w \in Nat : w = Width /\ w >= 1
    BY WidthType
  <1>2. k \in 1 .. w - 1
    BY <1>1, WidthType
  <1>3. c \div w \in Int /\ c % w \in 0 .. w - 1 /\ c = (c \div w) * w + (c % w)
    BY <1>1, Division
  <1>4. PICK q \in Int, r \in 0 .. w - 1 : q = c \div w /\ c = q * w + r
    BY <1>3
  <1>5. c < (t - 1) * w + k
    BY <1>1 DEF ChangeCursor
  <1>6. t <= q => (t - 1) * w + w <= q * w
    <2>1. (t - 1) < q => (t - 1) * w + w <= q * w
      BY <1>1, <1>4, Multiples
    <2> QED
      BY <2>1, <1>4
  <1>7. (t - 1) * w \in Int /\ q * w \in Int
    BY <1>1, <1>4
  <1>8. q < t
    BY <1>1, <1>2, <1>4, <1>5, <1>6, <1>7
  <1> QED
    BY <1>1, <1>4, <1>8

(* A cursor of a log of n transactions belongs to one of them. *)
LEMMA CursorRange ==
  ASSUME NEW n \in Nat, NEW c \in 0 .. EndCursor(n)
  PROVE  c \div Width \in 0 .. n /\ (c >= 1 => TxnOf(c) \in 1 .. n)
  <1>1. PICK w \in Nat : w = Width /\ w >= 1
    BY WidthType
  <1>2. c \in Int /\ c >= 0 /\ c <= n * w
    BY <1>1, EndOrder DEF EndCursor
  <1>3. c \div w \in Int /\ c % w \in 0 .. w - 1 /\ c = (c \div w) * w + (c % w)
    BY <1>1, <1>2, Division
  <1>4. (c - 1) \div w \in Int /\ (c - 1) % w \in 0 .. w - 1 /\ c - 1 = ((c - 1) \div w) * w + ((c - 1) % w)
    BY <1>1, <1>2, Division
  <1>5. ASSUME NEW q \in Int, NEW r \in 0 .. w - 1, q * w + r >= 0, q * w + r <= n * w
        PROVE  q >= 0 /\ q <= n /\ (q * w + r < n * w => q < n)
    <2>1. q < 0 => q * w + w <= 0
      BY <1>1, Multiples
    <2>2. n < q => n * w + w <= q * w
      BY <1>1, Multiples
    <2>3. n <= q => n * w <= q * w
      BY <1>1, Multiples
    <2>4. q * w \in Int /\ n * w \in Int
      BY <1>1
    <2> QED
      BY <1>1, <1>5, <2>1, <2>2, <2>3, <2>4
  <1>6. c \div w \in 0 .. n
    BY <1>2, <1>3, <1>5
  <1>7. c >= 1 => (c - 1) \div w >= 0 /\ (c - 1) \div w < n
    BY <1>1, <1>2, <1>4, <1>5
  <1> QED
    BY <1>1, <1>4, <1>6, <1>7 DEF TxnOf

(* What the assumption says of each constant. *)
LEMMA Bounds ==
  /\ MaxWal \in Nat /\ MaxTouch \in Nat /\ Disturbances \in Nat
  /\ \A b \in Bridges : Table[b] \in Tables
  /\ Founders \subseteq Bridges
  BY SharedSlotAssumption

(* A join that fails leaves its row or takes it back, and its table published or
   not; what it may have torn is cut. *)
LEMMA GivesUpEffect ==
  ASSUME JoinGivesUp
  PROVE  /\ busy.at \in {"publish", "barrier", "take"} /\ busy' = Free /\ waits' = {}
         /\ UNCHANGED <<open, wal, slot, saved, got, pend, base, member, gen, cycle, run, handing, touches>>
         /\ left' = left \/ Disturb
         /\ rows' = rows \/ rows' = [rows EXCEPT ![busy.bridge] = None]
         /\ idle' = rows'
         /\ pub' = pub \/ pub' = Unpublished(busy.bridge, HasRow)
         /\ LET torn == cut \union Torn(busy.bridge)
                Left(k) == k \in pub' \/ \E o \in Bridges : rows'[o] # None /\ Table[o] = k
            IN \/ /\ rows' = [rows EXCEPT ![busy.bridge] = None] /\ pub' = Unpublished(busy.bridge, HasRow)
                  /\ cut' = {k \in cut : Left(k)}
               \/ cut' = {k \in torn : Left(k)}
  BY DEF JoinGivesUp, StillCut, RefreshIdle, sourceVars, pipeVars, readVars

-----------------------------------------------------------------------------
(* types *)

(* Every step keeps the types of the source. *)
LEMMA SourceKept ==
  ASSUME SourceType, BusyType, QueueInv, [Next]_vars
  PROVE  SourceType'
  <1>1. CASE \/ UNCHANGED vars
             \/ \E b \in Bridges : Open(b) \/ LeaveAgain(b) \/ HandTo(b) \/ Settle(b)
             \/ JoinCreated \/ JoinHold \/ JoinBarrier \/ JoinTake \/ Restart \/ RemoveEnds
                 \/ Closed \/ LeaveDelete \/ Cycle \/ RunLoop \/ Subscribe \/ Read \/ Heartbeat
    <2>1. UNCHANGED <<open, wal, waits, pub, cut, touches, left>>
      BY <1>1 DEF vars, sourceVars, serverVars, pipeVars, streamVars, readVars, queueVars, Open,
             LeaveAgain, JoinCreated, JoinHold, JoinBarrier, JoinTake, Restart, RemoveEnds,
             Closed, LeaveDelete, Cycle, RunLoop, Subscribe, Read, Heartbeat, HandTo, Settle
    <2> QED
      BY <2>1 DEF SourceType, OpenTxns
  <1>2. ASSUME NEW x \in Txns, EndTxn(x) PROVE SourceType'
    <2>1. open[x] \in Txn /\ NoTxn \in Txn
      BY DEF SourceType, Txn, NoTxn
    <2>2. wal' \in Seq(Txn)
      BY <1>2, <2>1 DEF EndTxn, SourceType
    <2>3. open' \in [Txns -> Txn] /\ waits' \subseteq OpenTxns'
      BY <1>2, <2>1 DEF EndTxn, SourceType, OpenTxns
    <2> QED
      BY <1>2, <2>2, <2>3 DEF EndTxn, SourceType, serverVars
  <1>3. ASSUME NEW x \in Txns, NEW k \in Tables, Touch(x, k) PROVE SourceType'
    <2>1. open[x] \in Txn /\ NoTxn \in Txn
      BY DEF SourceType, Txn, NoTxn
    <2>2. open' \in [Txns -> Txn] /\ \A y \in Txns : y # x => open'[y] = open[y]
      BY <1>3, <2>1 DEF Touch, SourceType, Txn
    <2>3. k \in open'[x].seen \/ k \in open'[x].hidden
      BY <1>3, <2>1 DEF Touch, SourceType, Txn
    <2>4. waits' \subseteq OpenTxns'
      BY <1>3, <2>2, <2>3, ZenonT(60) DEF Touch, SourceType, OpenTxns, queueVars, NoTxn
    <2> QED
      BY <1>3, <2>2, <2>4, Bounds DEF Touch, SourceType, serverVars
  <1>4. ASSUME NEW b \in Bridges, Join(b) PROVE SourceType'
    BY <1>4 DEF Join, sourceVars, serverVars, pipeVars, streamVars, readVars, SourceType,
           OpenTxns
  <1>5. ASSUME NEW b \in Bridges, Rejoin(b) PROVE SourceType'
    BY <1>5, Bounds DEF Rejoin, sourceVars, pipeVars, streamVars, readVars, queueVars,
           SourceType, OpenTxns
  <1>6. ASSUME NEW b \in Bridges, Stop(b) PROVE SourceType'
    BY <1>6, Bounds DEF Stop, Removed, sourceVars, serverVars, readVars, SourceType, OpenTxns,
           Disturb
  <1>7. ASSUME NEW b \in Bridges, Leave(b) PROVE SourceType'
    BY <1>7, Bounds DEF Leave, Removed, sourceVars, serverVars, readVars, SourceType, OpenTxns,
           Disturb
  <1>8. CASE JoinPublish
    BY <1>8, Bounds DEF JoinPublish, sourceVars, pipeVars, streamVars, readVars, SourceType,
           OpenTxns, QueueInv, At
  <1>9. CASE JoinGivesUp
    <2>1. /\ UNCHANGED <<open, wal, touches>> /\ waits' = {}
          /\ pub' = pub \/ pub' = Unpublished(busy.bridge, HasRow)
          /\ left' = left \/ Disturb
          /\ cut' \subseteq cut \union Torn(busy.bridge)
      BY <1>9, GivesUpEffect
    <2>2. Table[busy.bridge] \in Tables
      BY <1>9, GivesUpEffect, Bounds DEF QueueInv
    <2>3. pub' \subseteq Tables /\ cut' \subseteq Tables
      BY <2>1, <2>2 DEF SourceType, Unpublished, Torn
    <2> QED
      BY <2>1, <2>3, Bounds DEF SourceType, OpenTxns, Disturb
  <1>10. CASE LeaveUnpublish
    BY <1>10 DEF LeaveUnpublish, sourceVars, pipeVars, SourceType, OpenTxns, StillCut,
           Unpublished
  <1>11. CASE LeaveLast
    BY <1>11 DEF LeaveLast, sourceVars, pipeVars, SourceType, OpenTxns
  <1>12. CASE ReaderEnds
    BY <1>12, Bounds DEF ReaderEnds, sourceVars, serverVars, pipeVars, streamVars, queueVars,
           SourceType, OpenTxns, Disturb
  <1>13. ASSUME NEW b \in Bridges, HandThrows(b) PROVE SourceType'
    BY <1>13, Bounds DEF HandThrows, Removed, sourceVars, serverVars, queueVars, SourceType,
           OpenTxns, Disturb
  <1>14. CASE Crash
    BY <1>14, Bounds DEF Crash, sourceVars, serverVars, SourceType, OpenTxns, Disturb, QueueInv
  <1> QED
    BY <1>1, <1>2, <1>3, <1>4, <1>5, <1>6, <1>7, <1>8, <1>9, <1>10, <1>11, <1>12, <1>13, <1>14
      DEF Next

(* The WAL only grows, by one transaction at a time. *)
LEMMA WalGrows ==
  ASSUME SourceType, NEW x \in Txns, EndTxn(x)
  PROVE  /\ Len(wal) \in Nat /\ Len(wal') \in Nat /\ Len(wal) <= Len(wal')
         /\ Len(wal') <= Len(wal) + 1
         /\ \A t \in 1 .. Len(wal) : wal'[t] = wal[t]
         /\ Len(wal') # Len(wal) => Len(wal') = Len(wal) + 1 /\ wal'[Len(wal')] = open[x]
  BY DEF SourceType, EndTxn

(* The log has a length. *)
LEMMA WalLength ==
  ASSUME SourceType
  PROVE  Len(wal) \in Nat
  BY DEF SourceType

(* floor is at most the position of each member, and of each idle bridge. *)
LEMMA FloorIsLeast ==
  ASSUME NEW n \in Nat, NEW mem, NEW idl \in [Bridges -> None .. n],
         \A b \in Bridges : mem[b].on => mem[b].confirmed \in 0 .. n
  PROVE  /\ FloorOf(mem, idl) \in None .. n
         /\ \A b \in Bridges : mem[b].on => FloorOf(mem, idl) <= mem[b].confirmed
         /\ \A b \in Bridges : ~mem[b].on /\ idl[b] # None => FloorOf(mem, idl) <= idl[b]
  <1> DEFINE here == {b \in Bridges : mem[b].on}
             there == {b \in Bridges \ here : idl[b] # None}
             all == {mem[b].confirmed : b \in here} \union {idl[b] : b \in there}
  <1>1. all \subseteq 0 .. n
    BY DEF None
  <1>2. FloorOf(mem, idl) = IF all = {} THEN None ELSE Min(all)
    BY DEF FloorOf
  <1>3. \A b \in Bridges : mem[b].on => mem[b].confirmed \in all
    OBVIOUS
  <1>4. \A b \in Bridges : ~mem[b].on /\ idl[b] # None => idl[b] \in all
    OBVIOUS
  <1> HIDE DEF all
  <1>5. CASE all = {}
    BY <1>2, <1>3, <1>4, <1>5 DEF None
  <1>6. CASE all # {}
    <2>1. all \subseteq Nat
      BY <1>1
    <2>2. Min(all) \in all /\ \A y \in all : Min(all) <= y
      BY <1>6, <2>1, LeastNatural, Zenon
    <2>3. FloorOf(mem, idl) = Min(all)
      BY <1>2, <1>6, Zenon
    <2>4. PICK f : f = FloorOf(mem, idl)
      OBVIOUS
    <2>5. f \in all /\ \A y \in all : f <= y
      BY <2>2, <2>3, <2>4, Zenon
    <2>6. f \in None .. n
      BY <1>1, <2>5 DEF None
    <2>7. /\ \A b \in Bridges : mem[b].on => f <= mem[b].confirmed
          /\ \A b \in Bridges : ~mem[b].on /\ idl[b] # None => f <= idl[b]
      BY <1>3, <1>4, <2>5, Zenon
    <2> QED
      BY <2>4, <2>6, <2>7, Zenon
  <1> QED
    BY <1>5, <1>6

(* confirm never moves the slot back, nor beyond the floor. *)
LEMMA ConfirmMoves ==
  ASSUME NEW n \in Nat, NEW mem, idle \in [Bridges -> None .. n], slot \in None .. n,
         \A b \in Bridges : mem[b].on => mem[b].confirmed \in 0 .. n,
         Confirm(mem)
  PROVE  /\ slot' \in None .. n /\ slot <= slot'
         /\ \/ slot' = slot
            \/ /\ run.at = "read"
               /\ \A b \in Bridges : mem[b].on => slot' <= mem[b].confirmed
               /\ \A b \in Bridges : ~mem[b].on /\ idle[b] # None => slot' <= idle[b]
  <1>1. /\ FloorOf(mem, idle) \in None .. n
        /\ \A b \in Bridges : mem[b].on => FloorOf(mem, idle) <= mem[b].confirmed
        /\ \A b \in Bridges : ~mem[b].on /\ idle[b] # None => FloorOf(mem, idle) <= idle[b]
    BY FloorIsLeast
  <1>2. PICK f : f = FloorOf(mem, idle)
    OBVIOUS
  <1>3. slot \in Int /\ f \in Int /\ f \in None .. n
    BY <1>1, <1>2 DEF None
  <1>4. Max({slot, f}) = IF slot >= f THEN slot ELSE f
    BY <1>3, LargerOfTwo
  <1>5. slot' = IF run.at = "read" THEN IF slot >= f THEN slot ELSE f ELSE slot
    BY <1>2, <1>4 DEF Confirm
  <1>6. /\ \A b \in Bridges : mem[b].on => f <= mem[b].confirmed
        /\ \A b \in Bridges : ~mem[b].on /\ idle[b] # None => f <= idle[b]
    BY <1>1, <1>2, Zenon
  <1> QED
    BY <1>3, <1>5, <1>6 DEF None

(* The first of a sequence. *)
LEMMA HeadOf ==
  ASSUME NEW S, NEW p \in Seq(S), p # <<>>
  PROVE  Head(p) \in S /\ Head(p) = p[1] /\ 1 \in DOMAIN p
  OBVIOUS

(* What Settle makes of the member, and of the cursor its pipeline keeps. *)
LEMMA SettleEffect ==
  ASSUME NEW n \in Nat, n = Len(wal), StoreType(n), PipeType(n), MemberType(n), NEW b \in Bridges, Settle(b)
  PROVE  LET c == Head(pend[b]) IN
         /\ c \in 1 .. EndCursor(n) /\ c = pend[b][1] /\ 1 \in DOMAIN pend[b]
         /\ saved' = [saved EXCEPT ![b] = c]
         /\ got' = [got EXCEPT ![b] = IF IsEnd(c) THEN @ ELSE @ \union {TxnOf(c)}]
         /\ member'[b].on = member[b].on /\ member'[b].since = member[b].since
         /\ member'[b].highest = member[b].highest
         /\ member'[b].acked = IF member[b].acked >= c THEN member[b].acked ELSE c
         /\ \/ member'[b].confirmed = member[b].confirmed
            \/ IsEnd(c) /\ member'[b].confirmed = c \div Width
         /\ \A o \in Bridges : o # b => member'[o] = member[o]
         /\ MemberType(n)'
  <1>1. PICK c : c = Head(pend[b])
    OBVIOUS
  <1>2. c \in 1 .. EndCursor(n) /\ c = pend[b][1] /\ 1 \in DOMAIN pend[b]
    <2>1. PICK p : p = pend[b] /\ p \in Seq(1 .. EndCursor(n)) /\ p # <<>>
      BY DEF Settle, PipeType
    <2>2. Head(p) \in 1 .. EndCursor(n) /\ Head(p) = p[1] /\ 1 \in DOMAIN p
      BY <2>1, HeadOf, Zenon
    <2> QED
      BY <1>1, <2>1, <2>2, Zenon
  <1>3. c \in Int /\ c >= 1 /\ EndCursor(n) \in Int
    BY <1>2, EndOrder
  <1>4. AckOf(c) \in None .. n /\ (AckOf(c) # None => IsEnd(c) /\ AckOf(c) = c \div Width)
    <2>1. c \div Width \in 0 .. n
      BY <1>2, <1>3, CursorRange
    <2> QED
      BY <2>1 DEF AckOf, None
  <1>5. PICK m : m = member[b] /\ m \in [on : BOOLEAN, since : Nat, highest : 0 .. EndCursor(n),
                                         acked : 0 .. EndCursor(n), confirmed : 0 .. n]
    BY DEF MemberType
  <1>6. PICK a : a = Max({m.acked, c})
    OBVIOUS
  <1>7. PICK d : d = Max({m.confirmed, AckOf(c)})
    OBVIOUS
  <1>8. a = IF m.acked >= c THEN m.acked ELSE c
    BY <1>3, <1>5, <1>6, LargerOfTwo
  <1>9. d \in 0 .. n /\ (d = m.confirmed \/ (IsEnd(c) /\ d = c \div Width))
    <2>1. m.confirmed \in Int /\ AckOf(c) \in Int
      BY <1>4, <1>5 DEF None
    <2>2. d = IF m.confirmed >= AckOf(c) THEN m.confirmed ELSE AckOf(c)
      BY <1>7, <2>1, LargerOfTwo
    <2> QED
      BY <1>4, <1>5, <2>1, <2>2 DEF None
  <1>10. member' = [member EXCEPT ![b].acked = a, ![b].confirmed = d]
    <2>1. member' = [member EXCEPT ![b].acked = Max({@, c}), ![b].confirmed = Max({@, AckOf(c)})]
      BY <1>1 DEF Settle
    <2> QED
      BY <1>5, <1>6, <1>7, <2>1
  <1>11. a \in 0 .. EndCursor(n)
    BY <1>2, <1>3, <1>5, <1>8
  <1>12. saved' = [saved EXCEPT ![b] = c] /\ got' = [got EXCEPT ![b] = IF IsEnd(c) THEN @ ELSE @ \union {TxnOf(c)}]
    BY <1>1, Zenon DEF Settle
  <1>13. MemberType(n)'
    <2>1. gen' = gen /\ cycle' = cycle
      BY DEF Settle
    <2> QED
      BY <1>5, <1>9, <1>10, <1>11, <2>1 DEF MemberType
  <1>14. /\ member'[b].on = m.on /\ member'[b].since = m.since /\ member'[b].highest = m.highest
         /\ member'[b].acked = a /\ member'[b].confirmed = d
         /\ \A o \in Bridges : o # b => member'[o] = member[o]
    BY <1>5, <1>10 DEF MemberType
  <1> QED
    BY <1>1, <1>2, <1>5, <1>8, <1>9, <1>12, <1>13, <1>14

(* What a keepalive makes of the members. *)
LEMMA HeartbeatEffect ==
  ASSUME NEW n \in Nat, n = Len(wal), MemberType(n), RunType(n), Heartbeat
  PROVE  LET at == run.pos \div Width IN
         /\ at \in 0 .. n /\ IsEnd(run.pos)
         /\ \A b \in Bridges :
              /\ member'[b].on = member[b].on /\ member'[b].since = member[b].since
              /\ member'[b].highest = member[b].highest /\ member'[b].acked = member[b].acked
              /\ \/ member'[b].confirmed = member[b].confirmed
                 \/ Quiet(b) /\ member[b].confirmed < at /\ member'[b].confirmed = at
         /\ MemberType(n)'
  <1>1. PICK at : at = run.pos \div Width
    OBVIOUS
  <1>2. at \in 0 .. n
    BY <1>1, CursorRange DEF RunType
  <1>3. PICK moved : moved = {b \in Bridges : Quiet(b) /\ member[b].confirmed < at}
    OBVIOUS
  <1>4. member' = [b \in Bridges |-> IF b \in moved THEN [member[b] EXCEPT !.confirmed = at]
                                                    ELSE member[b]]
    BY <1>1, <1>3, Zenon DEF Heartbeat
  <1>5. MemberType(n)'
    <2>1. gen' = gen /\ cycle' = cycle
      BY DEF Heartbeat
    <2>2. \A b \in Bridges : [member[b] EXCEPT !.confirmed = at] \in
            [on : BOOLEAN, since : Nat, highest : 0 .. EndCursor(n),
             acked : 0 .. EndCursor(n), confirmed : 0 .. n]
      BY <1>2 DEF MemberType
    <2> QED
      BY <1>4, <2>1, <2>2 DEF MemberType
  <1>6. ASSUME NEW b \in Bridges
        PROVE  /\ member'[b].on = member[b].on /\ member'[b].since = member[b].since
               /\ member'[b].highest = member[b].highest /\ member'[b].acked = member[b].acked
               /\ \/ member'[b].confirmed = member[b].confirmed
                  \/ b \in moved /\ member'[b].confirmed = at
    BY <1>4 DEF MemberType
  <1>7. IsEnd(run.pos)
    BY DEF Heartbeat
  <1> QED
    BY <1>1, <1>2, <1>3, <1>5, <1>6, <1>7

(* The slot moves no further than a member or an idle bridge has got. *)
LEMMA SlotMoves ==
  ASSUME NEW n \in Nat, n = Len(wal), StoreType(n), PipeType(n), MemberType(n), RunType(n),
         \/ Heartbeat
         \/ \E b \in Bridges : Settle(b)
  PROVE  /\ slot' \in None .. n /\ slot <= slot'
         /\ \/ slot' = slot
            \/ /\ run.at = "read"
               /\ \A b \in Bridges : member'[b].on => slot' <= member'[b].confirmed
               /\ \A b \in Bridges : ~member'[b].on /\ idle[b] # None => slot' <= idle[b]
  <1>1. MemberType(n)'
    <2>1. CASE Heartbeat
      BY <2>1, HeartbeatEffect
    <2>2. ASSUME NEW b \in Bridges, Settle(b) PROVE MemberType(n)'
      BY <2>2, SettleEffect, Zenon
    <2> QED
      BY <2>1, <2>2
  <1>2. PICK mem : mem = member'
    OBVIOUS
  <1>3. \A b \in Bridges : mem[b].confirmed \in 0 .. n
    BY <1>1, <1>2 DEF MemberType
  <1>4. idle \in [Bridges -> None .. n] /\ slot \in None .. n
    BY DEF StoreType
  <1>5. slot' = slot \/ Confirm(mem)
    BY <1>2 DEF Heartbeat, Settle
  <1>6. CASE slot' = slot
    BY <1>4, <1>6 DEF None
  <1>7. CASE Confirm(mem)
    BY <1>2, <1>3, <1>4, <1>7, ConfirmMoves, Zenon
  <1> QED
    BY <1>5, <1>6, <1>7

(* remove: the member is gone with what it had in flight, and its row is at
   most where it had got. *)
LEMMA RemovedEffect ==
  ASSUME NEW n \in Nat, StoreType(n), PipeType(n), MemberType(n), StoreInv, NEW b \in Bridges, Removed(b)
  PROVE  /\ rows' \in [Bridges -> None .. n] /\ rows[b] <= rows'[b]
         /\ rows'[b] = None <=> rows[b] = None
         /\ IF member[b].on THEN rows'[b] <= member[b].confirmed ELSE rows'[b] = rows[b]
         /\ ~member'[b].on /\ member'[b] = NoMember /\ pend'[b] = <<>>
         /\ \A o \in Bridges : o # b =>
              rows'[o] = rows[o] /\ member'[o] = member[o] /\ pend'[o] = pend[o]
         /\ pend' = [pend EXCEPT ![b] = <<>>] /\ member' = [member EXCEPT ![b] = NoMember]
  <1>1. PICK lsn : lsn \in Persisted(b) /\ rows' = [rows EXCEPT ![b] = lsn]
    BY DEF Removed
  <1>2. rows[b] \in None .. n /\ rows \in [Bridges -> None .. n]
    BY DEF StoreType
  <1>3. member[b].confirmed \in 0 .. n /\ (member[b].on => rows[b] # None)
    BY DEF MemberType, StoreInv, StoreOf
  <1>4. /\ lsn \in None .. n /\ rows[b] <= lsn /\ (lsn = None <=> rows[b] = None)
        /\ IF member[b].on THEN lsn <= member[b].confirmed ELSE lsn = rows[b]
    BY <1>1, <1>2, <1>3 DEF Persisted, None
  <1>5. rows' \in [Bridges -> None .. n] /\ rows'[b] = lsn /\ \A o \in Bridges : o # b => rows'[o] = rows[o]
    BY <1>1, <1>2, <1>4
  <1>6. /\ member'[b] = NoMember /\ pend'[b] = <<>>
        /\ \A o \in Bridges : o # b => member'[o] = member[o] /\ pend'[o] = pend[o]
    BY DEF Removed, MemberType, PipeType
  <1>7. ~NoMember.on
    BY DEF NoMember
  <1>8. pend' = [pend EXCEPT ![b] = <<>>] /\ member' = [member EXCEPT ![b] = NoMember]
    BY DEF Removed
  <1> QED
    BY <1>4, <1>5, <1>6, <1>7, <1>8

(* Where the queue goes on after a remove, and whether the stream is closed. *)
LEMMA RemoveEndsEffect ==
  ASSUME RemoveEnds
  PROVE  /\ busy.at = "removed" /\ idle' = rows
         /\ UNCHANGED <<open, wal, pub, slot, rows, saved, got, pend, base, member, handing, waits, cut>>
         /\ \/ /\ Running = {} /\ gen' = gen + 1 /\ cycle' = FALSE
               /\ run' = (IF run.at = "read" THEN Looping ELSE run)
               /\ busy' = [busy EXCEPT !.at = "closing"]
            \/ /\ UNCHANGED <<gen, cycle, run>>
               /\ busy' = Free \/ busy' = [busy EXCEPT !.at = "delete"]
  <1>1. CASE Running = {}
    BY <1>1 DEF RemoveEnds, At, Close, Step, sourceVars, serverVars, pipeVars
  <1>2. CASE Running # {}
    <2>1. AfterRemove /\ UNCHANGED <<gen, cycle, run>>
      BY <1>2, Zenon DEF RemoveEnds
    <2>2. busy' = Free \/ busy' = [busy EXCEPT !.at = "delete"]
      BY <2>1, Zenon DEF AfterRemove, Step
    <2>3. /\ busy.at = "removed" /\ idle' = rows
          /\ UNCHANGED <<open, wal, pub, slot, rows, saved, got, pend, base, member, handing, waits, cut>>
      BY DEF RemoveEnds, At, sourceVars, serverVars, pipeVars
    <2> QED
      BY <2>1, <2>2, <2>3
  <1> QED
    BY <1>1, <1>2

(* What Closed leaves alone, and where it leads. *)
LEMMA ClosedEffect ==
  ASSUME Closed
  PROVE  /\ busy.at = "closing" /\ run.at = "off" /\ gen' = 0 /\ handing' = NoWork
         /\ busy' = Free \/ busy' = [busy EXCEPT !.at = "delete"]
         /\ UNCHANGED <<open, wal, pub, slot, rows, saved, got, pend, base, member, idle, cycle, run, waits, cut>>
  <1>1. busy' = Free \/ busy' = [busy EXCEPT !.at = "delete"]
    BY Zenon DEF Closed, AfterRemove, Step
  <1> QED
    BY <1>1 DEF Closed, At, sourceVars, serverVars, pipeVars

(* What LeaveUnpublish leaves alone, and its two outcomes. *)
LEMMA LeaveUnpublishEffect ==
  ASSUME LeaveUnpublish
  PROVE  /\ busy.at \in {"unpublish", "counted"}
         /\ pub' = (IF busy.at = "unpublish" THEN Unpublished(busy.bridge, HasRow) ELSE pub)
         /\ StillCut
         /\ UNCHANGED <<open, wal, slot, rows, saved, got, pend, base, member, idle, handing, waits>>
         /\ \/ /\ HasRow # {} /\ busy' = Free /\ UNCHANGED <<gen, cycle, run>>
            \/ /\ HasRow = {} /\ gen' = gen + 1 /\ cycle' = FALSE
               /\ run' = (IF run.at = "read" THEN Looping ELSE run)
               /\ busy' = [busy EXCEPT !.at = "last"]
  <1>1. /\ busy.at \in {"unpublish", "counted"} /\ StillCut
        /\ UNCHANGED <<open, wal, slot, rows, saved, got, pend, base, member, idle, handing, waits>>
    BY DEF LeaveUnpublish, sourceVars, pipeVars
  <1>2. pub' = IF busy.at = "unpublish" THEN Unpublished(busy.bridge, HasRow) ELSE pub
    BY DEF LeaveUnpublish, At
  <1>3. CASE HasRow # {}
    <2>1. busy' = Free /\ UNCHANGED <<gen, cycle, run>>
      BY <1>3, Zenon DEF LeaveUnpublish
    <2> QED
      BY <1>1, <1>2, <1>3, <2>1
  <1>4. CASE HasRow = {}
    <2>1. Close /\ Step("last")
      BY <1>4, Zenon DEF LeaveUnpublish
    <2> QED
      BY <1>1, <1>2, <1>4, <2>1 DEF Close, Step
  <1> QED
    BY <1>3, <1>4

(* Ranges only get wider as the WAL grows. *)
LEMMA RowsWiden ==
  ASSUME NEW S, NEW T, S \subseteq T, NEW f \in [Bridges -> S]
  PROVE  f \in [Bridges -> T]
  OBVIOUS

(* Bases within a shorter log are bases within a longer one. *)
LEMMA BaseWidens ==
  ASSUME NEW S, NEW T, S \subseteq T, NEW f \in [Bridges -> [from : S, copied : S]]
  PROVE  f \in [Bridges -> [from : T, copied : T]]
  OBVIOUS

(* positions: the slot, the rows, what the stream knows of the idle bridges *)
LEMMA StoreTypeKept ==
  ASSUME Types, QueueInv, StoreInv, [Next]_vars
  PROVE  StoreType(Len(wal))'
  <1>0. PICK n \in Nat : n = Len(wal)
    BY WalLength DEF Types
  <1>1. CASE \/ UNCHANGED vars
             \/ \E x \in Txns, k \in Tables : Touch(x, k)
             \/ \E b \in Bridges : Join(b) \/ Rejoin(b) \/ LeaveAgain(b) \/ HandTo(b)
             \/ JoinPublish \/ JoinBarrier \/ Closed \/ LeaveUnpublish \/ Cycle \/ RunLoop
                 \/ Subscribe \/ ReaderEnds \/ Read
    <2>1. UNCHANGED <<wal, slot, rows, idle, base>>
      BY <1>1 DEF vars, sourceVars, serverVars, pipeVars, streamVars, readVars, queueVars,
             Touch, Join, Rejoin, LeaveAgain, JoinPublish, JoinBarrier, Closed, LeaveUnpublish,
             Cycle, RunLoop, Subscribe, ReaderEnds, Read, HandTo
    <2> QED
      BY <2>1 DEF Types, StoreType
  <1>2. ASSUME NEW x \in Txns, EndTxn(x) PROVE StoreType(Len(wal))'
    <2>1. Len(wal) \in Nat /\ Len(wal') \in Nat /\ Len(wal) <= Len(wal')
      BY <1>2, WalGrows DEF Types
    <2>2. UNCHANGED <<slot, rows, idle, base>>
      BY <1>2 DEF EndTxn, serverVars, pipeVars, streamVars
    <2>3. None .. Len(wal) \subseteq None .. Len(wal')
      BY <2>1 DEF None
    <2> QED
      BY <2>2, <2>3, BaseWidens, RowsWiden DEF Types, StoreType
  <1>3. ASSUME NEW b \in Bridges, Open(b) PROVE StoreType(Len(wal))'
    BY <1>3, <1>0 DEF Open, sourceVars, serverVars, readVars, Types, StoreType, NoBase, None
  <1>4. ASSUME NEW b \in Bridges, Stop(b) PROVE StoreType(Len(wal))'
    <2>1. rows' \in [Bridges -> None .. n]
      BY <1>0, <1>4, RemovedEffect DEF Stop, Types
    <2> QED
      BY <1>0, <1>4, <2>1 DEF Stop, Types, StoreType, sourceVars, serverVars
  <1>5. ASSUME NEW b \in Bridges, Leave(b) PROVE StoreType(Len(wal))'
    <2>1. rows' \in [Bridges -> None .. n]
      BY <1>0, <1>5, RemovedEffect DEF Leave, Types
    <2> QED
      BY <1>0, <1>5, <2>1 DEF Leave, Types, StoreType, sourceVars, serverVars
  <1>6. CASE JoinCreated
    BY <1>6, <1>0 DEF JoinCreated, sourceVars, pipeVars, streamVars, readVars, Types, StoreType,
           None
  <1>7. CASE JoinHold
    BY <1>7, <1>0 DEF JoinHold, sourceVars, serverVars, pipeVars, readVars, Types, StoreType,
           RefreshIdle
  <1>8. CASE JoinGivesUp
    <2>1. None \in None .. n /\ n \in None .. n
      BY DEF None
    <2>2. rows \in [Bridges -> None .. n] /\ rows' \in [Bridges -> None .. n]
      BY <1>0, <1>8, <2>1, GivesUpEffect DEF Types, StoreType
    <2> QED
      BY <1>0, <1>8, <2>1, <2>2, GivesUpEffect DEF Types, StoreType
  <1>9. CASE JoinTake
    <2>1. None \in None .. n /\ n \in None .. n
      BY DEF None
    <2>2. rows \in [Bridges -> None .. n] /\ rows' \in [Bridges -> None .. n]
      BY <1>0, <1>9, <2>1 DEF JoinTake, Types, StoreType
    <2> QED
      BY <1>0, <1>9, <2>1, <2>2 DEF JoinTake, Types, StoreType, RefreshIdle, sourceVars, serverVars, pipeVars
  <1>10. CASE Restart
    BY <1>10, <1>0 DEF Restart, sourceVars, serverVars, pipeVars, readVars, Types, StoreType
  <1>11. CASE RemoveEnds
    BY <1>11, <1>0 DEF RemoveEnds, sourceVars, serverVars, pipeVars, Types, StoreType
  <1>12. CASE LeaveDelete
    <2>1. None \in None .. n /\ n \in None .. n
      BY DEF None
    <2>2. rows \in [Bridges -> None .. n] /\ rows' \in [Bridges -> None .. n]
      BY <1>0, <1>12, <2>1 DEF LeaveDelete, Types, StoreType
    <2> QED
      BY <1>0, <1>12, <2>1, <2>2 DEF LeaveDelete, Types, StoreType, RefreshIdle, sourceVars, serverVars, NoBase
  <1>13. CASE LeaveLast
    BY <1>13, <1>0 DEF LeaveLast, sourceVars, pipeVars, Types, StoreType, None
  <1>14. CASE Heartbeat
    <2>1. slot' \in None .. n
      BY <1>0, <1>14, SlotMoves DEF Types
    <2> QED
      BY <1>0, <1>14, <2>1 DEF Heartbeat, Types, StoreType, sourceVars, pipeVars
  <1>15. ASSUME NEW b \in Bridges, HandThrows(b) PROVE StoreType(Len(wal))'
    <2>1. rows' \in [Bridges -> None .. n]
      BY <1>0, <1>15, RemovedEffect DEF HandThrows, Types
    <2> QED
      BY <1>0, <1>15, <2>1 DEF HandThrows, Types, StoreType, sourceVars, serverVars, RefreshIdle
  <1>16. ASSUME NEW b \in Bridges, Settle(b) PROVE StoreType(Len(wal))'
    <2>1. slot' \in None .. n
      BY <1>0, <1>16, SlotMoves DEF Types
    <2> QED
      BY <1>0, <1>16, <2>1 DEF Settle, Types, StoreType, sourceVars
  <1>17. CASE Crash
    BY <1>17, <1>0 DEF Crash, sourceVars, serverVars, Types, StoreType
  <1> QED
    BY <1>1, <1>2, <1>3, <1>4, <1>5, <1>6, <1>7, <1>8, <1>9, <1>10, <1>11, <1>12, <1>13, <1>14,
       <1>15, <1>16, <1>17 DEF Next

(* One more in flight, or one less. *)
LEMMA AppendsOne ==
  ASSUME NEW S, NEW f \in [Bridges -> Seq(S)], NEW b \in Bridges, NEW c \in S
  PROVE  [f EXCEPT ![b] = Append(@, c)] \in [Bridges -> Seq(S)]
  OBVIOUS

(* One bridge's first change in flight is taken away. *)
LEMMA TailTakesOne ==
  ASSUME NEW S, NEW f \in [Bridges -> Seq(S)], NEW b \in Bridges, f[b] # <<>>
  PROVE  [f EXCEPT ![b] = Tail(@)] \in [Bridges -> Seq(S)]
  OBVIOUS

(* the pipelines *)
LEMMA SavedWiden ==
  ASSUME NEW e \in Int, NEW f \in Int, e <= f, NEW m \in Int, NEW n \in Int, m <= n,
         saved \in [Bridges -> None .. e], got \in [Bridges -> SUBSET (1 .. m)],
         pend \in [Bridges -> Seq(1 .. e)]
  PROVE  /\ saved \in [Bridges -> None .. f]
         /\ got \in [Bridges -> SUBSET (1 .. n)]
         /\ pend \in [Bridges -> Seq(1 .. f)]
  <1>1. saved \in [Bridges -> None .. f] /\ got \in [Bridges -> SUBSET (1 .. n)]
    BY DEF None
  <1>2. 1 .. e \subseteq 1 .. f
    OBVIOUS
  <1>3. ASSUME NEW b \in Bridges PROVE pend[b] \in Seq(1 .. f)
    <2>1. PICK p : p = pend[b] /\ p \in Seq(1 .. e)
      OBVIOUS
    <2>2. \A i \in 1 .. Len(p) : p[i] \in 1 .. f
      BY <1>2, <2>1
    <2> QED
      BY <2>1, <2>2
  <1> QED
    BY <1>1, <1>3

(* Every step keeps the types of the pipelines. *)
LEMMA PipeTypeKept ==
  ASSUME Types, QueueInv, StoreInv, ReaderInv, [Next]_vars
  PROVE  PipeType(Len(wal))'
  <1>0. PICK n \in Nat : n = Len(wal)
    BY WalLength DEF Types
  <1>1. CASE \/ UNCHANGED vars
             \/ \E x \in Txns, k \in Tables : Touch(x, k)
             \/ \E b \in Bridges : Join(b) \/ Rejoin(b) \/ Open(b) \/ LeaveAgain(b)
             \/ JoinCreated \/ JoinHold \/ JoinPublish \/ JoinBarrier \/ JoinGivesUp \/ JoinTake
                 \/ Restart \/ RemoveEnds \/ Closed \/ LeaveUnpublish \/ LeaveLast \/ Cycle
                 \/ RunLoop \/ Subscribe \/ ReaderEnds \/ Read \/ Heartbeat
    <2>1. UNCHANGED <<wal, saved, got, pend>>
      BY <1>1 DEF vars, sourceVars, serverVars, pipeVars, streamVars, readVars, queueVars,
             Touch, Join, Rejoin, Open, LeaveAgain, JoinCreated, JoinHold, JoinPublish,
             JoinBarrier, JoinGivesUp, JoinTake, Restart, RemoveEnds, Closed, LeaveUnpublish,
             LeaveLast, Cycle, RunLoop, Subscribe, ReaderEnds, Read, Heartbeat
    <2> QED
      BY <2>1 DEF Types, PipeType
  <1>2. ASSUME NEW x \in Txns, EndTxn(x) PROVE PipeType(Len(wal))'
    <2>1. Len(wal) \in Nat /\ Len(wal') \in Nat /\ Len(wal) <= Len(wal')
      BY <1>2, WalGrows DEF Types
    <2>2. UNCHANGED <<saved, got, pend>>
      BY <1>2 DEF EndTxn, pipeVars
    <2>3. EndCursor(Len(wal)) \in Int /\ EndCursor(Len(wal')) \in Int /\ EndCursor(Len(wal)) <= EndCursor(Len(wal'))
      BY <2>1, EndOrder
    <2> QED
      BY <2>1, <2>2, <2>3, SavedWiden DEF Types, PipeType
  <1>3. ASSUME NEW b \in Bridges, Stop(b) PROVE PipeType(Len(wal))'
    <2>1. pend' = [pend EXCEPT ![b] = <<>>] /\ member' = [member EXCEPT ![b] = NoMember]
      BY <1>3, RemovedEffect, <1>0 DEF Stop, Types
    <2> QED
      BY <1>0, <1>3, <2>1 DEF Stop, Types, PipeType, sourceVars
  <1>4. ASSUME NEW b \in Bridges, Leave(b) PROVE PipeType(Len(wal))'
    <2>1. pend' = [pend EXCEPT ![b] = <<>>] /\ member' = [member EXCEPT ![b] = NoMember]
      BY <1>4, RemovedEffect, <1>0 DEF Leave, Types
    <2> QED
      BY <1>0, <1>4, <2>1 DEF Leave, Types, PipeType, sourceVars
  <1>5. CASE LeaveDelete
    <2>1. None \in None .. EndCursor(n) /\ {} \in SUBSET (1 .. n)
      BY EndOrder DEF None
    <2> QED
      BY <1>0, <1>5, <2>1 DEF LeaveDelete, Types, PipeType, sourceVars
  <1>6. ASSUME NEW b \in Bridges, HandTo(b) PROVE PipeType(Len(wal))'
    <2>1. handing.cursor \in 0 .. EndCursor(n) /\ EndCursor(n) \in Int
      BY <1>0, EndOrder DEF Types, RunType
    <2>2. pend' \in [Bridges -> Seq(1 .. EndCursor(n))]
      <3>1. pend \in [Bridges -> Seq(1 .. EndCursor(n))]
        BY <1>0 DEF Types, PipeType
      <3>2. CASE Takes(b)
        <4>1. handing.cursor \in 1 .. EndCursor(n)
          BY <1>0, <2>1, <3>2 DEF Takes, Types, MemberType
        <4>2. PICK c : c = handing.cursor
          OBVIOUS
        <4>3. pend' = [pend EXCEPT ![b] = Append(@, c)]
          BY <1>6, <3>2, <4>2, Zenon DEF HandTo
        <4> QED
          BY <3>1, <4>1, <4>2, <4>3, AppendsOne
      <3>3. CASE ~Takes(b)
        BY <1>6, <3>1, <3>3 DEF HandTo
      <3> QED
        BY <3>2, <3>3
    <2> QED
      BY <1>0, <1>6, <2>2 DEF HandTo, Types, PipeType, sourceVars
  <1>7. ASSUME NEW b \in Bridges, HandThrows(b) PROVE PipeType(Len(wal))'
    <2>1. pend' = [pend EXCEPT ![b] = <<>>] /\ member' = [member EXCEPT ![b] = NoMember]
      BY <1>7, RemovedEffect, <1>0 DEF HandThrows, Types
    <2> QED
      BY <1>0, <1>7, <2>1 DEF HandThrows, Types, PipeType, sourceVars
  <1>8. ASSUME NEW b \in Bridges, Settle(b) PROVE PipeType(Len(wal))'
    <2>1. PICK c : c = Head(pend[b])
      OBVIOUS
    <2>2. /\ c \in 1 .. EndCursor(n) /\ saved' = [saved EXCEPT ![b] = c]
          /\ got' = [got EXCEPT ![b] = IF IsEnd(c) THEN @ ELSE @ \union {TxnOf(c)}]
      BY <1>0, <1>8, <2>1, SettleEffect DEF Types
    <2>3. c \in None .. EndCursor(n) /\ TxnOf(c) \in 1 .. n
      BY <2>2, EndOrder, CursorRange DEF None
    <2>4. pend' \in [Bridges -> Seq(1 .. EndCursor(n))]
      <3>1. pend \in [Bridges -> Seq(1 .. EndCursor(n))]
        BY <1>0 DEF Types, PipeType
      <3>2. pend' = [pend EXCEPT ![b] = Tail(@)] /\ pend[b] # <<>>
        BY <1>8 DEF Settle
      <3> QED
        BY <3>1, <3>2, TailTakesOne
    <2>5. wal' = wal
      BY <1>8 DEF Settle, sourceVars
    <2> QED
      BY <1>0, <2>2, <2>3, <2>4, <2>5 DEF Types, PipeType
  <1>9. CASE Crash
    BY <1>9, <1>0 DEF Crash, sourceVars, serverVars, Types, PipeType
  <1> QED
    BY <1>1, <1>2, <1>3, <1>4, <1>5, <1>6, <1>7, <1>8, <1>9
      DEF Next

(* the members *)
LEMMA MemberTypeKept ==
  ASSUME Types, QueueInv, StoreInv, ReaderInv, [Next]_vars
  PROVE  MemberType(Len(wal))'
  <1>0. PICK n \in Nat : n = Len(wal)
    BY WalLength DEF Types
  <1>1. CASE \/ UNCHANGED vars
             \/ \E x \in Txns, k \in Tables : Touch(x, k)
             \/ \E b \in Bridges : Join(b) \/ Rejoin(b) \/ LeaveAgain(b)
             \/ JoinCreated \/ JoinHold \/ JoinPublish \/ JoinBarrier \/ JoinGivesUp \/ JoinTake
                 \/ LeaveDelete \/ RunLoop \/ Subscribe \/ ReaderEnds \/ Read
    <2>1. UNCHANGED <<wal, member, gen, cycle>>
      BY <1>1 DEF vars, sourceVars, serverVars, pipeVars, streamVars, readVars, queueVars,
             Touch, Join, Rejoin, LeaveAgain, JoinCreated, JoinHold, JoinPublish, JoinBarrier,
             JoinGivesUp, JoinTake, LeaveDelete, RunLoop, Subscribe, ReaderEnds, Read
    <2> QED
      BY <2>1 DEF Types, MemberType
  <1>2. ASSUME NEW x \in Txns, EndTxn(x) PROVE MemberType(Len(wal))'
    <2>1. Len(wal) \in Nat /\ Len(wal') \in Nat /\ Len(wal) <= Len(wal')
      BY <1>2, WalGrows DEF Types
    <2>2. UNCHANGED <<member, gen, cycle>>
      BY <1>2 DEF EndTxn, streamVars
    <2>3. EndCursor(Len(wal)) \in Int /\ EndCursor(Len(wal')) \in Int /\ EndCursor(Len(wal)) <= EndCursor(Len(wal'))
      BY <2>1, EndOrder
    <2> QED
      BY <2>1, <2>2, <2>3 DEF Types, MemberType
  <1>3. ASSUME NEW b \in Bridges, Open(b) PROVE MemberType(Len(wal))'
    <2>1. PICK had : had = IF saved[b] = None THEN EndCursor(rows[b]) ELSE saved[b]
      OBVIOUS
    <2>2. rows[b] \in 0 .. n
      BY <1>0, <1>3 DEF Open, Types, StoreType, None
    <2>3. had \in 0 .. EndCursor(n)
      <3>1. EndCursor(rows[b]) \in 0 .. EndCursor(n) /\ EndCursor(n) \in Int
        BY <2>2, EndOrder
      <3> QED
        BY <1>0, <2>1, <3>1 DEF Types, PipeType, None
    <2>4. member' = [member EXCEPT ![b] = [on |-> TRUE, since |-> gen + 1, highest |-> had,
                                           acked |-> had, confirmed |-> rows[b]]]
      BY <1>3, <2>1 DEF Open
    <2> QED
      BY <1>0, <1>3, <2>2, <2>3, <2>4 DEF Open, Types, MemberType, sourceVars
  <1>4. ASSUME NEW b \in Bridges, Stop(b) PROVE MemberType(Len(wal))'
    <2>0. NoMember \in [on : BOOLEAN, since : Nat, highest : 0 .. EndCursor(n),
                          acked : 0 .. EndCursor(n), confirmed : 0 .. n]
      BY EndOrder DEF NoMember
    <2>1. pend' = [pend EXCEPT ![b] = <<>>] /\ member' = [member EXCEPT ![b] = NoMember]
      BY <1>4, RemovedEffect, <1>0 DEF Stop, Types
    <2> QED
      BY <1>0, <1>4, <2>0, <2>1 DEF Stop, Types, MemberType, sourceVars
  <1>5. ASSUME NEW b \in Bridges, Leave(b) PROVE MemberType(Len(wal))'
    <2>0. NoMember \in [on : BOOLEAN, since : Nat, highest : 0 .. EndCursor(n),
                          acked : 0 .. EndCursor(n), confirmed : 0 .. n]
      BY EndOrder DEF NoMember
    <2>1. pend' = [pend EXCEPT ![b] = <<>>] /\ member' = [member EXCEPT ![b] = NoMember]
      BY <1>5, RemovedEffect, <1>0 DEF Leave, Types
    <2> QED
      BY <1>0, <1>5, <2>0, <2>1 DEF Leave, Types, MemberType, sourceVars
  <1>6. CASE Restart
    BY <1>6, <1>0 DEF Restart, sourceVars, serverVars, pipeVars, readVars, Types, MemberType
  <1>7. CASE RemoveEnds
    <2>1. wal' = wal /\ member' = member
      BY <1>7, RemoveEndsEffect
    <2>2. gen' = gen \/ gen' = gen + 1
      BY <1>7, RemoveEndsEffect, Zenon
    <2>3. cycle' = cycle \/ cycle' = FALSE
      BY <1>7, RemoveEndsEffect, Zenon
    <2>4. cycle' \in BOOLEAN
      BY <2>3, Zenon DEF Types, MemberType
    <2> QED
      BY <1>0, <2>1, <2>2, <2>4 DEF Types, MemberType
  <1>8. CASE Closed
    BY <1>8, <1>0 DEF Closed, sourceVars, serverVars, pipeVars, Types, MemberType
  <1>9. CASE LeaveUnpublish
    <2>1. wal' = wal /\ member' = member
      BY <1>9, LeaveUnpublishEffect
    <2>2. gen' = gen \/ gen' = gen + 1
      BY <1>9, LeaveUnpublishEffect, Zenon
    <2>3. cycle' = cycle \/ cycle' = FALSE
      BY <1>9, LeaveUnpublishEffect, Zenon
    <2>4. cycle' \in BOOLEAN
      BY <2>3, Zenon DEF Types, MemberType
    <2> QED
      BY <1>0, <2>1, <2>2, <2>4 DEF Types, MemberType
  <1>10. CASE LeaveLast
    BY <1>10, <1>0 DEF LeaveLast, sourceVars, pipeVars, Types, MemberType
  <1>11. CASE Cycle
    BY <1>11, <1>0 DEF Cycle, sourceVars, serverVars, pipeVars, queueVars, Types, MemberType
  <1>12. CASE Heartbeat
    <2>1. MemberType(n)'
      BY <1>0, <1>12, HeartbeatEffect DEF Types
    <2>2. wal' = wal
      BY <1>12 DEF Heartbeat, sourceVars
    <2> QED
      BY <1>0, <2>1, <2>2 DEF MemberType
  <1>13. ASSUME NEW b \in Bridges, HandTo(b) PROVE MemberType(Len(wal))'
    <2>1. handing.cursor \in 0 .. EndCursor(n)
      BY <1>0 DEF Types, RunType
    <2>2. member' = [member EXCEPT ![b].highest = handing.cursor] \/ member' = member
      BY <1>13 DEF HandTo
    <2>3. UNCHANGED <<wal, gen, cycle>>
      BY <1>13 DEF HandTo, sourceVars
    <2> QED
      BY <1>0, <2>1, <2>2, <2>3, ZenonT(60) DEF Types, MemberType
  <1>14. ASSUME NEW b \in Bridges, HandThrows(b) PROVE MemberType(Len(wal))'
    <2>0. NoMember \in [on : BOOLEAN, since : Nat, highest : 0 .. EndCursor(n),
                          acked : 0 .. EndCursor(n), confirmed : 0 .. n]
      BY EndOrder DEF NoMember
    <2>1. pend' = [pend EXCEPT ![b] = <<>>] /\ member' = [member EXCEPT ![b] = NoMember]
      BY <1>14, RemovedEffect, <1>0 DEF HandThrows, Types
    <2> QED
      BY <1>0, <1>14, <2>0, <2>1 DEF HandThrows, Types, MemberType, sourceVars
  <1>15. ASSUME NEW b \in Bridges, Settle(b) PROVE MemberType(Len(wal))'
    <2>1. MemberType(n)'
      BY <1>0, <1>15, SettleEffect DEF Types
    <2>2. wal' = wal
      BY <1>15 DEF Settle, sourceVars
    <2> QED
      BY <1>0, <2>1, <2>2 DEF MemberType
  <1>16. CASE Crash
    <2>0. NoMember \in [on : BOOLEAN, since : Nat, highest : 0 .. EndCursor(n),
                          acked : 0 .. EndCursor(n), confirmed : 0 .. n]
      BY EndOrder DEF NoMember
    <2> QED
      BY <1>0, <1>16, <2>0 DEF Crash, Types, MemberType, sourceVars
  <1> QED
    BY <1>1, <1>2, <1>3, <1>4, <1>5, <1>6, <1>7, <1>8, <1>9, <1>10, <1>11, <1>12, <1>13, <1>14,
       <1>15, <1>16 DEF Next

(* what the server sends next *)
LEMMA ReadEffect ==
  ASSUME Types, Read, NEW n \in Nat, n = Len(wal)
  PROVE  /\ run.at = "read" /\ run.gen = gen /\ handing = NoWork
         /\ NextTxn \in 1 .. n
         /\ \E c \in 1 .. EndCursor(n), S \in SUBSET Running :
              /\ run' = [run EXCEPT !.pos = c]
              /\ handing' = IF S = {} THEN NoWork ELSE [cursor |-> c, gen |-> run.gen, todo |-> S]
              /\ \/ NextChanges = {} /\ c = EndCursor(NextTxn)
                 \/ \E k \in NextChanges :
                      /\ c = ChangeCursor(NextTxn, k) /\ \A j \in NextChanges : k <= j
                      /\ S = {b \in Running : Table[b] = k}
  <1>1. run.at = "read" /\ run.gen = gen /\ handing = NoWork
    BY DEF Read, Reading
  <1>2. NextTxn \in 1 .. n
    <2>1. run.pos \in 0 .. EndCursor(n)
      BY DEF Types, RunType
    <2>2. run.pos \div Width \in 0 .. n
      BY <2>1, CursorRange
    <2>3. NextTxn <= n
      BY DEF Read
    <2> QED
      BY <2>2, <2>3 DEF NextTxn
  <1>3. EndCursor(NextTxn) \in 1 .. EndCursor(n) /\ \A k \in Tables : ChangeCursor(NextTxn, k) \in 1 .. EndCursor(n)
    <2>1. EndCursor(NextTxn) \in Int /\ EndCursor(NextTxn) >= NextTxn /\ EndCursor(n) \in Int /\ EndCursor(NextTxn) <= EndCursor(n)
      BY <1>2, EndOrder
    <2>2. ASSUME NEW k \in Tables PROVE ChangeCursor(NextTxn, k) \in 1 .. EndCursor(n)
      <3>1. ChangeCursor(NextTxn, k) \in Int /\ ChangeCursor(NextTxn, k) < EndCursor(NextTxn)
        BY <1>2, CursorOrder
      <3>2. EndCursor(0) \in Int /\ EndCursor(0) >= 0 /\ EndCursor(0) < ChangeCursor(NextTxn, k)
        BY <1>2, CursorOrder, EndOrder
      <3> QED
        BY <2>1, <3>1, <3>2
    <2> QED
      BY <1>2, <2>1, <2>2
  <1>4. CASE NextChanges = {}
    <2>1. PICK S \in SUBSET Running : Hand(EndCursor(NextTxn), S)
      BY <1>4 DEF Read
    <2> QED
      BY <1>1, <1>2, <1>3, <1>4, <2>1 DEF Hand
  <1>5. CASE NextChanges # {}
    <2>1. NextChanges \subseteq Tables
      <3>1. wal[NextTxn] \in Txn
        BY <1>2 DEF Types, SourceType
      <3> QED
        BY <3>1 DEF NextChanges, Txn
    <2>2. NextChanges \subseteq Nat
      BY <2>1, WidthType
    <2>3. PICK k : k = Min(NextChanges)
      OBVIOUS
    <2>4. k \in NextChanges /\ \A j \in NextChanges : k <= j
      BY <1>5, <2>2, <2>3, LeastNatural, Zenon
    <2>5. Hand(ChangeCursor(NextTxn, k), {b \in Running : Table[b] = k})
      BY <1>5, <2>3, Zenon DEF Read
    <2>6. PICK S : S = {b \in Running : Table[b] = k} /\ S \in SUBSET Running
      OBVIOUS
    <2>7. PICK c : c = ChangeCursor(NextTxn, k) /\ c \in 1 .. EndCursor(n)
      BY <1>3, <2>1, <2>4
    <2>8. /\ run' = [run EXCEPT !.pos = c]
          /\ handing' = IF S = {} THEN NoWork ELSE [cursor |-> c, gen |-> run.gen, todo |-> S]
      BY <2>5, <2>6, <2>7, Zenon DEF Hand
    <2> QED
      BY <1>1, <1>2, <2>4, <2>6, <2>7, <2>8, Zenon
  <1> QED
    BY <1>4, <1>5

(* the reader *)
LEMMA RunTypeKept ==
  ASSUME Types, QueueInv, StoreInv, ReaderInv, [Next]_vars
  PROVE  RunType(Len(wal))'
  <1>0. PICK n \in Nat : n = Len(wal)
    BY WalLength DEF Types
  <1>1. CASE \/ UNCHANGED vars
             \/ \E x \in Txns, k \in Tables : Touch(x, k)
             \/ \E b \in Bridges : Join(b) \/ Rejoin(b) \/ Open(b) \/ Stop(b) \/ Leave(b)
                 \/ LeaveAgain(b) \/ Settle(b)
             \/ JoinCreated \/ JoinHold \/ JoinPublish \/ JoinBarrier \/ JoinGivesUp \/ JoinTake
                 \/ Restart \/ LeaveDelete \/ Heartbeat
    <2>1. UNCHANGED <<wal, run, handing>>
      BY <1>1 DEF vars, sourceVars, serverVars, pipeVars, streamVars, readVars, queueVars,
             Touch, Join, Rejoin, Open, Stop, Leave, LeaveAgain, JoinCreated, JoinHold,
             JoinPublish, JoinBarrier, JoinGivesUp, JoinTake, Restart, LeaveDelete, Heartbeat,
             Settle
    <2> QED
      BY <2>1 DEF Types, RunType
  <1>2. ASSUME NEW x \in Txns, EndTxn(x) PROVE RunType(Len(wal))'
    <2>1. Len(wal) \in Nat /\ Len(wal') \in Nat /\ Len(wal) <= Len(wal')
      BY <1>2, WalGrows DEF Types
    <2>2. UNCHANGED <<run, handing>>
      BY <1>2 DEF EndTxn, readVars
    <2>3. EndCursor(Len(wal)) \in Int /\ EndCursor(Len(wal')) \in Int /\ EndCursor(Len(wal)) <= EndCursor(Len(wal'))
      BY <2>1, EndOrder
    <2> QED
      BY <2>1, <2>2, <2>3 DEF Types, RunType
  <1>3. CASE RemoveEnds
    <2>0. NoWork \in [cursor : 0 .. EndCursor(n), gen : Nat, todo : SUBSET Bridges]
      BY EndOrder DEF NoWork
    <2>1. 0 \in 0 .. EndCursor(n)
      BY EndOrder
    <2> QED
      BY <1>0, <1>3, <2>0, <2>1 DEF RemoveEnds, Types, RunType, MemberType, Close, Looping, sourceVars
  <1>4. CASE Closed
    <2>0. NoWork \in [cursor : 0 .. EndCursor(n), gen : Nat, todo : SUBSET Bridges]
      BY EndOrder DEF NoWork
    <2>1. 0 \in 0 .. EndCursor(n)
      BY EndOrder
    <2> QED
      BY <1>0, <1>4, <2>0, <2>1 DEF Closed, Types, RunType, MemberType, sourceVars
  <1>5. CASE LeaveUnpublish
    <2>0. NoWork \in [cursor : 0 .. EndCursor(n), gen : Nat, todo : SUBSET Bridges]
      BY EndOrder DEF NoWork
    <2>1. 0 \in 0 .. EndCursor(n)
      BY EndOrder
    <2> QED
      BY <1>0, <1>5, <2>0, <2>1 DEF LeaveUnpublish, Types, RunType, MemberType, Close, Looping, sourceVars
  <1>6. CASE LeaveLast
    <2>0. NoWork \in [cursor : 0 .. EndCursor(n), gen : Nat, todo : SUBSET Bridges]
      BY EndOrder DEF NoWork
    <2>1. 0 \in 0 .. EndCursor(n)
      BY EndOrder
    <2> QED
      BY <1>0, <1>6, <2>0, <2>1 DEF LeaveLast, Types, RunType, MemberType, sourceVars
  <1>7. CASE Cycle
    <2>0. NoWork \in [cursor : 0 .. EndCursor(n), gen : Nat, todo : SUBSET Bridges]
      BY EndOrder DEF NoWork
    <2>1. 0 \in 0 .. EndCursor(n)
      BY EndOrder
    <2> QED
      BY <1>0, <1>7, <2>0, <2>1 DEF Cycle, Types, RunType, MemberType, Looping, sourceVars
  <1>8. CASE RunLoop
    <2>0. NoWork \in [cursor : 0 .. EndCursor(n), gen : Nat, todo : SUBSET Bridges]
      BY EndOrder DEF NoWork
    <2>1. 0 \in 0 .. EndCursor(n)
      BY EndOrder
    <2> QED
      BY <1>0, <1>8, <2>0, <2>1 DEF RunLoop, Types, RunType, MemberType, NotRunning, sourceVars
  <1>9. CASE Subscribe
    <2>1. EndCursor(slot) \in 0 .. EndCursor(n)
      <3>1. slot \in 0 .. n
        BY <1>0, <1>9 DEF Subscribe, ReaderInv, Types, StoreType, None
      <3> QED
        BY <3>1, EndOrder
    <2> QED
      BY <1>0, <1>9, <2>1 DEF Subscribe, Types, RunType, sourceVars
  <1>10. CASE ReaderEnds
    <2>0. NoWork \in [cursor : 0 .. EndCursor(n), gen : Nat, todo : SUBSET Bridges]
      BY EndOrder DEF NoWork
    <2>1. 0 \in 0 .. EndCursor(n)
      BY EndOrder
    <2> QED
      BY <1>0, <1>10, <2>0, <2>1 DEF ReaderEnds, Types, RunType, MemberType, Looping, sourceVars
  <1>11. CASE Read
    <2>1. PICK c \in 1 .. EndCursor(n), S \in SUBSET Running :
              /\ run' = [run EXCEPT !.pos = c]
              /\ handing' = IF S = {} THEN NoWork ELSE [cursor |-> c, gen |-> run.gen, todo |-> S]
      BY <1>0, <1>11, ReadEffect
    <2>2. NoWork \in [cursor : 0 .. EndCursor(n), gen : Nat, todo : SUBSET Bridges]
      BY EndOrder DEF NoWork
    <2>3. c \in 0 .. EndCursor(n) /\ S \subseteq Bridges
      BY <2>1, EndOrder DEF Running
    <2>4. wal' = wal
      BY <1>11 DEF Read, sourceVars
    <2> QED
      BY <1>0, <2>1, <2>2, <2>3, <2>4 DEF Types, RunType
  <1>12. ASSUME NEW b \in Bridges, HandTo(b) PROVE RunType(Len(wal))'
    <2>0. NoWork \in [cursor : 0 .. EndCursor(n), gen : Nat, todo : SUBSET Bridges]
      BY EndOrder DEF NoWork
    <2>1. handing' \in [cursor : 0 .. EndCursor(n), gen : Nat, todo : SUBSET Bridges]
      BY <1>0, <1>12, <2>0 DEF HandTo, Done, Types, RunType
    <2> QED
      BY <1>0, <1>12, <2>1 DEF HandTo, Types, RunType, sourceVars
  <1>13. ASSUME NEW b \in Bridges, HandThrows(b) PROVE RunType(Len(wal))'
    <2>0. NoWork \in [cursor : 0 .. EndCursor(n), gen : Nat, todo : SUBSET Bridges]
      BY EndOrder DEF NoWork
    <2>1. handing' \in [cursor : 0 .. EndCursor(n), gen : Nat, todo : SUBSET Bridges]
      BY <1>0, <1>13, <2>0 DEF HandThrows, Done, Types, RunType
    <2> QED
      BY <1>0, <1>13, <2>1 DEF HandThrows, Types, RunType, sourceVars
  <1>14. CASE Crash
    <2>0. NoWork \in [cursor : 0 .. EndCursor(n), gen : Nat, todo : SUBSET Bridges]
      BY EndOrder DEF NoWork
    <2>1. 0 \in 0 .. EndCursor(n)
      BY EndOrder
    <2> QED
      BY <1>0, <1>14, <2>0, <2>1 DEF Crash, Types, RunType, MemberType, NotRunning, sourceVars
  <1> QED
    BY <1>1, <1>2, <1>3, <1>4, <1>5, <1>6, <1>7, <1>8, <1>9, <1>10, <1>11, <1>12, <1>13, <1>14
      DEF Next

(* the queue *)
LEMMA BusyTypeKept ==
  ASSUME BusyType, QueueInv, [Next]_vars
  PROVE  BusyType'
  <1>1. CASE \/ UNCHANGED vars
             \/ \E x \in Txns : EndTxn(x)
             \/ \E x \in Txns, k \in Tables : Touch(x, k)
             \/ \E b \in Bridges : Rejoin(b) \/ HandTo(b) \/ HandThrows(b) \/ Settle(b)
             \/ Cycle \/ RunLoop \/ Subscribe \/ ReaderEnds \/ Read \/ Heartbeat
    <2>1. UNCHANGED <<busy>>
      BY <1>1 DEF vars, sourceVars, serverVars, pipeVars, streamVars, readVars, queueVars,
             EndTxn, Touch, Rejoin, Cycle, RunLoop, Subscribe, ReaderEnds, Read, Heartbeat,
             HandTo, HandThrows, Settle
    <2> QED
      BY <2>1 DEF BusyType
  <1>2. ASSUME NEW b \in Bridges, Join(b) PROVE BusyType'
    BY <1>2 DEF Join, sourceVars, serverVars, pipeVars, streamVars, readVars, BusyType, Joins
  <1>3. ASSUME NEW b \in Bridges, Open(b) PROVE BusyType'
    BY <1>3 DEF Open, sourceVars, serverVars, readVars, BusyType
  <1>4. ASSUME NEW b \in Bridges, Stop(b) PROVE BusyType'
    BY <1>4 DEF Stop, Removed, sourceVars, serverVars, readVars, BusyType
  <1>5. ASSUME NEW b \in Bridges, Leave(b) PROVE BusyType'
    BY <1>5 DEF Leave, Removed, sourceVars, serverVars, readVars, BusyType
  <1>6. ASSUME NEW b \in Bridges, LeaveAgain(b) PROVE BusyType'
    BY <1>6 DEF LeaveAgain, sourceVars, serverVars, pipeVars, streamVars, readVars, BusyType
  <1>7. CASE JoinCreated
    BY <1>7 DEF JoinCreated, sourceVars, pipeVars, streamVars, readVars, BusyType, Step
  <1>8. CASE JoinHold
    BY <1>8 DEF JoinHold, sourceVars, serverVars, pipeVars, readVars, BusyType, Step
  <1>9. CASE JoinPublish
    BY <1>9 DEF JoinPublish, sourceVars, pipeVars, streamVars, readVars, BusyType, Step
  <1>10. CASE JoinBarrier
    BY <1>10 DEF JoinBarrier, sourceVars, serverVars, pipeVars, streamVars, readVars, BusyType,
           Step
  <1>11. CASE JoinGivesUp
    BY <1>11 DEF JoinGivesUp, sourceVars, pipeVars, readVars, BusyType, Free
  <1>12. CASE JoinTake
    BY <1>12 DEF JoinTake, sourceVars, serverVars, pipeVars, readVars, BusyType, Free
  <1>13. CASE Restart
    BY <1>13 DEF Restart, sourceVars, serverVars, pipeVars, readVars, BusyType, Free
  <1>14. CASE RemoveEnds
    <2>1. busy' = Free \/ busy' = [busy EXCEPT !.at = "closing"] \/ busy' = [busy EXCEPT !.at = "delete"]
      BY <1>14, RemoveEndsEffect, Zenon
    <2>2. CASE busy' = Free
      BY <2>2 DEF BusyType, Free
    <2>3. CASE busy' = [busy EXCEPT !.at = "delete"]
      BY <2>3 DEF BusyType
    <2>4. CASE busy' = [busy EXCEPT !.at = "closing"]
      BY <2>4 DEF BusyType
    <2> QED
      BY <2>1, <2>2, <2>3, <2>4
  <1>15. CASE Closed
    <2>1. busy' = Free \/ busy' = [busy EXCEPT !.at = "delete"]
      BY <1>15, ClosedEffect, Zenon
    <2>2. CASE busy' = Free
      BY <2>2 DEF BusyType, Free
    <2>3. CASE busy' = [busy EXCEPT !.at = "delete"]
      BY <2>3 DEF BusyType
    <2> QED
      BY <2>1, <2>2, <2>3
  <1>16. CASE LeaveDelete
    BY <1>16 DEF LeaveDelete, sourceVars, serverVars, readVars, BusyType, Free, Step
  <1>17. CASE LeaveUnpublish
    <2>1. busy' = Free \/ busy' = [busy EXCEPT !.at = "last"]
      BY <1>17, LeaveUnpublishEffect, Zenon
    <2>2. CASE busy' = Free
      BY <2>2 DEF BusyType, Free
    <2>3. CASE busy' = [busy EXCEPT !.at = "last"]
      BY <2>3 DEF BusyType
    <2> QED
      BY <2>1, <2>2, <2>3
  <1>18. CASE LeaveLast
    BY <1>18 DEF LeaveLast, sourceVars, pipeVars, BusyType, Free, Step
  <1>19. CASE Crash
    BY <1>19 DEF Crash, sourceVars, serverVars, BusyType, Free, Step
  <1> QED
    BY <1>1, <1>2, <1>3, <1>4, <1>5, <1>6, <1>7, <1>8, <1>9, <1>10, <1>11, <1>12, <1>13, <1>14,
       <1>15, <1>16, <1>17, <1>18, <1>19 DEF Next

-----------------------------------------------------------------------------
(* the queue and the store *)

(* What an each() does to a member. *)
LEMMA HandToEffect ==
  ASSUME Types, NEW b \in Bridges, HandTo(b)
  PROVE  /\ b \in handing.todo
         /\ \A o \in Bridges :
              /\ member'[o].on = member[o].on /\ member'[o].since = member[o].since
              /\ member'[o].acked = member[o].acked /\ member'[o].confirmed = member[o].confirmed
              /\ o # b => member'[o] = member[o] /\ pend'[o] = pend[o]
         /\ Takes(b) => /\ member'[b].highest = handing.cursor
                        /\ pend'[b] = Append(pend[b], handing.cursor)
         /\ ~Takes(b) => member'[b] = member[b] /\ pend'[b] = pend[b]
         /\ UNCHANGED <<open, wal, pub, slot, rows, saved, got, base, idle, gen, cycle, run, busy, waits, cut>>
  <1>1. /\ b \in handing.todo
        /\ UNCHANGED <<open, wal, pub, slot, rows, saved, got, base, idle, gen, cycle, run, busy, waits, cut>>
    BY DEF HandTo, sourceVars, serverVars, queueVars
  <1>2. CASE Takes(b)
    <2>1. /\ member' = [member EXCEPT ![b].highest = handing.cursor]
          /\ pend' = [pend EXCEPT ![b] = Append(@, handing.cursor)]
      BY <1>2, Zenon DEF HandTo
    <2>2. pend'[b] = Append(pend[b], handing.cursor) /\ \A o \in Bridges : o # b => pend'[o] = pend[o]
      BY <2>1 DEF Types, PipeType
    <2>3. /\ member'[b].highest = handing.cursor
          /\ \A o \in Bridges :
              /\ member'[o].on = member[o].on /\ member'[o].since = member[o].since
              /\ member'[o].acked = member[o].acked /\ member'[o].confirmed = member[o].confirmed
              /\ o # b => member'[o] = member[o]
      BY <2>1 DEF Types, MemberType
    <2> QED
      BY <1>1, <1>2, <2>2, <2>3
  <1>3. CASE ~Takes(b)
    <2>1. member' = member /\ pend' = pend
      BY <1>3, Zenon DEF HandTo
    <2> QED
      BY <1>1, <1>3, <2>1
  <1> QED
    BY <1>2, <1>3

(* Done: the member is off the list, and an empty list is no work. *)
LEMMA DoneEffect ==
  ASSUME Types, NEW b \in Bridges, b \in handing.todo, Done(b)
  PROVE  /\ handing # NoWork
         /\ \A o \in Bridges : o \in handing'.todo <=> o \in handing.todo /\ o # b
         /\ handing' # NoWork => handing'.gen = handing.gen /\ handing'.cursor = handing.cursor
  <1>1. handing # NoWork
    BY DEF NoWork
  <1>2. CASE handing.todo = {b}
    BY <1>1, <1>2 DEF Done, NoWork
  <1>3. CASE handing.todo # {b}
    <2>1. handing' = [handing EXCEPT !.todo = @ \ {b}]
      BY <1>3, Zenon DEF Done
    <2> QED
      BY <1>1, <2>1 DEF Types, RunType
  <1> QED
    BY <1>2, <1>3

(* Without a reader the slot is not moved, and it is never taken away by one. *)
LEMMA SlotStays ==
  ASSUME Types, ReaderInv,
         \/ Heartbeat
         \/ \E b \in Bridges : Settle(b)
  PROVE  slot' = None <=> slot = None
  <1>1. PICK n \in Nat : n = Len(wal)
    BY WalLength DEF Types
  <1>2. slot' \in None .. n /\ slot <= slot' /\ (slot' = slot \/ run.at = "read")
    BY <1>1, SlotMoves DEF Types
  <1>3. slot \in None .. n /\ (run.at = "read" => slot # None)
    BY <1>1 DEF Types, StoreType, ReaderInv
  <1> QED
    BY <1>2, <1>3 DEF None

(* The part of the invariant about the queue's owner asks only this. *)
LEMMA QueueFrame ==
  ASSUME QueueInv, busy' = busy, cycle' => cycle, slot' = None <=> slot = None,
         \A b \in Bridges : /\ member'[b].on => member[b].on
                            /\ base'[b] = base[b]
                            /\ rows'[b] = None <=> rows[b] = None
  PROVE  QueueInv'
  BY DEF QueueInv, Joining

(* Every step keeps what the operation in the queue relies on. *)
LEMMA QueueKept ==
  ASSUME Types, QueueInv, StoreInv, ReaderInv, [Next]_vars
  PROVE  QueueInv'
  <1>1. CASE \/ UNCHANGED vars
             \/ \E x \in Txns : EndTxn(x)
             \/ \E x \in Txns, k \in Tables : Touch(x, k)
             \/ \E b \in Bridges : Rejoin(b)
             \/ RunLoop \/ Subscribe \/ ReaderEnds \/ Read
    <2>1. UNCHANGED <<busy, cycle, slot, member, base, rows>>
      BY <1>1 DEF vars, sourceVars, serverVars, pipeVars, streamVars, readVars, queueVars,
             EndTxn, Touch, Rejoin, RunLoop, Subscribe, ReaderEnds, Read
    <2> QED
      BY <2>1, QueueFrame
  <1>2. ASSUME NEW b \in Bridges, Join(b) PROVE QueueInv'
    BY <1>2 DEF Join, sourceVars, serverVars, pipeVars, streamVars, readVars, QueueInv, Joining,
           BusyType, Types, At, Step, Joins, StoreInv, StoreOf
  <1>3. ASSUME NEW b \in Bridges, Open(b) PROVE QueueInv'
    BY <1>3 DEF Open, sourceVars, serverVars, readVars, QueueInv, Joining, BusyType, Types, At,
           Step
  <1>4. ASSUME NEW b \in Bridges, Stop(b) PROVE QueueInv'
    <2>1. PICK n \in Nat : n = Len(wal)
      BY WalLength DEF Types
    <2>2. /\ \A o \in Bridges : rows'[o] = None <=> rows[o] = None
          /\ \A o \in Bridges : member'[o].on => member[o].on
          /\ ~member'[b].on
      BY <1>4, <2>1, RemovedEffect DEF Stop, Types
    <2> QED
      BY <1>4, <2>2 DEF Stop, QueueInv, Joining
  <1>5. ASSUME NEW b \in Bridges, Leave(b) PROVE QueueInv'
    <2>1. PICK n \in Nat : n = Len(wal)
      BY WalLength DEF Types
    <2>2. /\ \A o \in Bridges : rows'[o] = None <=> rows[o] = None
          /\ \A o \in Bridges : member'[o].on => member[o].on
          /\ ~member'[b].on
      BY <1>5, <2>1, RemovedEffect DEF Leave, Types
    <2> QED
      BY <1>5, <2>2 DEF Leave, QueueInv, Joining
  <1>6. ASSUME NEW b \in Bridges, LeaveAgain(b) PROVE QueueInv'
    BY <1>6 DEF LeaveAgain, sourceVars, serverVars, pipeVars, streamVars, readVars, QueueInv,
           Joining, BusyType, Types, At, Step, StoreInv, StoreOf, HasRow
  <1>7. CASE JoinCreated
    BY <1>7 DEF JoinCreated, sourceVars, pipeVars, streamVars, readVars, QueueInv, Joining,
           BusyType, Types, At, Step, None, SourceType
  <1>8. CASE JoinHold
    <2>1. busy.at = "hold" /\ busy'.at = "publish" /\ busy'.bridge = busy.bridge
      BY <1>8 DEF JoinHold, At, Step, Types, BusyType
    <2>2. busy.bridge \in Bridges /\ slot # None /\ base[busy.bridge] = NoBase /\ ~member[busy.bridge].on
      BY <2>1 DEF QueueInv, Joining
    <2>3. rows'[busy.bridge] = slot /\ UNCHANGED <<member, base>>
      BY <1>8, <2>2 DEF JoinHold, Types, StoreType, pipeVars
    <2> QED
      BY <2>1, <2>2, <2>3 DEF QueueInv, Joining
  <1>9. CASE JoinPublish
    BY <1>9 DEF JoinPublish, sourceVars, pipeVars, streamVars, readVars, QueueInv, Joining,
           BusyType, Types, At, Step
  <1>10. CASE JoinBarrier
    BY <1>10 DEF JoinBarrier, sourceVars, serverVars, pipeVars, streamVars, readVars, QueueInv,
           Joining, BusyType, Types, At, Step
  <1>11. CASE JoinGivesUp
    BY <1>11 DEF JoinGivesUp, sourceVars, pipeVars, readVars, QueueInv, Joining, BusyType,
           Types, At, Step, Free
  <1>12. CASE JoinTake
    BY <1>12 DEF JoinTake, sourceVars, serverVars, pipeVars, readVars, QueueInv, Joining,
           BusyType, Types, At, Step, Free
  <1>13. CASE Restart
    BY <1>13 DEF Restart, sourceVars, serverVars, pipeVars, readVars, QueueInv, Joining,
           BusyType, Types, At, Step, Free
  <1>14. CASE RemoveEnds
    <2>1. /\ busy.at = "removed" /\ UNCHANGED <<rows, member, base, slot>>
          /\ \/ busy' = Free \/ busy' = [busy EXCEPT !.at = "delete"] \/ busy' = [busy EXCEPT !.at = "closing"]
      BY <1>14, RemoveEndsEffect
    <2>2. busy'.at \in {"free", "delete", "closing"} /\ (busy'.at # "free" => busy'.bridge = busy.bridge)
      BY <2>1 DEF Types, BusyType, Free
    <2> QED
      BY <2>1, <2>2 DEF QueueInv, Joining
  <1>15. CASE Closed
    <2>1. /\ busy.at = "closing" /\ UNCHANGED <<rows, member, base, slot>>
          /\ \/ busy' = Free \/ busy' = [busy EXCEPT !.at = "delete"]
      BY <1>15, ClosedEffect
    <2>2. busy'.at \in {"free", "delete"} /\ (busy'.at # "free" => busy'.bridge = busy.bridge)
      BY <2>1 DEF Types, BusyType, Free
    <2> QED
      BY <2>1, <2>2 DEF QueueInv, Joining
  <1>16. CASE LeaveDelete
    <2>1. busy'.at \in {"counted", "unpublish"} /\ busy'.bridge = busy.bridge /\ busy.at = "delete"
      BY <1>16 DEF LeaveDelete, Step, At, Types, BusyType
    <2>2. busy.bridge \in Bridges /\ ~member[busy.bridge].on
      BY <2>1 DEF QueueInv
    <2>3. rows'[busy.bridge] = None /\ member' = member
      BY <1>16, <2>2 DEF LeaveDelete, Types, StoreType
    <2> QED
      BY <2>1, <2>2, <2>3 DEF QueueInv, Joining
  <1>17. CASE LeaveUnpublish
    <2>1. /\ UNCHANGED <<rows, member, base, slot>> /\ busy.at \in {"unpublish", "counted"}
          /\ \/ busy' = Free
             \/ busy' = [busy EXCEPT !.at = "last"] /\ HasRow = {} /\ cycle' = FALSE
      BY <1>17, LeaveUnpublishEffect
    <2>2. \/ busy'.at = "free"
          \/ busy'.at = "last" /\ busy'.bridge = busy.bridge /\ cycle' = FALSE /\ HasRow = {}
      BY <2>1 DEF Types, BusyType, Free
    <2> QED
      BY <2>1, <2>2 DEF QueueInv, Joining, HasRow
  <1>18. CASE LeaveLast
    BY <1>18 DEF LeaveLast, sourceVars, pipeVars, QueueInv, Joining, BusyType, Types, At, Step,
           Free
  <1>19. CASE Cycle
    <2>1. UNCHANGED <<busy, slot, member, base, rows>> /\ ~cycle'
      BY <1>19 DEF Cycle, serverVars, pipeVars, queueVars
    <2> QED
      BY <2>1, QueueFrame
  <1>20. CASE Heartbeat
    <2>1. PICK n \in Nat : n = Len(wal)
      BY WalLength DEF Types
    <2>2. \A b \in Bridges : member'[b].on = member[b].on
      BY <1>20, <2>1, HeartbeatEffect DEF Types
    <2>3. UNCHANGED <<busy, cycle, base, rows>>
      BY <1>20 DEF Heartbeat, pipeVars, queueVars
    <2>4. slot' = None <=> slot = None
      BY <1>20, SlotStays
    <2> QED
      BY <2>2, <2>3, <2>4, QueueFrame
  <1>21. ASSUME NEW b \in Bridges, HandTo(b) PROVE QueueInv'
    <2>1. /\ \A o \in Bridges : member'[o].on = member[o].on
          /\ UNCHANGED <<busy, cycle, slot, base, rows>>
      BY <1>21, HandToEffect
    <2> QED
      BY <2>1, QueueFrame
  <1>22. ASSUME NEW b \in Bridges, HandThrows(b) PROVE QueueInv'
    <2>1. PICK n \in Nat : n = Len(wal)
      BY WalLength DEF Types
    <2>2. /\ \A o \in Bridges : rows'[o] = None <=> rows[o] = None
          /\ \A o \in Bridges : member'[o].on => member[o].on
          /\ ~member'[b].on
      BY <1>22, <2>1, RemovedEffect DEF HandThrows, Types
    <2>3. UNCHANGED <<busy, cycle, slot, base>>
      BY <1>22 DEF HandThrows, serverVars, queueVars
    <2> QED
      BY <2>2, <2>3, QueueFrame
  <1>23. ASSUME NEW b \in Bridges, Settle(b) PROVE QueueInv'
    <2>1. PICK n \in Nat : n = Len(wal)
      BY WalLength DEF Types
    <2>2. \A o \in Bridges : member'[o].on = member[o].on
      BY <1>23, <2>1, SettleEffect, Zenon DEF Types
    <2>3. UNCHANGED <<busy, cycle, base, rows>>
      BY <1>23 DEF Settle, queueVars
    <2>4. slot' = None <=> slot = None
      BY <1>23, SlotStays
    <2> QED
      BY <2>2, <2>3, <2>4, QueueFrame
  <1>24. CASE Crash
    BY <1>24 DEF Crash, sourceVars, serverVars, QueueInv, Joining, BusyType, Types, At, Step,
           Free
  <1> QED
    BY <1>1, <1>2, <1>3, <1>4, <1>5, <1>6, <1>7, <1>8, <1>9, <1>10, <1>11, <1>12, <1>13, <1>14,
       <1>15, <1>16, <1>17, <1>18, <1>19, <1>20, <1>21, <1>22, <1>23, <1>24
      DEF Next

(* A bridge whose positions are left alone. *)
LEMMA StoreFrame ==
  ASSUME Types, StoreInv, NEW b \in Bridges,
         base'[b] = base[b], idle'[b] = idle[b], rows'[b] = rows[b],
         base[b] = NoBase => saved'[b] = saved[b],
         member'[b].on => member[b].on,
         slot' = slot,
         cycle' \/ run'.at # "off" => cycle \/ run.at # "off"
  PROVE  StoreOf(b)'
  BY DEF StoreInv, StoreOf

(* The row of a bridge moves on, or is looked up again. *)
LEMMA StoreMoves ==
  ASSUME Types, StoreInv, NEW b \in Bridges,
         base'[b] = base[b], rows'[b] \in Int, rows[b] <= rows'[b], rows'[b] = None <=> rows[b] = None,
         idle'[b] = idle[b] \/ idle'[b] = rows'[b],
         base[b] = NoBase => saved'[b] = saved[b],
         member'[b].on => member[b].on,
         slot' = slot,
         \/ idle'[b] = rows'[b]
         \/ cycle' \/ run'.at # "off" => cycle \/ run.at # "off"
  PROVE  StoreOf(b)'
  <1>1. rows[b] \in Int /\ idle[b] \in Int /\ slot \in Int
    BY WalLength DEF Types, StoreType, None
  <1>2. StoreOf(b)
    BY DEF StoreInv
  <1> QED
    BY <1>1, <1>2 DEF StoreOf

(* The slot moves: no further than what is known of an idle bridge. *)
LEMMA StoreConfirms ==
  ASSUME Types, StoreInv, NEW b \in Bridges,
         base'[b] = base[b], rows'[b] = rows[b], idle'[b] = idle[b], cycle' = cycle, run' = run,
         base[b] = NoBase => saved'[b] = saved[b],
         member'[b].on = member[b].on,
         slot' \in Int, slot' = None <=> slot = None,
         \/ slot' = slot
         \/ run.at = "read" /\ (~member[b].on /\ idle[b] # None => slot' <= idle[b])
  PROVE  StoreOf(b)'
  <1>1. rows[b] \in Int /\ idle[b] \in Int /\ slot \in Int
    BY WalLength DEF Types, StoreType, None
  <1>2. StoreOf(b)
    BY DEF StoreInv
  <1> QED
    BY <1>1, <1>2 DEF StoreOf

(* Every step keeps what is stored coherent. *)
LEMMA StoreKept ==
  ASSUME Types, QueueInv, StoreInv, ReaderInv, FlightInv, [Next]_vars
  PROVE  StoreInv'
  <1>1. CASE \/ UNCHANGED vars
             \/ \E x \in Txns : EndTxn(x)
             \/ \E x \in Txns, k \in Tables : Touch(x, k)
             \/ \E b \in Bridges : Join(b) \/ Rejoin(b) \/ LeaveAgain(b)
             \/ JoinPublish \/ JoinBarrier
    <2>1. UNCHANGED <<rows, base, saved, member, slot, idle, cycle, run>>
      BY <1>1 DEF vars, sourceVars, serverVars, pipeVars, streamVars, readVars, queueVars,
             EndTxn, Touch, Join, Rejoin, LeaveAgain, JoinPublish, JoinBarrier
    <2> QED
      BY <2>1 DEF StoreInv, StoreOf
  <1>2. ASSUME NEW b \in Bridges, Open(b) PROVE StoreInv'
    <2> SUFFICES ASSUME NEW o \in Bridges PROVE StoreOf(o)'
      BY DEF StoreInv
    <2>1. /\ UNCHANGED <<rows, saved, slot, idle, cycle, run>>
          /\ rows[b] # None /\ slot # None
      BY <1>2 DEF Open, serverVars, readVars, StoreInv, StoreOf
    <2>2. \A i \in Bridges : i # b => member'[i] = member[i] /\ base'[i] = base[i]
      BY <1>2 DEF Open, Types, MemberType, StoreType
    <2>3. base'[b] # NoBase
      <3>1. base'[b] = IF base[b] = NoBase THEN [from |-> rows[b], copied |-> Len(wal)] ELSE base[b]
        BY <1>2 DEF Open, Types, StoreType
      <3>2. [from |-> rows[b], copied |-> Len(wal)] # NoBase
        BY <2>1 DEF NoBase
      <3> QED
        BY <3>1, <3>2
    <2>4. CASE o # b
      BY <2>1, <2>2, <2>4, StoreFrame
    <2>5. CASE o = b
      BY <2>1, <2>3, <2>5 DEF StoreInv, StoreOf
    <2> QED
      BY <2>4, <2>5
  <1>3. ASSUME NEW b \in Bridges, Stop(b) PROVE StoreInv'
    <2> SUFFICES ASSUME NEW o \in Bridges PROVE StoreOf(o)'
      BY DEF StoreInv
    <2>1. PICK n \in Nat : n = Len(wal)
      BY WalLength DEF Types
    <2>2. /\ rows'[o] \in None .. n /\ rows[o] <= rows'[o] /\ (rows'[o] = None <=> rows[o] = None)
          /\ member'[o].on => member[o].on
      <3>1. /\ rows' \in [Bridges -> None .. n] /\ rows[b] <= rows'[b] /\ (rows'[b] = None <=> rows[b] = None)
            /\ ~member'[b].on
            /\ \A i \in Bridges : i # b => rows'[i] = rows[i] /\ member'[i] = member[i]
        BY <1>3, <2>1, RemovedEffect DEF Stop, Types
      <3>2. rows[o] \in Int
        BY <2>1 DEF Types, StoreType, None
      <3> QED
        BY <3>1, <3>2
    <2>3. rows'[o] \in Int
      BY <2>1, <2>2 DEF None
    <2>4. UNCHANGED <<base, saved, slot, cycle, run>>
      BY <1>3 DEF Stop, serverVars, readVars
    <2>5. idle' = idle
      BY <1>3 DEF Stop
    <2> QED
      BY <2>2, <2>3, <2>4, <2>5, StoreMoves
  <1>4. ASSUME NEW b \in Bridges, Leave(b) PROVE StoreInv'
    <2> SUFFICES ASSUME NEW o \in Bridges PROVE StoreOf(o)'
      BY DEF StoreInv
    <2>1. PICK n \in Nat : n = Len(wal)
      BY WalLength DEF Types
    <2>2. /\ rows'[o] \in None .. n /\ rows[o] <= rows'[o] /\ (rows'[o] = None <=> rows[o] = None)
          /\ member'[o].on => member[o].on
      <3>1. /\ rows' \in [Bridges -> None .. n] /\ rows[b] <= rows'[b] /\ (rows'[b] = None <=> rows[b] = None)
            /\ ~member'[b].on
            /\ \A i \in Bridges : i # b => rows'[i] = rows[i] /\ member'[i] = member[i]
        BY <1>4, <2>1, RemovedEffect DEF Leave, Types
      <3>2. rows[o] \in Int
        BY <2>1 DEF Types, StoreType, None
      <3> QED
        BY <3>1, <3>2
    <2>3. rows'[o] \in Int
      BY <2>1, <2>2 DEF None
    <2>4. UNCHANGED <<base, saved, slot, cycle, run>>
      BY <1>4 DEF Leave, serverVars, readVars
    <2>5. idle' = idle
      BY <1>4 DEF Leave
    <2> QED
      BY <2>2, <2>3, <2>4, <2>5, StoreMoves
  <1>5. CASE JoinCreated
    <2> SUFFICES ASSUME NEW o \in Bridges PROVE StoreOf(o)'
      BY DEF StoreInv
    <2>1. UNCHANGED <<rows, base, saved, member, idle>> /\ busy.at = "create"
      BY <1>5 DEF JoinCreated, At, pipeVars, streamVars
    <2>2. slot = None /\ StoreOf(o)
      BY <2>1 DEF StoreInv, QueueInv
    <2> QED
      BY <2>1, <2>2 DEF StoreOf
  <1>6. CASE JoinHold
    <2> SUFFICES ASSUME NEW o \in Bridges PROVE StoreOf(o)'
      BY DEF StoreInv
    <2>0. /\ busy.at = "hold" /\ busy.bridge \in Bridges
          /\ UNCHANGED <<base, saved, member, slot, cycle, run>> /\ idle' = rows'
      BY <1>6 DEF JoinHold, At, QueueInv, RefreshIdle, serverVars, pipeVars, readVars
    <2>1. PICK n \in Nat : n = Len(wal)
      BY WalLength DEF Types
    <2>2. rows'[busy.bridge] = slot /\ \A i \in Bridges : i # busy.bridge => rows'[i] = rows[i]
      BY <1>6, <2>0 DEF JoinHold, Types, StoreType
    <2>3. slot \in None .. n /\ rows[o] \in None .. n /\ StoreOf(o)
      BY <2>1 DEF StoreInv, Types, StoreType
    <2>4. CASE o # busy.bridge
      BY <2>0, <2>2, <2>3, <2>4 DEF StoreOf, None
    <2>5. CASE o = busy.bridge
      <3>1. base[o] = NoBase /\ slot # None
        BY <2>0, <2>5 DEF QueueInv, Joining
      <3> QED
        BY <2>0, <2>2, <2>3, <2>5, <3>1 DEF StoreOf, None
    <2> QED
      BY <2>4, <2>5
  <1>7. CASE JoinGivesUp
    <2> SUFFICES ASSUME NEW o \in Bridges PROVE StoreOf(o)'
      BY DEF StoreInv
    <2>0. /\ busy.at \in {"publish", "barrier", "take"} /\ busy.bridge \in Bridges
          /\ UNCHANGED <<base, saved, member, slot, cycle, run>> /\ idle' = rows'
      BY <1>7, GivesUpEffect DEF QueueInv
    <2>1. PICK n \in Nat : n = Len(wal)
      BY WalLength DEF Types
    <2>2. /\ rows'[busy.bridge] \in {None, rows[busy.bridge]}
          /\ \A i \in Bridges : i # busy.bridge => rows'[i] = rows[i]
      BY <1>7, <2>0, GivesUpEffect DEF Types, StoreType
    <2>3. slot \in None .. n /\ rows[o] \in None .. n /\ StoreOf(o)
      BY <2>1 DEF StoreInv, Types, StoreType
    <2>4. CASE o # busy.bridge
      BY <2>0, <2>2, <2>3, <2>4 DEF StoreOf, None
    <2>5. CASE o = busy.bridge
      <3>1. base[o] = NoBase
        BY <2>0, <2>5 DEF QueueInv, Joining
      <3> QED
        BY <2>0, <2>2, <2>3, <2>5, <3>1 DEF StoreOf, None
    <2> QED
      BY <2>4, <2>5
  <1>8. CASE JoinTake
    <2> SUFFICES ASSUME NEW o \in Bridges PROVE StoreOf(o)'
      BY DEF StoreInv
    <2>0. /\ busy.at = "take" /\ busy.bridge \in Bridges
          /\ UNCHANGED <<base, saved, member, slot, cycle, run>> /\ idle' = rows'
      BY <1>8 DEF JoinTake, At, QueueInv, RefreshIdle, serverVars, pipeVars, readVars
    <2>1. PICK n \in Nat : n = Len(wal)
      BY WalLength DEF Types
    <2>2. rows'[busy.bridge] = Len(wal) /\ \A i \in Bridges : i # busy.bridge => rows'[i] = rows[i]
      BY <1>8, <2>0 DEF JoinTake, Types, StoreType
    <2>3. slot \in None .. n /\ rows[o] \in None .. n /\ StoreOf(o)
      BY <2>1 DEF StoreInv, Types, StoreType
    <2>4. CASE o # busy.bridge
      BY <2>0, <2>2, <2>3, <2>4 DEF StoreOf, None
    <2>5. CASE o = busy.bridge
      <3>1. base[o] = NoBase /\ rows[o] # None
        BY <2>0, <2>5 DEF QueueInv, Joining
      <3> QED
        BY <2>0, <2>1, <2>2, <2>3, <2>5, <3>1 DEF StoreOf, None
    <2> QED
      BY <2>4, <2>5
  <1>9. CASE Restart
    <2> SUFFICES ASSUME NEW o \in Bridges PROVE StoreOf(o)'
      BY DEF StoreInv
    <2>1. UNCHANGED <<rows, base, saved, member, slot>> /\ idle' = rows
      BY <1>9 DEF Restart, serverVars, pipeVars
    <2>2. rows[o] \in Int
      BY WalLength DEF Types, StoreType, None
    <2> QED
      BY <2>1, <2>2, StoreMoves
  <1>10. CASE RemoveEnds
    <2> SUFFICES ASSUME NEW o \in Bridges PROVE StoreOf(o)'
      BY DEF StoreInv
    <2>1. UNCHANGED <<rows, base, saved, member, slot>> /\ idle' = rows
      BY <1>10, RemoveEndsEffect
    <2>2. rows[o] \in Int
      BY WalLength DEF Types, StoreType, None
    <2> QED
      BY <2>1, <2>2, StoreMoves
  <1>11. CASE Closed
    <2> SUFFICES ASSUME NEW o \in Bridges PROVE StoreOf(o)'
      BY DEF StoreInv
    <2>1. UNCHANGED <<rows, base, saved, member, slot, idle, cycle, run>>
      BY <1>11, ClosedEffect
    <2> QED
      BY <2>1, StoreFrame
  <1>12. CASE LeaveDelete
    <2> SUFFICES ASSUME NEW o \in Bridges PROVE StoreOf(o)'
      BY DEF StoreInv
    <2>0. /\ busy.at = "delete" /\ busy.bridge \in Bridges
          /\ UNCHANGED <<member, slot, cycle, run>> /\ idle' = rows'
      BY <1>12 DEF LeaveDelete, At, QueueInv, RefreshIdle, serverVars, readVars
    <2>1. /\ rows'[busy.bridge] = None /\ base'[busy.bridge] = NoBase /\ saved'[busy.bridge] = None
          /\ \A i \in Bridges : i # busy.bridge =>
                rows'[i] = rows[i] /\ base'[i] = base[i] /\ saved'[i] = saved[i]
      BY <1>12, <2>0 DEF LeaveDelete, Types, StoreType, PipeType
    <2>2. ~member[busy.bridge].on
      BY <2>0 DEF QueueInv
    <2>3. CASE o # busy.bridge
      <3>1. rows[o] \in Int
        BY WalLength DEF Types, StoreType, None
      <3> QED
        BY <2>0, <2>1, <2>3, <3>1, StoreMoves
    <2>4. CASE o = busy.bridge
      BY <2>0, <2>1, <2>2, <2>4 DEF StoreOf
    <2> QED
      BY <2>3, <2>4
  <1>13. CASE LeaveUnpublish
    <2> SUFFICES ASSUME NEW o \in Bridges PROVE StoreOf(o)'
      BY DEF StoreInv
    <2>1. /\ UNCHANGED <<rows, base, saved, member, slot, idle>>
          /\ cycle' = cycle \/ cycle' = FALSE
          /\ run' = run \/ run' = (IF run.at = "read" THEN Looping ELSE run)
      BY <1>13, LeaveUnpublishEffect
    <2>2. cycle' \/ run'.at # "off" => cycle \/ run.at # "off"
      BY <2>1
    <2> QED
      BY <2>1, <2>2, StoreFrame
  <1>14. CASE LeaveLast
    <2> SUFFICES ASSUME NEW o \in Bridges PROVE StoreOf(o)'
      BY DEF StoreInv
    <2>1. UNCHANGED <<rows, base, saved, member, idle>> /\ busy.at = "last"
      BY <1>14 DEF LeaveLast, At, pipeVars
    <2>2. rows[o] = None /\ StoreOf(o)
      BY <2>1 DEF StoreInv, QueueInv
    <2> QED
      BY <2>1, <2>2 DEF StoreOf
  <1>15. CASE Cycle
    <2> SUFFICES ASSUME NEW o \in Bridges PROVE StoreOf(o)'
      BY DEF StoreInv
    <2>1. /\ UNCHANGED <<rows, base, saved, member, slot, idle>>
          /\ cycle' \/ run'.at # "off" => cycle \/ run.at # "off"
      BY <1>15 DEF Cycle, sourceVars, serverVars, pipeVars, queueVars
    <2> QED
      BY <2>1, StoreFrame
  <1>16. CASE RunLoop
    <2> SUFFICES ASSUME NEW o \in Bridges PROVE StoreOf(o)'
      BY DEF StoreInv
    <2>1. /\ UNCHANGED <<rows, base, saved, member, slot, idle>>
          /\ cycle' \/ run'.at # "off" => cycle \/ run.at # "off"
      BY <1>16 DEF RunLoop, sourceVars, serverVars, pipeVars, streamVars, queueVars
    <2> QED
      BY <2>1, StoreFrame
  <1>17. CASE Subscribe
    <2> SUFFICES ASSUME NEW o \in Bridges PROVE StoreOf(o)'
      BY DEF StoreInv
    <2>1. /\ UNCHANGED <<rows, base, saved, member, slot, idle>>
          /\ cycle' \/ run'.at # "off" => cycle \/ run.at # "off"
      BY <1>17 DEF Subscribe, sourceVars, serverVars, pipeVars, streamVars, queueVars
    <2> QED
      BY <2>1, StoreFrame
  <1>18. CASE ReaderEnds
    <2> SUFFICES ASSUME NEW o \in Bridges PROVE StoreOf(o)'
      BY DEF StoreInv
    <2>1. /\ UNCHANGED <<rows, base, saved, member, slot, idle>>
          /\ cycle' \/ run'.at # "off" => cycle \/ run.at # "off"
      BY <1>18 DEF ReaderEnds, sourceVars, serverVars, pipeVars, streamVars, queueVars
    <2> QED
      BY <2>1, StoreFrame
  <1>19. CASE Read
    <2> SUFFICES ASSUME NEW o \in Bridges PROVE StoreOf(o)'
      BY DEF StoreInv
    <2>1. UNCHANGED <<rows, base, saved, member, slot, idle, cycle>>
      BY <1>19 DEF Read, serverVars, pipeVars, streamVars
    <2>2. run.at = "read"
      BY <1>19 DEF Read, Reading
    <2> QED
      BY <2>1, <2>2, StoreFrame
  <1>20. CASE Heartbeat
    <2> SUFFICES ASSUME NEW o \in Bridges PROVE StoreOf(o)'
      BY DEF StoreInv
    <2>1. PICK n \in Nat : n = Len(wal)
      BY WalLength DEF Types
    <2>2. member'[o].on = member[o].on
      BY <1>20, <2>1, HeartbeatEffect DEF Types
    <2>3. UNCHANGED <<rows, base, saved, idle, cycle, run>>
      BY <1>20 DEF Heartbeat, pipeVars, readVars
    <2>4. /\ slot' \in None .. n
          /\ \/ slot' = slot
             \/ run.at = "read" /\ (~member'[o].on /\ idle[o] # None => slot' <= idle[o])
      BY <1>20, <2>1, SlotMoves DEF Types
    <2>5. slot' \in Int /\ (slot' = None <=> slot = None)
      BY <1>20, <2>1, <2>4, SlotStays DEF None
    <2> QED
      BY <2>2, <2>3, <2>4, <2>5, StoreConfirms
  <1>21. ASSUME NEW b \in Bridges, HandTo(b) PROVE StoreInv'
    <2> SUFFICES ASSUME NEW o \in Bridges PROVE StoreOf(o)'
      BY DEF StoreInv
    <2>1. UNCHANGED <<rows, base, saved, slot, idle, cycle, run>> /\ member'[o].on = member[o].on
      BY <1>21, HandToEffect
    <2> QED
      BY <2>1, StoreFrame
  <1>22. ASSUME NEW b \in Bridges, HandThrows(b) PROVE StoreInv'
    <2> SUFFICES ASSUME NEW o \in Bridges PROVE StoreOf(o)'
      BY DEF StoreInv
    <2>1. PICK n \in Nat : n = Len(wal)
      BY WalLength DEF Types
    <2>2. /\ rows'[o] \in None .. n /\ rows[o] <= rows'[o] /\ (rows'[o] = None <=> rows[o] = None)
          /\ member'[o].on => member[o].on
      <3>1. /\ rows' \in [Bridges -> None .. n] /\ rows[b] <= rows'[b] /\ (rows'[b] = None <=> rows[b] = None)
            /\ ~member'[b].on
            /\ \A i \in Bridges : i # b => rows'[i] = rows[i] /\ member'[i] = member[i]
        BY <1>22, <2>1, RemovedEffect DEF HandThrows, Types
      <3>2. rows[o] \in Int
        BY <2>1 DEF Types, StoreType, None
      <3> QED
        BY <3>1, <3>2
    <2>3. rows'[o] \in Int
      BY <2>1, <2>2 DEF None
    <2>4. UNCHANGED <<base, saved, slot, cycle, run>>
      BY <1>22 DEF HandThrows, serverVars, readVars
    <2>5. idle' = rows'
      BY <1>22 DEF HandThrows, RefreshIdle
    <2> QED
      BY <2>2, <2>3, <2>4, <2>5, StoreMoves
  <1>23. ASSUME NEW b \in Bridges, Settle(b) PROVE StoreInv'
    <2> SUFFICES ASSUME NEW o \in Bridges PROVE StoreOf(o)'
      BY DEF StoreInv
    <2>1. PICK n \in Nat : n = Len(wal)
      BY WalLength DEF Types
    <2>2. member'[o].on = member[o].on /\ (o # b => saved'[o] = saved[o])
      <3>1. /\ member'[b].on = member[b].on /\ \A i \in Bridges : i # b => member'[i] = member[i]
            /\ saved' = [saved EXCEPT ![b] = Head(pend[b])]
        BY <1>23, <2>1, SettleEffect, Zenon DEF Types
      <3> QED
        BY <3>1 DEF Types, PipeType
    <2>3. UNCHANGED <<rows, base, idle, cycle, run>>
      BY <1>23 DEF Settle, readVars
    <2>4. /\ slot' \in None .. n
          /\ \/ slot' = slot
             \/ run.at = "read" /\ (~member'[o].on /\ idle[o] # None => slot' <= idle[o])
      BY <1>23, <2>1, SlotMoves DEF Types
    <2>5. slot' \in Int /\ (slot' = None <=> slot = None)
      BY <1>23, <2>1, <2>4, SlotStays DEF None
    <2>6. base[b] # NoBase
      BY <1>23 DEF Settle, FlightInv, FlightOf, StoreInv, StoreOf
    <2> QED
      BY <2>2, <2>3, <2>4, <2>5, <2>6, StoreConfirms
  <1>24. CASE Crash
    <2> SUFFICES ASSUME NEW o \in Bridges PROVE StoreOf(o)'
      BY DEF StoreInv
    <2>1. PICK n \in Nat : n = Len(wal)
      BY WalLength DEF Types
    <2>2. /\ UNCHANGED <<base, saved, idle, slot>> /\ rows'[o] \in Persisted(o) /\ ~member'[o].on
          /\ ~cycle' /\ run'.at = "off"
      BY <1>24 DEF Crash, serverVars, NoMember, NotRunning
    <2>3. rows[o] \in None .. n /\ (member[o].on => rows[o] # None) /\ member[o].confirmed \in 0 .. n
      BY <2>1 DEF Types, StoreType, StoreInv, StoreOf, MemberType
    <2>4. rows'[o] \in Int /\ rows[o] <= rows'[o] /\ (rows'[o] = None <=> rows[o] = None)
      BY <2>2, <2>3 DEF Persisted, None
    <2> QED
      BY <2>2, <2>4, StoreMoves
  <1> QED
    BY <1>1, <1>2, <1>3, <1>4, <1>5, <1>6, <1>7, <1>8, <1>9, <1>10, <1>11, <1>12, <1>13, <1>14,
       <1>15, <1>16, <1>17, <1>18, <1>19, <1>20, <1>21, <1>22, <1>23, <1>24
      DEF Next

(* the reader, and what it has in hand *)
LEMMA ReaderKept ==
  ASSUME Types, QueueInv, StoreInv, ReaderInv, [Next]_vars
  PROVE  ReaderInv'
  <1>1. CASE \/ UNCHANGED vars
             \/ \E x \in Txns : EndTxn(x)
             \/ \E x \in Txns, k \in Tables : Touch(x, k)
             \/ \E b \in Bridges : Join(b) \/ Rejoin(b) \/ Open(b) \/ Stop(b) \/ Leave(b)
                 \/ LeaveAgain(b)
             \/ JoinHold \/ JoinPublish \/ JoinBarrier \/ JoinGivesUp \/ JoinTake \/ LeaveDelete
    <2>1. UNCHANGED <<cycle, run, slot, gen, handing>>
      BY <1>1 DEF vars, sourceVars, serverVars, pipeVars, streamVars, readVars, queueVars,
             EndTxn, Touch, Join, Rejoin, Open, Stop, Leave, LeaveAgain, JoinHold, JoinPublish,
             JoinBarrier, JoinGivesUp, JoinTake, LeaveDelete
    <2> QED
      BY <2>1 DEF ReaderInv
  <1>2. CASE JoinCreated
    <2>1. slot' # None /\ UNCHANGED <<cycle, run, gen, handing>>
      BY <1>2, WalLength DEF JoinCreated, streamVars, readVars, Types, None
    <2> QED
      BY <2>1 DEF ReaderInv
  <1>3. CASE Restart
    <2>1. busy.at = "adding" /\ gen' = gen + 1 /\ UNCHANGED <<run, slot, handing>>
      BY <1>3 DEF Restart, At, serverVars, readVars
    <2>2. slot # None
      BY <2>1 DEF QueueInv, StoreInv, StoreOf
    <2> QED
      BY <2>1, <2>2 DEF ReaderInv, Types, RunType, MemberType
  <1>4. CASE RemoveEnds
    <2>1. UNCHANGED <<slot, handing>>
      BY <1>4, RemoveEndsEffect
    <2>2. CASE UNCHANGED <<gen, cycle, run>>
      BY <2>1, <2>2 DEF ReaderInv
    <2>3. CASE gen' = gen + 1 /\ cycle' = FALSE /\ run' = (IF run.at = "read" THEN Looping ELSE run)
      BY <2>1, <2>3 DEF ReaderInv, Types, RunType, MemberType, Looping
    <2> QED
      BY <1>4, <2>2, <2>3, RemoveEndsEffect
  <1>5. CASE Closed
    <2>1. run.at = "off" /\ handing' = NoWork /\ UNCHANGED <<slot, cycle, run>>
      BY <1>5, ClosedEffect
    <2> QED
      BY <2>1 DEF ReaderInv
  <1>6. CASE LeaveUnpublish
    <2>1. UNCHANGED <<slot, handing>>
      BY <1>6, LeaveUnpublishEffect
    <2>2. CASE UNCHANGED <<gen, cycle, run>>
      BY <2>1, <2>2 DEF ReaderInv
    <2>3. CASE gen' = gen + 1 /\ cycle' = FALSE /\ run' = (IF run.at = "read" THEN Looping ELSE run)
      BY <2>1, <2>3 DEF ReaderInv, Types, RunType, MemberType, Looping
    <2> QED
      BY <1>6, <2>2, <2>3, LeaveUnpublishEffect
  <1>7. CASE LeaveLast
    <2>1. run.at = "off" /\ handing' = NoWork /\ UNCHANGED <<cycle, run>> /\ busy.at = "last"
      BY <1>7 DEF LeaveLast, At
    <2> QED
      BY <2>1 DEF ReaderInv, QueueInv
  <1>8. CASE Cycle
    <2>1. cycle /\ cycle' = FALSE /\ UNCHANGED <<slot, gen, handing>>
      BY <1>8 DEF Cycle, serverVars
    <2>2. run' = Looping \/ run' = run
      BY <1>8 DEF Cycle
    <2> QED
      BY <2>1, <2>2 DEF ReaderInv, Looping
  <1>9. CASE RunLoop
    BY <1>9 DEF RunLoop, sourceVars, serverVars, pipeVars, streamVars, queueVars, ReaderInv,
           Types, RunType, MemberType, NotRunning
  <1>10. CASE Subscribe
    BY <1>10 DEF Subscribe, sourceVars, serverVars, pipeVars, streamVars, queueVars, ReaderInv,
           Types, RunType, MemberType
  <1>11. CASE ReaderEnds
    BY <1>11 DEF ReaderEnds, sourceVars, serverVars, pipeVars, streamVars, queueVars, ReaderInv,
           Types, RunType, MemberType, Looping
  <1>12. CASE Read
    <2>1. PICK n \in Nat : n = Len(wal)
      BY WalLength DEF Types
    <2>2. run.at = "read" /\ run.gen = gen
      BY <1>12 DEF Read, Reading
    <2>3. PICK c \in 1 .. EndCursor(n), S \in SUBSET Running :
            /\ run' = [run EXCEPT !.pos = c]
            /\ handing' = IF S = {} THEN NoWork ELSE [cursor |-> c, gen |-> run.gen, todo |-> S]
      BY <1>12, <2>1, ReadEffect
    <2>4. UNCHANGED <<cycle, slot, gen>>
      BY <1>12 DEF Read, serverVars, streamVars
    <2>5. run'.at = "read" /\ run'.gen = gen /\ (handing' # NoWork => handing'.gen = gen)
      BY <2>2, <2>3 DEF Types, RunType
    <2> QED
      BY <2>2, <2>4, <2>5 DEF ReaderInv, Types, MemberType
  <1>13. CASE Heartbeat
    <2>1. slot' = None <=> slot = None
      BY <1>13, SlotStays
    <2> QED
      BY <1>13, <2>1 DEF Heartbeat, ReaderInv, readVars
  <1>14. ASSUME NEW b \in Bridges, HandTo(b) PROVE ReaderInv'
    <2>1. b \in handing.todo /\ Done(b)
      BY <1>14 DEF HandTo
    <2>2. handing # NoWork /\ (handing' # NoWork => handing'.gen = handing.gen)
      BY <2>1, DoneEffect
    <2>3. UNCHANGED <<cycle, run, slot, gen>>
      BY <1>14 DEF HandTo, serverVars
    <2> QED
      BY <2>2, <2>3 DEF ReaderInv
  <1>15. ASSUME NEW b \in Bridges, HandThrows(b) PROVE ReaderInv'
    <2>1. b \in handing.todo /\ Done(b)
      BY <1>15 DEF HandThrows
    <2>2. handing # NoWork /\ (handing' # NoWork => handing'.gen = handing.gen)
      BY <2>1, DoneEffect
    <2>3. UNCHANGED <<cycle, run, slot, gen>>
      BY <1>15 DEF HandThrows, serverVars
    <2> QED
      BY <2>2, <2>3 DEF ReaderInv
  <1>16. ASSUME NEW b \in Bridges, Settle(b) PROVE ReaderInv'
    <2>1. slot' = None <=> slot = None
      BY <1>16, SlotStays
    <2>2. UNCHANGED <<cycle, run, gen, handing>>
      BY <1>16 DEF Settle, readVars
    <2> QED
      BY <2>1, <2>2 DEF ReaderInv
  <1>17. CASE Crash
    BY <1>17 DEF Crash, sourceVars, serverVars, ReaderInv, Types, RunType, MemberType,
           NotRunning
  <1> QED
    BY <1>1, <1>2, <1>3, <1>4, <1>5, <1>6, <1>7, <1>8, <1>9, <1>10, <1>11, <1>12, <1>13, <1>14,
       <1>15, <1>16, <1>17 DEF Next

-----------------------------------------------------------------------------
(* what a member has in flight *)

(* One more, beyond all there are. *)
LEMMA AppendOrdered ==
  ASSUME NEW p \in Seq(Int), NEW c \in Int, NEW h \in Int, h < c,
         \A i \in DOMAIN p : p[i] <= h /\ \A j \in DOMAIN p : j < i => p[j] < p[i]
  PROVE  \A i \in DOMAIN Append(p, c) :
           /\ Append(p, c)[i] <= c
           /\ Append(p, c)[i] = c \/ \E j \in DOMAIN p : p[j] = Append(p, c)[i]
           /\ \A j \in DOMAIN Append(p, c) : j < i => Append(p, c)[j] < Append(p, c)[i]
  <1>1. PICK q : q = Append(p, c)
    OBVIOUS
  <1>2. Len(p) \in Nat /\ DOMAIN p = 1 .. Len(p) /\ DOMAIN q = 1 .. Len(p) + 1
    BY <1>1
  <1>3. q[Len(p) + 1] = c /\ \A i \in 1 .. Len(p) : q[i] = p[i] /\ p[i] \in Int
    BY <1>1
  <1>4. \A i \in DOMAIN q : q[i] <= c /\ (q[i] = c \/ \E j \in DOMAIN p : p[j] = q[i])
    BY <1>2, <1>3
  <1>5. ASSUME NEW i \in DOMAIN q, NEW j \in DOMAIN q, j < i PROVE q[j] < q[i]
    <2>1. j \in 1 .. Len(p)
      BY <1>2, <1>5
    <2>2. q[j] = p[j] /\ p[j] \in Int /\ p[j] <= h
      BY <1>2, <1>3, <2>1
    <2>3. CASE i = Len(p) + 1
      BY <1>3, <2>2, <2>3
    <2>4. CASE i # Len(p) + 1
      <3>1. i \in 1 .. Len(p)
        BY <1>2, <2>4
      <3> QED
        BY <1>2, <1>3, <1>5, <2>1, <2>2, <3>1
    <2> QED
      BY <2>3, <2>4
  <1> QED
    BY <1>1, <1>4, <1>5, Zenon

(* One less: the first, which is before all others. *)
LEMMA TailOrdered ==
  ASSUME NEW p \in Seq(Int), p # <<>>,
         \A i \in DOMAIN p : \A j \in DOMAIN p : j < i => p[j] < p[i]
  PROVE  /\ \A i \in DOMAIN Tail(p) :
              /\ Tail(p)[i] > Head(p) /\ \E k \in DOMAIN p : p[k] = Tail(p)[i]
              /\ \A j \in DOMAIN Tail(p) : j < i => Tail(p)[j] < Tail(p)[i]
         /\ \A i \in DOMAIN p : p[i] = Head(p) \/ \E j \in DOMAIN Tail(p) : Tail(p)[j] = p[i]
  <1>1. PICK q : q = Tail(p)
    OBVIOUS
  <1>2. Len(p) \in Nat /\ Len(p) >= 1 /\ DOMAIN p = 1 .. Len(p) /\ DOMAIN q = 1 .. Len(p) - 1 /\ Head(p) = p[1]
    BY <1>1
  <1>3. \A i \in 1 .. Len(p) - 1 : q[i] = p[i + 1]
    BY <1>1
  <1>4. \A i \in DOMAIN p : p[i] \in Int
    OBVIOUS
  <1>5. \A i \in DOMAIN q : q[i] > Head(p) /\ \E k \in DOMAIN p : p[k] = q[i]
    BY <1>2, <1>3, <1>4, SMTT(30)
  <1>6. ASSUME NEW i \in DOMAIN q, NEW j \in DOMAIN q, j < i PROVE q[j] < q[i]
    <2>1. i + 1 \in DOMAIN p /\ j + 1 \in DOMAIN p /\ j + 1 < i + 1
      BY <1>2, <1>6
    <2>2. q[i] = p[i + 1] /\ q[j] = p[j + 1]
      BY <1>2, <1>3
    <2> QED
      BY <2>1, <2>2
  <1>7. \A i \in DOMAIN p : p[i] = Head(p) \/ \E j \in DOMAIN q : q[j] = p[i]
    <2> SUFFICES ASSUME NEW i \in DOMAIN p, i # 1 PROVE i - 1 \in DOMAIN q /\ q[i - 1] = p[i]
      BY <1>2
    <2> QED
      BY <1>2, <1>3
  <1> QED
    BY <1>1, <1>5, <1>6, <1>7, Zenon

(* A bridge whose flight no step touches keeps it in order. *)
LEMMA FlightFrame ==
  ASSUME FlightInv, NEW b \in Bridges, pend'[b] = pend[b], saved'[b] = saved[b],
         member'[b].on = member[b].on, member'[b].highest = member[b].highest,
         member'[b].acked = member[b].acked
  PROVE  FlightOf(b)'
  BY DEF FlightInv, FlightOf

(* A bridge that is taken off has nothing in flight. *)
LEMMA FlightEmpty ==
  ASSUME NEW b \in Bridges, pend'[b] = <<>>, ~member'[b].on
  PROVE  FlightOf(b)'
  BY DEF FlightOf

(* A sequence over a set of integers is one of integers. *)
LEMMA SeqOfInts ==
  ASSUME NEW S, S \subseteq Int, NEW p \in Seq(S)
  PROVE  p \in Seq(Int)
  <1>1. \A i \in 1 .. Len(p) : p[i] \in S
    OBVIOUS
  <1>2. \A i \in 1 .. Len(p) : p[i] \in Int
    BY <1>1, Zenon
  <1> QED
    BY <1>2

(* The first change of one bridge is settled; the others keep theirs. *)
LEMMA PendTail ==
  ASSUME NEW S, NEW f \in [Bridges -> S], NEW g, NEW b \in Bridges, g = [f EXCEPT ![b] = Tail(@)]
  PROVE  g[b] = Tail(f[b]) /\ \A o \in Bridges : o # b => g[o] = f[o]
  OBVIOUS

(* Every step keeps what is in flight in order, ahead of what is saved. *)
LEMMA FlightKept ==
  ASSUME Types, QueueInv, StoreInv, ReaderInv, FlightInv, [Next]_vars
  PROVE  FlightInv'
  <1>1. CASE \/ UNCHANGED vars
             \/ \E x \in Txns : EndTxn(x)
             \/ \E x \in Txns, k \in Tables : Touch(x, k)
             \/ \E b \in Bridges : Join(b) \/ Rejoin(b) \/ LeaveAgain(b)
             \/ JoinCreated \/ JoinHold \/ JoinPublish \/ JoinBarrier \/ JoinGivesUp \/ JoinTake
                 \/ Restart \/ RemoveEnds \/ Closed \/ LeaveUnpublish \/ LeaveLast \/ Cycle
                 \/ RunLoop \/ Subscribe \/ ReaderEnds \/ Read
    <2>1. UNCHANGED <<pend, saved, member>>
      BY <1>1 DEF vars, sourceVars, serverVars, pipeVars, streamVars, readVars, queueVars,
             EndTxn, Touch, Join, Rejoin, LeaveAgain, JoinCreated, JoinHold, JoinPublish,
             JoinBarrier, JoinGivesUp, JoinTake, Restart, RemoveEnds, Closed, LeaveUnpublish,
             LeaveLast, Cycle, RunLoop, Subscribe, ReaderEnds, Read
    <2> QED
      BY <2>1 DEF FlightInv, FlightOf
  <1>2. ASSUME NEW b \in Bridges, Open(b) PROVE FlightInv'
    <2> SUFFICES ASSUME NEW o \in Bridges PROVE FlightOf(o)'
      BY DEF FlightInv
    <2>1. pend' = pend /\ saved' = saved /\ ~member[b].on /\ rows[b] # None
      BY <1>2 DEF Open
    <2>2. PICK n \in Nat : n = Len(wal)
      BY WalLength DEF Types
    <2>3. PICK had : had = IF saved[b] = None THEN EndCursor(rows[b]) ELSE saved[b]
      OBVIOUS
    <2>4. /\ member' = [member EXCEPT ![b] = [on |-> TRUE, since |-> gen + 1, highest |-> had,
                                             acked |-> had, confirmed |-> rows[b]]]
      BY <1>2, <2>3 DEF Open
    <2>5. member'[b].highest = had /\ member'[b].acked = had /\ \A i \in Bridges : i # b => member'[i] = member[i]
      BY <2>4 DEF Types, MemberType
    <2>6. CASE o # b
      BY <2>1, <2>5, <2>6, FlightFrame
    <2>7. CASE o = b
      <3>1. pend[b] = <<>>
        BY <2>1 DEF FlightInv, FlightOf
      <3>2. saved[b] \in None .. EndCursor(n) /\ EndCursor(n) \in Int /\ rows[b] \in 0 .. n
        <4>1. EndCursor(n) \in Int
          BY EndOrder
        <4>2. rows[b] \in 0 .. n
          BY <2>1, <2>2 DEF Types, StoreType, None
        <4> QED
          BY <2>2, <4>1, <4>2 DEF Types, PipeType
      <3>3. EndCursor(rows[b]) \in Int /\ EndCursor(rows[b]) >= 0
        BY <3>2, EndOrder
      <3>4. had \in Int /\ saved[b] <= had
        BY <2>3, <3>2, <3>3 DEF None
      <3>5. pend'[b] = <<>> /\ saved'[b] <= had /\ had <= had
        BY <2>1, <3>1, <3>4
      <3> QED
        BY <2>5, <2>7, <3>5 DEF FlightOf
    <2> QED
      BY <2>6, <2>7
  <1>3. ASSUME NEW b \in Bridges, Stop(b) PROVE FlightInv'
    <2> SUFFICES ASSUME NEW o \in Bridges PROVE FlightOf(o)'
      BY DEF FlightInv
    <2>1. PICK n \in Nat : n = Len(wal)
      BY WalLength DEF Types
    <2>2. /\ ~member'[b].on /\ pend'[b] = <<>>
          /\ \A i \in Bridges : i # b => member'[i] = member[i] /\ pend'[i] = pend[i]
      BY <1>3, <2>1, RemovedEffect DEF Stop, Types
    <2>3. saved' = saved
      BY <1>3 DEF Stop
    <2>4. CASE o = b
      BY <2>2, <2>4, FlightEmpty
    <2>5. CASE o # b
      BY <2>2, <2>3, <2>5, FlightFrame
    <2> QED
      BY <2>4, <2>5
  <1>4. ASSUME NEW b \in Bridges, Leave(b) PROVE FlightInv'
    <2> SUFFICES ASSUME NEW o \in Bridges PROVE FlightOf(o)'
      BY DEF FlightInv
    <2>1. PICK n \in Nat : n = Len(wal)
      BY WalLength DEF Types
    <2>2. /\ ~member'[b].on /\ pend'[b] = <<>>
          /\ \A i \in Bridges : i # b => member'[i] = member[i] /\ pend'[i] = pend[i]
      BY <1>4, <2>1, RemovedEffect DEF Leave, Types
    <2>3. saved' = saved
      BY <1>4 DEF Leave
    <2>4. CASE o = b
      BY <2>2, <2>4, FlightEmpty
    <2>5. CASE o # b
      BY <2>2, <2>3, <2>5, FlightFrame
    <2> QED
      BY <2>4, <2>5
  <1>5. CASE LeaveDelete
    <2> SUFFICES ASSUME NEW o \in Bridges PROVE FlightOf(o)'
      BY DEF FlightInv
    <2>1. pend' = pend /\ member' = member /\ busy.at = "delete"
      BY <1>5 DEF LeaveDelete, At
    <2>2. busy.bridge \in Bridges /\ ~member[busy.bridge].on
      BY <2>1 DEF QueueInv
    <2>3. CASE o # busy.bridge
      <3>1. saved'[o] = saved[o]
        BY <1>5, <2>3 DEF LeaveDelete, Types, PipeType
      <3> QED
        BY <2>1, <3>1, FlightFrame
    <2>4. CASE o = busy.bridge
      <3>1. pend[o] = <<>>
        BY <2>2, <2>4 DEF FlightInv, FlightOf
      <3> QED
        BY <2>1, <2>2, <2>4, <3>1, FlightEmpty
    <2> QED
      BY <2>3, <2>4
  <1>6. CASE Heartbeat
    <2> SUFFICES ASSUME NEW o \in Bridges PROVE FlightOf(o)'
      BY DEF FlightInv
    <2>1. PICK n \in Nat : n = Len(wal)
      BY WalLength DEF Types
    <2>2. member'[o].on = member[o].on /\ member'[o].highest = member[o].highest /\ member'[o].acked = member[o].acked
      BY <1>6, <2>1, HeartbeatEffect DEF Types
    <2>3. pend' = pend /\ saved' = saved
      BY <1>6 DEF Heartbeat, pipeVars
    <2> QED
      BY <2>2, <2>3, FlightFrame
  <1>7. ASSUME NEW b \in Bridges, HandTo(b) PROVE FlightInv'
    <2> SUFFICES ASSUME NEW o \in Bridges PROVE FlightOf(o)'
      BY DEF FlightInv
    <2>1. CASE o # b \/ ~Takes(b)
      <3>1. member'[o] = member[o] /\ pend'[o] = pend[o] /\ saved' = saved
        BY <1>7, <2>1, HandToEffect
      <3> QED
        BY <3>1, FlightFrame
    <2>2. CASE o = b /\ Takes(b)
      <3>1. PICK n \in Nat : n = Len(wal)
        BY WalLength DEF Types
      <3>2. PICK p : p = pend[b]
        OBVIOUS
      <3>3. PICK c : c = handing.cursor
        OBVIOUS
      <3>4. PICK h : h = member[b].highest
        OBVIOUS
      <3>5. /\ member'[b].on = member[b].on /\ member'[b].acked = member[b].acked
            /\ member'[b].highest = c /\ pend'[b] = Append(p, c) /\ saved' = saved
        BY <1>7, <2>2, <3>2, <3>3, HandToEffect, Zenon
      <3>6. member[b].on /\ h < c
        BY <2>2, <3>3, <3>4 DEF Takes
      <3>7. h \in Int /\ c \in Int /\ member[b].acked \in Int /\ saved[b] \in Int
        <4>1. EndCursor(n) \in Int
          BY EndOrder
        <4>2. h \in Int /\ member[b].acked \in Int
          BY <3>1, <3>4, <4>1 DEF Types, MemberType
        <4>3. c \in Int
          BY <3>1, <3>3, <4>1 DEF Types, RunType
        <4>4. saved[b] \in Int
          BY <3>1, <4>1 DEF Types, PipeType, None
        <4> QED
          BY <4>2, <4>3, <4>4
      <3>8. p \in Seq(Int)
        <4>1. p \in Seq(1 .. EndCursor(n))
          BY <3>1, <3>2 DEF Types, PipeType
        <4>2. 1 .. EndCursor(n) \subseteq Int
          OBVIOUS
        <4> QED
          BY <4>1, <4>2, SeqOfInts
      <3>9. /\ saved[b] <= h /\ member[b].acked <= h
            /\ \A i \in DOMAIN p : /\ p[i] <= h /\ p[i] > member[b].acked /\ p[i] > saved[b]
                                  /\ \A j \in DOMAIN p : j < i => p[j] < p[i]
        BY <3>2, <3>4, <3>6 DEF FlightInv, FlightOf
      <3>10. PICK q : q = Append(p, c)
        OBVIOUS
      <3>11. \A i \in DOMAIN q : /\ q[i] <= c /\ (q[i] = c \/ \E j \in DOMAIN p : p[j] = q[i])
                                 /\ \A j \in DOMAIN q : j < i => q[j] < q[i]
        <4>1. \A i \in DOMAIN p : p[i] <= h /\ \A j \in DOMAIN p : j < i => p[j] < p[i]
          BY <3>9, Zenon
        <4>2. h < c /\ h \in Int /\ c \in Int
          BY <3>6, <3>7
        <4> QED
          BY <3>8, <3>10, <4>1, <4>2, AppendOrdered, Zenon
      <3>12. \A i \in DOMAIN q : q[i] > member[b].acked /\ q[i] > saved[b]
        BY <3>6, <3>7, <3>9, <3>11
      <3>13. saved[b] <= c /\ member[b].acked <= c
        BY <3>6, <3>7, <3>9
      <3>14. pend'[b] = q
        BY <3>5, <3>10, Zenon
      <3> QED
        BY <2>2, <3>5, <3>6, <3>11, <3>12, <3>13, <3>14, Zenon DEF FlightOf
    <2> QED
      BY <2>1, <2>2
  <1>8. ASSUME NEW b \in Bridges, HandThrows(b) PROVE FlightInv'
    <2> SUFFICES ASSUME NEW o \in Bridges PROVE FlightOf(o)'
      BY DEF FlightInv
    <2>1. PICK n \in Nat : n = Len(wal)
      BY WalLength DEF Types
    <2>2. /\ ~member'[b].on /\ pend'[b] = <<>>
          /\ \A i \in Bridges : i # b => member'[i] = member[i] /\ pend'[i] = pend[i]
      BY <1>8, <2>1, RemovedEffect DEF HandThrows, Types
    <2>3. saved' = saved
      BY <1>8 DEF HandThrows
    <2>4. CASE o = b
      BY <2>2, <2>4, FlightEmpty
    <2>5. CASE o # b
      BY <2>2, <2>3, <2>5, FlightFrame
    <2> QED
      BY <2>4, <2>5
  <1>9. ASSUME NEW b \in Bridges, Settle(b) PROVE FlightInv'
    <2> SUFFICES ASSUME NEW o \in Bridges PROVE FlightOf(o)'
      BY DEF FlightInv
    <2>1. PICK n \in Nat : n = Len(wal)
      BY WalLength DEF Types
    <2>2. PICK c : c = Head(pend[b])
      OBVIOUS
    <2>3. /\ c = pend[b][1] /\ 1 \in DOMAIN pend[b] /\ c \in 1 .. EndCursor(n)
          /\ saved' = [saved EXCEPT ![b] = c]
          /\ member'[b].on = member[b].on /\ member'[b].highest = member[b].highest
          /\ member'[b].acked = (IF member[b].acked >= c THEN member[b].acked ELSE c)
          /\ \A i \in Bridges : i # b => member'[i] = member[i]
      BY <1>9, <2>1, <2>2, SettleEffect, Zenon DEF Types
    <2>4. pend' = [pend EXCEPT ![b] = Tail(@)] /\ pend[b] # <<>>
      BY <1>9 DEF Settle
    <2>5. CASE o # b
      <3>1. pend'[o] = pend[o] /\ saved'[o] = saved[o]
        BY <2>3, <2>4, <2>5 DEF Types, PipeType
      <3> QED
        BY <2>3, <2>5, <3>1, FlightFrame
    <2>6. CASE o = b
      <3>1. PICK p : p = pend[b] /\ p \in Seq(Int) /\ p # <<>>
        <4>1. pend[b] \in Seq(1 .. EndCursor(n))
          BY <2>1 DEF Types, PipeType
        <4>2. 1 .. EndCursor(n) \subseteq Int
          OBVIOUS
        <4> QED
          BY <2>4, <4>1, <4>2, SeqOfInts
      <3>2. PICK h : h = member[b].highest
        OBVIOUS
      <3>3. /\ member[b].on /\ member[b].acked < c
            /\ \A i \in DOMAIN p : p[i] <= h /\ \A j \in DOMAIN p : j < i => p[j] < p[i]
        BY <2>3, <2>4, <3>1, <3>2 DEF FlightInv, FlightOf
      <3>4. PICK q : q = Tail(p)
        OBVIOUS
      <3>5. \A i \in DOMAIN q : /\ q[i] > c /\ \E k \in DOMAIN p : p[k] = q[i]
                                /\ \A j \in DOMAIN q : j < i => q[j] < q[i]
        <4>1. \A i \in DOMAIN p : \A j \in DOMAIN p : j < i => p[j] < p[i]
          BY <3>3, Zenon
        <4>2. c = Head(p)
          BY <2>2, <3>1, Zenon
        <4> QED
          BY <3>1, <3>4, <4>1, <4>2, TailOrdered, ZenonT(60)
      <3>6. pend'[b] = q /\ saved'[b] = c
        BY <2>1, <2>3, <2>4, <3>1, <3>4, PendTail DEF Types, PipeType
      <3>7. c \in Int /\ h \in Int /\ member[b].acked \in Int /\ c <= h
        <4>1. EndCursor(n) \in Int
          BY EndOrder
        <4>2. h \in Int /\ member[b].acked \in Int
          BY <2>1, <3>2, <4>1 DEF Types, MemberType
        <4>3. c <= h
          BY <2>3, <3>1, <3>3, Zenon
        <4> QED
          BY <2>3, <4>1, <4>2, <4>3
      <3>8. member'[b].acked = c
        BY <2>3, <3>3, <3>7
      <3>9. \A i \in DOMAIN q : q[i] <= h
        BY <3>3, <3>5, Zenon
      <3> QED
        <4>1. c <= member'[b].highest /\ member'[b].acked = c /\ c <= c /\ member'[b].on
          BY <2>3, <3>2, <3>3, <3>7, <3>8
        <4>2. \A i \in DOMAIN q : /\ q[i] <= member'[b].highest /\ q[i] > c
                                  /\ \A j \in DOMAIN q : j < i => q[j] < q[i]
          BY <2>3, <3>2, <3>5, <3>9, Zenon
        <4> QED
          BY <2>6, <3>6, <4>1, <4>2, Zenon DEF FlightOf
    <2> QED
      BY <2>5, <2>6
  <1>10. CASE Crash
    <2> SUFFICES ASSUME NEW o \in Bridges PROVE FlightOf(o)'
      BY DEF FlightInv
    <2>1. pend'[o] = <<>> /\ ~member'[o].on
      BY <1>10 DEF Crash, NoMember
    <2> QED
      BY <2>1, FlightEmpty
  <1> QED
    BY <1>1, <1>2, <1>3, <1>4, <1>5, <1>6, <1>7, <1>8, <1>9, <1>10
      DEF Next

-----------------------------------------------------------------------------
(* together *)

(* Nothing has joined at the start. *)
LEMMA InitBase == Init => BaseInv
  <1> SUFFICES ASSUME Init PROVE BaseInv
    OBVIOUS
  <1>1. Len(wal) = 0 /\ EndCursor(0) \in Int /\ EndCursor(0) >= 0
    BY EndOrder DEF Init
  <1>2. Types
    <2>1. SourceType
      <3>1. NoTxn \in Txn
        BY DEF NoTxn, Txn
      <3> QED
        BY <3>1, Bounds DEF Init, SourceType
    <2>2. BusyType
      BY DEF Init, BusyType, Free
    <2>3. StoreType(Len(wal))
      BY <1>1 DEF Init, StoreType, None, NoBase
    <2>4. PipeType(Len(wal))
      BY <1>1 DEF Init, PipeType, None
    <2>5. MemberType(Len(wal))
      <3>1. NoMember \in [on : BOOLEAN, since : Nat, highest : 0 .. EndCursor(0),
                           acked : 0 .. EndCursor(0), confirmed : 0 .. 0]
        BY <1>1 DEF NoMember
      <3> QED
        BY <1>1, <3>1 DEF Init, MemberType
    <2>6. RunType(Len(wal))
      BY <1>1 DEF Init, RunType, NotRunning, NoWork
    <2> QED
      BY <2>1, <2>2, <2>3, <2>4, <2>5, <2>6 DEF Types
  <1>3. QueueInv
    BY DEF Init, QueueInv, Free, Joining
  <1>4. StoreInv
    BY DEF Init, StoreInv, StoreOf, None, NoMember, NotRunning
  <1>5. ReaderInv
    BY DEF Init, ReaderInv, NotRunning
  <1>6. FlightInv
    BY DEF Init, FlightInv, FlightOf, NoMember
  <1> QED
    BY <1>2, <1>3, <1>4, <1>5, <1>6 DEF BaseInv

(* Every step keeps the base invariant. *)
LEMMA StepBase == BaseInv /\ [Next]_vars => BaseInv'
  <1> SUFFICES ASSUME BaseInv, [Next]_vars PROVE BaseInv'
    OBVIOUS
  <1>0. Types /\ QueueInv /\ StoreInv /\ ReaderInv /\ FlightInv
    BY DEF BaseInv
  <1>1. SourceType' /\ BusyType'
    BY <1>0, SourceKept, BusyTypeKept DEF Types
  <1>2. StoreType(Len(wal))' /\ PipeType(Len(wal))' /\ MemberType(Len(wal))' /\ RunType(Len(wal))'
    BY <1>0, StoreTypeKept, PipeTypeKept, MemberTypeKept, RunTypeKept
  <1>3. QueueInv' /\ StoreInv' /\ ReaderInv' /\ FlightInv'
    BY <1>0, QueueKept, StoreKept, ReaderKept, FlightKept
  <1> QED
    BY <1>1, <1>2, <1>3 DEF BaseInv, Types

(* The base invariant holds throughout, for any bridges, tables and
   transactions, and any number of disturbances. *)
THEOREM BaseInvariant == Spec => []BaseInv
  BY InitBase, StepBase, PTL DEF Spec

(* Type correctness of the shared stream (SharedStream of
   postgres-shared-slot.ts). *)
THEOREM TypesKept == Spec => []TypeOK
  <1>1. BaseInv => TypeOK
    <2> SUFFICES ASSUME BaseInv PROVE TypeOK
      OBVIOUS
    <2>1. Types
      BY DEF BaseInv
    <2>2. PICK n \in Nat : n = Len(wal)
      BY <2>1, WalLength DEF Types
    <2>3. EndCursor(n) \in Int
      BY EndOrder
    <2>4. \A b \in Bridges : /\ member[b].on \in BOOLEAN /\ member[b].confirmed \in Lsns
                              /\ {member[b].since, member[b].highest, member[b].acked} \subseteq Nat
      BY <2>1, <2>2, <2>3 DEF Types, MemberType, Lsns, None
    <2>5. slot \in Lsns /\ {rows, idle} \subseteq [Bridges -> Lsns] /\ base \in [Bridges -> [from : Lsns, copied : Lsns]]
      BY <2>1 DEF Types, StoreType, Lsns
    <2>6. gen \in Nat /\ cycle \in BOOLEAN
      BY <2>1, Zenon DEF Types, MemberType
    <2>7. handing.todo \subseteq Bridges /\ run \in [at : {"off", "loop", "wait", "read"}, gen : Nat, pos : 0 .. EndCursor(Len(wal))]
      BY <2>1 DEF Types, RunType
    <2>8. busy.bridge \in Bridges \union {None}
      BY <2>1 DEF Types, BusyType
    <2>9. /\ saved \in [Bridges -> None .. EndCursor(Len(wal))] /\ got \in [Bridges -> SUBSET (1 .. Len(wal))]
          /\ pend \in [Bridges -> Seq(1 .. EndCursor(Len(wal)))]
      BY <2>1, Zenon DEF Types, PipeType
    <2>10. SourceType
      BY <2>1 DEF Types
    <2> QED
      BY <2>4, <2>5, <2>6, <2>7, <2>8, <2>9, <2>10, Zenon DEF TypeOK, SourceType
  <1> QED
    BY <1>1, BaseInvariant, PTL

(* What SharedStream hands a member comes in order and once, and after what the
   member has made durable, however often the stream is restarted: the proof of
   InOrderOnce from what is in flight. *)
THEOREM HandedInOrder == Spec => []InOrderOnce
  <1>1. BaseInv => InOrderOnce
    <2> SUFFICES ASSUME BaseInv, NEW b \in Bridges
                 PROVE  /\ \A i \in DOMAIN pend[b] : pend[b][i] > (IF i = 1 THEN saved[b] ELSE pend[b][i - 1])
                        /\ pend[b] # <<>> => member[b].on
      BY DEF InOrderOnce
    <2>1. FlightOf(b) /\ Types
      BY DEF BaseInv, FlightInv
    <2>2. pend[b] # <<>> => member[b].on
      BY <2>1 DEF FlightOf
    <2>3. ASSUME NEW i \in DOMAIN pend[b]
          PROVE  pend[b][i] > (IF i = 1 THEN saved[b] ELSE pend[b][i - 1])
      <3>1. PICK p : p = pend[b] /\ p \in Seq(Int)
        <4>1. 1 .. EndCursor(Len(wal)) \subseteq Int /\ pend[b] \in Seq(1 .. EndCursor(Len(wal)))
          BY <2>1 DEF Types, PipeType
        <4> QED
          BY <4>1, SeqOfInts
      <3>2. CASE i = 1
        BY <2>1, <2>3, <3>2 DEF FlightOf
      <3>3. CASE i # 1
        <4>1. i \in DOMAIN p /\ i - 1 \in DOMAIN p /\ i - 1 < i /\ p[i] \in Int /\ p[i - 1] \in Int
          BY <2>3, <3>1, <3>3
        <4>2. p[i - 1] < p[i]
          BY <2>1, <3>1, <4>1, Zenon DEF FlightOf
        <4> QED
          BY <3>1, <3>3, <4>1, <4>2
      <3> QED
        BY <3>2, <3>3
    <2> QED
      BY <2>2, <2>3
  <1> QED
    BY <1>1, BaseInvariant, PTL

-----------------------------------------------------------------------------
(***************************************************************************)
(* The proof that a member of the shared stream misses nothing.            *)
(*                                                                         *)
(* To the base invariant it adds what the publication  *)
(* holds while bridges join and leave (PubInv), that what it did not show  *)
(* was committed before the copy (HiddenInv), and that each change that    *)
(* was shown and is not had is owed (SeenInv): it lies after the slot,     *)
(* after the place the bridge holds the slot at and after its saved        *)
(* cursor, and it is in flight or still ahead of the reader and not passed *)
(* by what is being handed over.                                           *)
(***************************************************************************)

(* a bridge that has read has its table published *)
OpenedPublished ==
  \A b \in Bridges : base[b] # NoBase /\ rows[b] # None => Table[b] \in pub

(* what a published table still has hidden in open transactions, a join waits for *)
HiddenAwaited ==
  \A x \in Txns : \A k \in Tables :
    k \in pub /\ k \notin cut /\ k \in open[x].hidden =>
      busy.at = "barrier" /\ Table[busy.bridge] = k /\ x \in waits

(* a member's table is missing from the publication only while it joins, or after a cut *)
RowsPublished ==
  \A b \in Bridges : rows[b] # None =>
    \/ Table[b] \in pub \/ Table[b] \in cut
    \/ busy.at = "publish" /\ busy.bridge = b

(* a join waits at the barrier for a table that is nobody else's *)
BarrierAlone ==
  busy.at = "barrier" => \A b \in Bridges :
    b # busy.bridge /\ rows[b] # None /\ Table[b] = Table[busy.bridge] => Table[b] \in cut

(* what the publication holds, and what a join has still to wait for *)
PubInv == OpenedPublished /\ HiddenAwaited /\ RowsPublished /\ BarrierAlone

(* no transaction hides a member's table from the publication and commits after
   the copy of that table began *)
HiddenInv ==
  \A b \in Bridges : base[b] # NoBase /\ rows[b] # None =>
    \A t \in 1 .. Len(wal) :
      Table[b] \in wal[t].hidden /\ Table[b] \notin cut => t <= base[b].copied

(* the cursor of transaction t's change to the bridge's table *)
Cur(b, t) == ChangeCursor(t, Table[b])
(* a change that is published and that a bridge must be sent *)
Scope(b, t) ==
  /\ base[b] # NoBase /\ rows[b] # None
  /\ Table[b] \in wal[t].seen /\ t > base[b].from
(* it was handed to the bridge's pipeline and is not settled *)
InFlight(b, t) == \E i \in DOMAIN pend[b] : pend[b][i] = Cur(b, t)
(* where the slot may not pass for this bridge's sake *)
Place(b) == IF member[b].on THEN member[b].confirmed ELSE rows[b]
(* neither the saved cursor, nor the slot, nor the bridge's place has passed it *)
Kept(b, t) == saved[b] < Cur(b, t) /\ slot < t /\ Place(b) < t
(* what is being handed to the bridge is no later *)
NotPassed(b, t) ==
  member[b].on /\ b \in handing.todo /\ member[b].since <= handing.gen => handing.cursor <= Cur(b, t)
(* it is kept, and it is in flight or the reader will still come to it *)
Owed(b, t) == Kept(b, t) /\ (InFlight(b, t) \/ (Ahead(b, Cur(b, t)) /\ NotPassed(b, t)))

(* a change in scope was had, or is owed *)
SeenFor(b, t) == Scope(b, t) => t \in got[b] \/ Owed(b, t)

(* every change in scope of every bridge was had, or is owed *)
SeenInv == \A b \in Bridges : \A t \in 1 .. Len(wal) : SeenFor(b, t)

(* The inductive invariant of NothingMissed. *)
SharedInv == BaseInv /\ PubInv /\ HiddenInv /\ SeenInv

-----------------------------------------------------------------------------
(* publications *)

(* A step that leaves the publications and the queue alone. *)
LEMMA PubFrame ==
  ASSUME PubInv, UNCHANGED <<pub, cut, open, busy, waits>>,
         \A b \in Bridges : /\ rows'[b] # None => rows[b] # None
                            /\ base'[b] # NoBase => base[b] # NoBase
  PROVE  PubInv'
  BY DEF PubInv, OpenedPublished, HiddenAwaited, RowsPublished, BarrierAlone

(* A step of the queue that is not about a table to publish. *)
LEMMA PubQueue ==
  ASSUME PubInv, UNCHANGED <<pub, cut, open>>,
         busy.at \notin {"publish", "barrier"}, busy'.at \notin {"publish", "barrier"},
         \A b \in Bridges : /\ rows'[b] # None => rows[b] # None
                            /\ base'[b] # NoBase => base[b] # NoBase \/ Table[b] \in pub
  PROVE  PubInv'
  BY DEF PubInv, OpenedPublished, HiddenAwaited, RowsPublished, BarrierAlone

(* What a crash leaves of the rows. *)
LEMMA CrashRows ==
  ASSUME BaseInv, Crash
  PROVE  \A b \in Bridges :
           /\ rows'[b] = None <=> rows[b] = None
           /\ rows[b] <= rows'[b]
           /\ IF member[b].on THEN rows'[b] <= member[b].confirmed ELSE rows'[b] = rows[b]
  <1> SUFFICES ASSUME NEW b \in Bridges
               PROVE  /\ rows'[b] = None <=> rows[b] = None
                      /\ rows[b] <= rows'[b]
                      /\ IF member[b].on THEN rows'[b] <= member[b].confirmed ELSE rows'[b] = rows[b]
    OBVIOUS
  <1>1. PICK n \in Nat : n = Len(wal)
    BY WalLength DEF BaseInv, Types
  <1>2. rows'[b] \in Persisted(b)
    BY DEF Crash
  <1>3. rows[b] \in None .. n /\ (member[b].on => rows[b] # None) /\ member[b].confirmed \in 0 .. n
    BY <1>1 DEF BaseInv, Types, StoreType, MemberType, StoreInv, StoreOf
  <1> QED
    BY <1>2, <1>3 DEF Persisted, None

(* Every step keeps what the publication holds. *)
LEMMA PubKept ==
  ASSUME BaseInv, PubInv, [Next]_vars
  PROVE  PubInv'
  <1>1. CASE \/ UNCHANGED vars
             \/ \E b \in Bridges : HandTo(b) \/ Settle(b)
             \/ Cycle \/ RunLoop \/ Subscribe \/ ReaderEnds \/ Read \/ Heartbeat
    <2>1. UNCHANGED <<pub, cut, open, busy, waits, rows, base>>
      BY <1>1 DEF vars, sourceVars, serverVars, pipeVars, streamVars, readVars, queueVars,
             Cycle, RunLoop, Subscribe, ReaderEnds, Read, Heartbeat, HandTo, Settle
    <2> QED
      BY <2>1, PubFrame
  <1>2. ASSUME NEW x \in Txns, EndTxn(x) PROVE PubInv'
    <2>1. /\ UNCHANGED <<pub, cut, busy, rows, base>> /\ waits' = waits \ {x}
          /\ \A y \in Txns : IF y = x THEN open'[y] = NoTxn ELSE open'[y] = open[y]
      BY <1>2 DEF EndTxn, serverVars, pipeVars, BaseInv, Types, SourceType
    <2>2. NoTxn.hidden = {}
      BY DEF NoTxn
    <2>3. HiddenAwaited'
      BY <2>1, <2>2 DEF PubInv, HiddenAwaited
    <2> QED
      BY <2>1, <2>3 DEF PubInv, OpenedPublished, RowsPublished, BarrierAlone
  <1>3. ASSUME NEW x \in Txns, NEW k \in Tables, Touch(x, k) PROVE PubInv'
    <2>1. /\ UNCHANGED <<pub, cut, busy, waits, rows, base>>
          /\ \A y \in Txns : \A j \in pub : j \in open'[y].hidden => j \in open[y].hidden
      BY <1>3 DEF Touch, serverVars, pipeVars, queueVars, BaseInv, Types, SourceType, Txn
    <2>2. HiddenAwaited'
      BY <2>1 DEF PubInv, HiddenAwaited
    <2> QED
      BY <2>1, <2>2 DEF PubInv, OpenedPublished, RowsPublished, BarrierAlone
  <1>4. ASSUME NEW b \in Bridges, Join(b) PROVE PubInv'
    <2>1. UNCHANGED <<pub, cut, open, rows, base>> /\ busy.at = "free" /\ busy'.at \in {"create", "hold"}
      BY <1>4 DEF Join, At, sourceVars, serverVars, pipeVars, streamVars, readVars, Joins, BaseInv, Types, BusyType
    <2> QED
      BY <2>1, PubQueue
  <1>5. ASSUME NEW b \in Bridges, Rejoin(b) PROVE PubInv'
    <2>1. /\ UNCHANGED <<cut, open, busy, waits, rows, base>> /\ busy.at = "free"
          /\ rows[b] # None /\ Table[b] \notin pub /\ pub' = pub \union {Table[b]}
      BY <1>5 DEF Rejoin, At, sourceVars, pipeVars, queueVars
    <2>2. Table[b] \in cut
      BY <2>1 DEF PubInv, RowsPublished
    <2> QED
      BY <2>1, <2>2 DEF PubInv, OpenedPublished, HiddenAwaited, RowsPublished, BarrierAlone
  <1>6. ASSUME NEW b \in Bridges, Open(b) PROVE PubInv'
    <2>1. /\ UNCHANGED <<pub, cut, open, rows>> /\ busy.at = "free" /\ busy'.at = "adding" /\ Table[b] \in pub
          /\ \A o \in Bridges : o # b => base'[o] = base[o]
      BY <1>6 DEF Open, At, sourceVars, serverVars, BaseInv, Types, StoreType
    <2> QED
      BY <2>1, PubQueue
  <1>7. ASSUME NEW b \in Bridges, Stop(b) PROVE PubInv'
    <2>1. PICK n \in Nat : n = Len(wal)
      BY WalLength DEF BaseInv, Types
    <2>2. \A o \in Bridges : rows'[o] = None <=> rows[o] = None
      BY <1>7, <2>1, RemovedEffect DEF Stop, BaseInv, Types
    <2>3. UNCHANGED <<pub, cut, open, base>> /\ busy.at = "free" /\ busy'.at \in {"removed"}
      BY <1>7 DEF Stop, At, sourceVars, serverVars
    <2> QED
      BY <2>2, <2>3, PubQueue
  <1>8. ASSUME NEW b \in Bridges, Leave(b) PROVE PubInv'
    <2>1. PICK n \in Nat : n = Len(wal)
      BY WalLength DEF BaseInv, Types
    <2>2. \A o \in Bridges : rows'[o] = None <=> rows[o] = None
      BY <1>8, <2>1, RemovedEffect DEF Leave, BaseInv, Types
    <2>3. UNCHANGED <<pub, cut, open, base>> /\ busy.at = "free" /\ busy'.at \in {"removed", "delete"}
      BY <1>8 DEF Leave, At, sourceVars, serverVars
    <2> QED
      BY <2>2, <2>3, PubQueue
  <1>9. ASSUME NEW b \in Bridges, LeaveAgain(b) PROVE PubInv'
    <2>1. UNCHANGED <<pub, cut, open, rows, base>> /\ busy.at = "free" /\ busy'.at \in {"delete"}
      BY <1>9 DEF LeaveAgain, At, sourceVars, serverVars, pipeVars, streamVars, readVars, BaseInv, Types, BusyType
    <2> QED
      BY <2>1, PubQueue
  <1>10. CASE JoinCreated
    <2>1. UNCHANGED <<pub, cut, open, rows, base>> /\ busy.at = "create" /\ busy'.at \in {"hold"}
      BY <1>10 DEF JoinCreated, At, sourceVars, pipeVars, streamVars, readVars, Step, BaseInv, Types, BusyType
    <2> QED
      BY <2>1, PubQueue
  <1>11. CASE JoinHold
    <2>1. /\ UNCHANGED <<pub, cut, open, base>> /\ busy.at = "hold"
          /\ busy'.at = "publish" /\ busy'.bridge = busy.bridge
      BY <1>11 DEF JoinHold, At, Step, sourceVars, serverVars, pipeVars, BaseInv, Types, BusyType
    <2>2. busy.bridge \in Bridges /\ base[busy.bridge] = NoBase
      BY <2>1 DEF BaseInv, QueueInv, Joining
    <2>3. \A o \in Bridges : o # busy.bridge => rows'[o] = rows[o]
      BY <1>11 DEF JoinHold, BaseInv, Types, StoreType
    <2> QED
      BY <2>1, <2>2, <2>3 DEF PubInv, OpenedPublished, HiddenAwaited, RowsPublished, BarrierAlone
  <1>12. CASE JoinPublish
    <2>1. UNCHANGED <<cut, open, rows, base>> /\ busy.at = "publish" /\ busy.bridge \in Bridges
      BY <1>12 DEF JoinPublish, At, sourceVars, pipeVars, BaseInv, QueueInv
    <2>2. CASE Table[busy.bridge] \in pub
      <3>1. pub' = pub /\ busy'.at = "take"
        BY <1>12, <2>2 DEF JoinPublish, Step, BaseInv, Types, BusyType
      <3> QED
        BY <2>1, <2>2, <3>1 DEF PubInv, OpenedPublished, HiddenAwaited, RowsPublished, BarrierAlone
    <2>3. CASE Table[busy.bridge] \notin pub
      <3>1. /\ pub' = pub \union {Table[busy.bridge]} /\ waits' = OpenTxns
            /\ busy'.at = "barrier" /\ busy'.bridge = busy.bridge
        BY <1>12, <2>3 DEF JoinPublish, Step, BaseInv, Types, BusyType
      <3>2. \A x \in Txns : open[x].hidden # {} => x \in waits'
        BY <3>1 DEF OpenTxns, NoTxn
      <3>3. HiddenAwaited'
        BY <2>1, <2>3, <3>1, <3>2 DEF PubInv, HiddenAwaited
      <3> QED
        BY <2>1, <2>3, <3>1, <3>3 DEF PubInv, OpenedPublished, RowsPublished, BarrierAlone
    <2> QED
      BY <2>2, <2>3
  <1>13. CASE JoinBarrier
    <2>1. UNCHANGED <<pub, cut, open, rows, base>> /\ busy.at = "barrier" /\ busy'.at = "take" /\ waits = {}
      BY <1>13 DEF JoinBarrier, At, Step, sourceVars, serverVars, pipeVars, BaseInv, Types, BusyType
    <2> QED
      BY <2>1 DEF PubInv, OpenedPublished, HiddenAwaited, RowsPublished, BarrierAlone
  <1>14. CASE JoinGivesUp
    <2>1. /\ UNCHANGED <<open, base>> /\ busy'.at = "free" /\ busy.bridge \in Bridges
          /\ busy.at \in {"publish", "barrier", "take"} /\ base[busy.bridge] = NoBase
      BY <1>14, GivesUpEffect DEF Free, BaseInv, QueueInv, Joining
    <2>2. \A o \in Bridges : o # busy.bridge => rows'[o] = rows[o]
      BY <1>14, <2>1, GivesUpEffect DEF BaseInv, Types, StoreType
    <2>3. \A k \in cut : k \in pub' \/ (\E o \in Bridges : rows'[o] # None /\ Table[o] = k) => k \in cut'
      BY <1>14, GivesUpEffect
    <2>4. CASE \E o \in Bridges : o # busy.bridge /\ rows[o] # None /\ Table[o] = Table[busy.bridge]
      <3>1. pub' = pub
        BY <1>14, <2>4, GivesUpEffect DEF Unpublished, HasRow
      <3>2. HiddenAwaited'
        BY <2>1, <2>3, <2>4, <3>1 DEF PubInv, HiddenAwaited, BarrierAlone
      <3>3. OpenedPublished'
        BY <2>1, <2>2, <3>1 DEF PubInv, OpenedPublished
      <3>4. \A o \in Bridges : o # busy.bridge /\ rows'[o] # None => Table[o] \in pub' \/ Table[o] \in cut'
        BY <2>1, <2>2, <2>3, <3>1 DEF PubInv, RowsPublished
      <3>5. RowsPublished'
        BY <2>2, <2>4, <3>4 DEF RowsPublished
      <3> QED
        BY <2>1, <3>2, <3>3, <3>5 DEF PubInv, BarrierAlone
    <2>5. CASE \A o \in Bridges : o # busy.bridge /\ rows[o] # None => Table[o] # Table[busy.bridge]
      <3>1. pub' \subseteq pub /\ \A k \in pub : k \notin pub' => k = Table[busy.bridge]
        BY <1>14, GivesUpEffect DEF Unpublished
      <3>2. Torn(busy.bridge) = {Table[busy.bridge]}
        BY <2>5 DEF Torn, HasRow
      <3>3. \/ rows'[busy.bridge] = None /\ Table[busy.bridge] \notin pub'
            \/ /\ Table[busy.bridge] \in pub' => Table[busy.bridge] \in cut'
               /\ rows'[busy.bridge] # None => Table[busy.bridge] \in cut'
        <4>1. CASE /\ rows' = [rows EXCEPT ![busy.bridge] = None]
                   /\ pub' = Unpublished(busy.bridge, HasRow)
          <5>1. rows'[busy.bridge] = None
            BY <2>1, <4>1 DEF BaseInv, Types, StoreType
          <5>2. Table[busy.bridge] \notin pub'
            BY <2>5, <4>1 DEF Unpublished, HasRow
          <5> QED
            BY <5>1, <5>2
        <4>2. CASE cut' = {k \in cut \union Torn(busy.bridge) :
                             k \in pub' \/ \E o \in Bridges : rows'[o] # None /\ Table[o] = k}
          BY <2>1, <3>2, <4>2
        <4> QED
          BY <1>14, <4>1, <4>2, GivesUpEffect
      <3>4. HiddenAwaited'
        BY <2>1, <2>3, <3>1, <3>3 DEF PubInv, HiddenAwaited
      <3>5. OpenedPublished'
        BY <2>1, <2>2, <2>5, <3>1 DEF PubInv, OpenedPublished
      <3>6. \A o \in Bridges : o # busy.bridge /\ rows'[o] # None => Table[o] \in pub' \/ Table[o] \in cut'
        BY <2>1, <2>2, <2>3, <2>5, <3>1 DEF PubInv, RowsPublished
      <3>7. RowsPublished'
        BY <3>3, <3>6 DEF RowsPublished
      <3> QED
        BY <2>1, <3>4, <3>5, <3>7 DEF PubInv, BarrierAlone
    <2> QED
      BY <2>4, <2>5
  <1>15. CASE JoinTake
    <2>1. UNCHANGED <<pub, cut, open, base>> /\ busy.at = "take" /\ busy'.at = "free"
      BY <1>15 DEF JoinTake, At, Free, sourceVars, serverVars, pipeVars
    <2>2. \A o \in Bridges : o # busy.bridge => rows'[o] = rows[o]
      BY <1>15 DEF JoinTake, BaseInv, Types, StoreType
    <2>3. busy.bridge \in Bridges /\ rows[busy.bridge] # None
      BY <2>1 DEF BaseInv, QueueInv
    <2> QED
      BY <2>1, <2>2, <2>3, PubQueue
  <1>16. CASE Restart
    <2>1. UNCHANGED <<pub, cut, open, rows, base>> /\ busy.at = "adding" /\ busy'.at \in {"free"}
      BY <1>16 DEF Restart, At, sourceVars, serverVars, pipeVars, readVars, Free, BaseInv, Types, BusyType
    <2> QED
      BY <2>1, PubQueue
  <1>17. CASE RemoveEnds
    <2>1. UNCHANGED <<pub, cut, open, rows, base>> /\ busy.at = "removed"
      BY <1>17, RemoveEndsEffect
    <2>2. busy'.at \in {"free", "delete", "closing"}
      <3>1. \/ busy' = Free \/ busy' = [busy EXCEPT !.at = "delete"] \/ busy' = [busy EXCEPT !.at = "closing"]
        BY <1>17, RemoveEndsEffect, Zenon
      <3> QED
        BY <1>17, <3>1, RemoveEndsEffect DEF BaseInv, Types, BusyType, Free
    <2> QED
      BY <2>1, <2>2, PubQueue
  <1>18. CASE Closed
    <2>1. UNCHANGED <<pub, cut, open, rows, base>> /\ busy.at = "closing"
      BY <1>18, ClosedEffect
    <2>2. busy'.at \in {"free", "delete", "closing"}
      <3>1. \/ busy' = Free \/ busy' = [busy EXCEPT !.at = "delete"] \/ busy' = [busy EXCEPT !.at = "closing"]
        BY <1>18, ClosedEffect, Zenon
      <3> QED
        BY <1>18, <3>1, ClosedEffect DEF BaseInv, Types, BusyType, Free
    <2> QED
      BY <2>1, <2>2, PubQueue
  <1>19. CASE LeaveDelete
    <2>1. UNCHANGED <<pub, cut, open>> /\ busy.at = "delete" /\ busy'.at \in {"counted", "unpublish"}
      BY <1>19 DEF LeaveDelete, At, Step, sourceVars, serverVars, BaseInv, Types, BusyType
    <2>2. \A o \in Bridges : IF o = busy.bridge THEN rows'[o] = None /\ base'[o] = NoBase
                                               ELSE rows'[o] = rows[o] /\ base'[o] = base[o]
      BY <1>19 DEF LeaveDelete, BaseInv, Types, StoreType
    <2> QED
      BY <2>1, <2>2, PubQueue
  <1>20. CASE LeaveUnpublish
    <2>1. UNCHANGED <<open, rows, base>> /\ busy.at \in {"unpublish", "counted"}
      BY <1>20, LeaveUnpublishEffect
    <2>2. busy'.at \in {"free", "last"}
      <3>1. busy' = Free \/ busy' = [busy EXCEPT !.at = "last"]
        BY <1>20, LeaveUnpublishEffect, Zenon
      <3> QED
        BY <3>1 DEF Free, BaseInv, Types, BusyType
    <2>3. busy.bridge \in Bridges /\ rows[busy.bridge] = None
      BY <2>1 DEF BaseInv, QueueInv
    <2>4. /\ pub' = Unpublished(busy.bridge, HasRow) \/ pub' = pub
          /\ cut' = {k \in cut : k \in pub' \/ \E o \in Bridges : rows'[o] # None /\ Table[o] = k}
      BY <1>20, LeaveUnpublishEffect DEF StillCut
    <2>5. /\ pub' \subseteq pub
          /\ \A o \in Bridges : rows[o] # None /\ Table[o] \in pub => Table[o] \in pub'
      BY <2>3, <2>4 DEF Unpublished, HasRow
    <2>6. HiddenAwaited'
      BY <2>1, <2>2, <2>4, <2>5 DEF PubInv, HiddenAwaited
    <2>7. RowsPublished'
      BY <2>1, <2>4, <2>5 DEF PubInv, RowsPublished
    <2> QED
      BY <2>1, <2>2, <2>5, <2>6, <2>7 DEF PubInv, OpenedPublished, BarrierAlone
  <1>21. CASE LeaveLast
    <2>1. pub' = {} /\ rows' = rows /\ busy.at = "last" /\ busy'.at = "free"
      BY <1>21 DEF LeaveLast, At, Free
    <2>2. \A b \in Bridges : rows[b] = None
      BY <2>1 DEF BaseInv, QueueInv
    <2> QED
      BY <2>1, <2>2 DEF PubInv, OpenedPublished, HiddenAwaited, RowsPublished, BarrierAlone
  <1>22. ASSUME NEW b \in Bridges, HandThrows(b) PROVE PubInv'
    <2>1. PICK n \in Nat : n = Len(wal)
      BY WalLength DEF BaseInv, Types
    <2>2. \A o \in Bridges : rows'[o] = None <=> rows[o] = None
      BY <1>22, <2>1, RemovedEffect DEF HandThrows, BaseInv, Types
    <2>3. UNCHANGED <<pub, cut, open, base, busy, waits>>
      BY <1>22 DEF HandThrows, sourceVars, serverVars, queueVars
    <2> QED
      BY <2>2, <2>3, PubFrame
  <1>23. CASE Crash
    <2>1. /\ UNCHANGED <<pub, open, base>> /\ busy'.at = "free"
          /\ cut' = (IF busy.at \in {"publish", "barrier"} THEN cut \union {Table[busy.bridge]} ELSE cut)
      BY <1>23 DEF Crash, Free, sourceVars, serverVars
    <2>2. \A o \in Bridges : rows'[o] # None => rows[o] # None
      BY <1>23, CrashRows
    <2> QED
      BY <2>1, <2>2 DEF PubInv, OpenedPublished, HiddenAwaited, RowsPublished, BarrierAlone
  <1> QED
    BY <1>1, <1>2, <1>3, <1>4, <1>5, <1>6, <1>7, <1>8, <1>9, <1>10, <1>11, <1>12, <1>13, <1>14,
       <1>15, <1>16, <1>17, <1>18, <1>19, <1>20, <1>21, <1>22, <1>23
      DEF Next


(* hidden changes *)

(* A step that starts no copy and commits nothing hides nothing new. *)
LEMMA HiddenFrame ==
  ASSUME HiddenInv, wal' = wal,
         \A b \in Bridges :
           \/ base'[b] = NoBase
           \/ /\ base'[b] = base[b]
              /\ rows'[b] # None => rows[b] # None /\ (Table[b] \in cut => Table[b] \in cut')
  PROVE  HiddenInv'
  BY DEF HiddenInv

(* Every step keeps hidden changes within the copies. *)
LEMMA HiddenKept ==
  ASSUME BaseInv, PubInv, HiddenInv, [Next]_vars
  PROVE  HiddenInv'
  <1>1. CASE \/ UNCHANGED vars
             \/ \E x \in Txns, k \in Tables : Touch(x, k)
             \/ \E b \in Bridges : Join(b) \/ Rejoin(b) \/ LeaveAgain(b) \/ HandTo(b) \/ Settle(b)
             \/ JoinCreated \/ JoinPublish \/ JoinBarrier \/ Restart \/ RemoveEnds \/ Closed
                 \/ Cycle \/ RunLoop \/ Subscribe \/ ReaderEnds \/ Read \/ Heartbeat
    <2>1. UNCHANGED <<wal, base, rows, cut>>
      BY <1>1 DEF vars, sourceVars, serverVars, pipeVars, streamVars, readVars, queueVars,
             Touch, Join, Rejoin, LeaveAgain, JoinCreated, JoinPublish, JoinBarrier, Restart,
             RemoveEnds, Closed, Cycle, RunLoop, Subscribe, ReaderEnds, Read, Heartbeat, HandTo,
             Settle
    <2> QED
      BY <2>1, HiddenFrame
  <1>2. ASSUME NEW x \in Txns, EndTxn(x) PROVE HiddenInv'
    <2>1. UNCHANGED <<base, rows, cut>>
      BY <1>2 DEF EndTxn, pipeVars
    <2>2. /\ Len(wal) \in Nat /\ Len(wal') \in Nat /\ Len(wal') <= Len(wal) + 1
          /\ \A t \in 1 .. Len(wal) : wal'[t] = wal[t]
          /\ Len(wal') # Len(wal) => Len(wal') = Len(wal) + 1 /\ wal'[Len(wal')] = open[x]
      BY <1>2, WalGrows DEF BaseInv, Types
    <2>3. ASSUME NEW b \in Bridges, base[b] # NoBase, rows[b] # None, Table[b] \notin cut
          PROVE  Table[b] \notin open[x].hidden
      <3>1. Table[b] \in pub
        BY <2>3 DEF PubInv, OpenedPublished
      <3>2. Table[b] \in Tables
        BY Bounds
      <3>3. busy.at = "barrier" => base[busy.bridge] = NoBase
        BY DEF BaseInv, QueueInv, Joining
      <3> QED
        BY <2>3, <3>1, <3>2, <3>3 DEF PubInv, HiddenAwaited, BarrierAlone
    <2> SUFFICES ASSUME NEW b \in Bridges, base[b] # NoBase, rows[b] # None, Table[b] \notin cut,
                        NEW t \in 1 .. Len(wal'), Table[b] \in wal'[t].hidden
                 PROVE  t <= base[b].copied
      BY <2>1 DEF HiddenInv
    <2>4. CASE t \in 1 .. Len(wal)
      BY <2>2, <2>4 DEF HiddenInv
    <2>5. CASE t \notin 1 .. Len(wal)
      <3>1. t = Len(wal') /\ Len(wal') # Len(wal)
        BY <2>2, <2>5
      <3> QED
        BY <2>2, <2>3, <3>1
    <2> QED
      BY <2>4, <2>5
  <1>3. ASSUME NEW b \in Bridges, Open(b) PROVE HiddenInv'
    <2>1. UNCHANGED <<wal, rows, cut>> /\ Len(wal) \in Nat
      BY <1>3, WalLength DEF Open, sourceVars, BaseInv, Types
    <2>2. /\ \A o \in Bridges : o # b => base'[o] = base[o]
          /\ base'[b] = IF base[b] = NoBase THEN [from |-> rows[b], copied |-> Len(wal)] ELSE base[b]
      BY <1>3 DEF Open, BaseInv, Types, StoreType
    <2>3. CASE base[b] # NoBase
      BY <2>1, <2>2, <2>3, HiddenFrame
    <2>4. CASE base[b] = NoBase
      <3>1. base'[b].copied = Len(wal)
        BY <2>2, <2>4
      <3> QED
        BY <2>1, <2>2, <3>1 DEF HiddenInv
    <2> QED
      BY <2>3, <2>4
  <1>4. ASSUME NEW b \in Bridges, Stop(b) PROVE HiddenInv'
    <2>1. PICK n \in Nat : n = Len(wal)
      BY WalLength DEF BaseInv, Types
    <2>2. \A o \in Bridges : rows'[o] = None <=> rows[o] = None
      BY <1>4, <2>1, RemovedEffect DEF Stop, BaseInv, Types
    <2>3. UNCHANGED <<wal, base, cut>>
      BY <1>4 DEF Stop, sourceVars
    <2> QED
      BY <2>2, <2>3, HiddenFrame
  <1>5. ASSUME NEW b \in Bridges, Leave(b) PROVE HiddenInv'
    <2>1. PICK n \in Nat : n = Len(wal)
      BY WalLength DEF BaseInv, Types
    <2>2. \A o \in Bridges : rows'[o] = None <=> rows[o] = None
      BY <1>5, <2>1, RemovedEffect DEF Leave, BaseInv, Types
    <2>3. UNCHANGED <<wal, base, cut>>
      BY <1>5 DEF Leave, sourceVars
    <2> QED
      BY <2>2, <2>3, HiddenFrame
  <1>6. CASE JoinHold
    <2>1. busy.at = "hold" /\ UNCHANGED <<wal, base>>
      BY <1>6 DEF JoinHold, At, sourceVars, pipeVars
    <2>2. base[busy.bridge] = NoBase
      BY <2>1 DEF BaseInv, QueueInv, Joining
    <2>3. \A o \in Bridges : o # busy.bridge => rows'[o] = rows[o]
      BY <1>6 DEF JoinHold, BaseInv, Types, StoreType
    <2>4. \A o \in Bridges : rows'[o] # None /\ Table[o] \in cut => Table[o] \in cut'
      BY <1>6 DEF JoinHold, StillCut
    <2> QED
      BY <2>1, <2>2, <2>3, <2>4, HiddenFrame
  <1>7. CASE JoinGivesUp
    <2>1. busy.at \in {"publish", "barrier", "take"} /\ UNCHANGED <<wal, base>>
      BY <1>7, GivesUpEffect
    <2>2. base[busy.bridge] = NoBase
      BY <2>1 DEF BaseInv, QueueInv, Joining
    <2>3. \A o \in Bridges : o # busy.bridge => rows'[o] = rows[o]
      BY <1>7, GivesUpEffect DEF BaseInv, Types, StoreType
    <2>4. \A o \in Bridges : rows'[o] # None /\ Table[o] \in cut => Table[o] \in cut'
      BY <1>7, GivesUpEffect
    <2> QED
      BY <2>1, <2>2, <2>3, <2>4, HiddenFrame
  <1>8. CASE JoinTake
    <2>1. busy.at = "take" /\ UNCHANGED <<wal, base>>
      BY <1>8 DEF JoinTake, At, sourceVars, pipeVars
    <2>2. base[busy.bridge] = NoBase
      BY <2>1 DEF BaseInv, QueueInv, Joining
    <2>3. \A o \in Bridges : o # busy.bridge => rows'[o] = rows[o]
      BY <1>8 DEF JoinTake, BaseInv, Types, StoreType
    <2>4. \A o \in Bridges : rows'[o] # None /\ Table[o] \in cut => Table[o] \in cut'
      BY <1>8 DEF JoinTake, StillCut
    <2> QED
      BY <2>1, <2>2, <2>3, <2>4, HiddenFrame
  <1>9. CASE LeaveDelete
    <2>1. UNCHANGED <<wal, cut>>
      BY <1>9 DEF LeaveDelete, sourceVars
    <2>2. \A o \in Bridges : base'[o] = NoBase \/ (rows'[o] = rows[o] /\ base'[o] = base[o])
      BY <1>9 DEF LeaveDelete, BaseInv, Types, StoreType
    <2> QED
      BY <2>1, <2>2, HiddenFrame
  <1>10. CASE LeaveUnpublish
    <2>1. UNCHANGED <<wal, rows, base>> /\ StillCut
      BY <1>10, LeaveUnpublishEffect
    <2>2. \A o \in Bridges : rows'[o] # None /\ Table[o] \in cut => Table[o] \in cut'
      BY <2>1 DEF StillCut
    <2> QED
      BY <2>1, <2>2, HiddenFrame
  <1>11. CASE LeaveLast
    <2>1. UNCHANGED <<wal, rows, base>> /\ busy.at = "last"
      BY <1>11 DEF LeaveLast, At, sourceVars, pipeVars
    <2>2. \A b \in Bridges : rows[b] = None
      BY <2>1 DEF BaseInv, QueueInv
    <2> QED
      BY <2>1, <2>2 DEF HiddenInv
  <1>12. ASSUME NEW b \in Bridges, HandThrows(b) PROVE HiddenInv'
    <2>1. PICK n \in Nat : n = Len(wal)
      BY WalLength DEF BaseInv, Types
    <2>2. \A o \in Bridges : rows'[o] = None <=> rows[o] = None
      BY <1>12, <2>1, RemovedEffect DEF HandThrows, BaseInv, Types
    <2>3. UNCHANGED <<wal, base, cut>>
      BY <1>12 DEF HandThrows, sourceVars
    <2> QED
      BY <2>2, <2>3, HiddenFrame
  <1>13. CASE Crash
    <2>1. UNCHANGED <<wal, base>> /\ cut \subseteq cut'
      BY <1>13 DEF Crash, sourceVars
    <2>2. \A o \in Bridges : rows'[o] # None => rows[o] # None
      BY <1>13, CrashRows
    <2> QED
      BY <2>1, <2>2, HiddenFrame
  <1> QED
    BY <1>1, <1>2, <1>3, <1>4, <1>5, <1>6, <1>7, <1>8, <1>9, <1>10, <1>11, <1>12, <1>13
      DEF Next

-----------------------------------------------------------------------------
(* changes that are seen *)

(* A cursor is an integer after the ends of all earlier transactions. *)
LEMMA CurType ==
  ASSUME NEW b \in Bridges, NEW t \in Int
  PROVE  /\ Cur(b, t) \in Int /\ Table[b] \in Tables
         /\ \A s \in Int : EndCursor(s) \in Int /\ (s < t => EndCursor(s) < Cur(b, t))
  BY Bounds, CursorOrder DEF Cur

(* The ranges of the positions, as integers. *)
LEMMA BaseTypes ==
  ASSUME BaseInv
  PROVE  /\ Len(wal) \in Nat /\ EndCursor(Len(wal)) \in Int
         /\ slot \in Int /\ slot <= Len(wal) /\ gen \in Int
         /\ run.gen \in Int /\ run.pos \in Int /\ run.pos <= EndCursor(Len(wal))
         /\ handing.gen \in Int /\ handing.cursor \in Int /\ handing.cursor <= EndCursor(Len(wal))
         /\ \A b \in Bridges :
              /\ rows[b] \in Int /\ rows[b] <= Len(wal) /\ idle[b] \in Int
              /\ saved[b] \in Int /\ saved[b] <= EndCursor(Len(wal))
              /\ member[b].confirmed \in Int /\ member[b].confirmed <= Len(wal)
              /\ member[b].highest \in Int /\ member[b].highest <= EndCursor(Len(wal))
              /\ member[b].since \in Int
  <1>1. PICK n \in Nat : n = Len(wal)
    BY WalLength DEF BaseInv, Types
  <1>2. EndCursor(n) \in Int
    BY EndOrder
  <1>3. \A b \in Bridges : rows[b] \in Int /\ rows[b] <= n /\ idle[b] \in Int
    BY <1>1 DEF BaseInv, Types, StoreType, None
  <1>4. \A b \in Bridges : saved[b] \in Int /\ saved[b] <= EndCursor(n)
    BY <1>1, <1>2 DEF BaseInv, Types, PipeType, None
  <1>5. \A b \in Bridges :
          /\ member[b].confirmed \in Int /\ member[b].confirmed <= n
          /\ member[b].highest \in Int /\ member[b].highest <= EndCursor(n)
          /\ member[b].since \in Int
    BY <1>1, <1>2 DEF BaseInv, Types, MemberType
  <1>6. /\ run.gen \in Int /\ run.pos \in Int /\ run.pos <= EndCursor(n)
        /\ handing.gen \in Int /\ handing.cursor \in Int /\ handing.cursor <= EndCursor(n)
    BY <1>1, <1>2 DEF BaseInv, Types, RunType
  <1>7. slot \in Int /\ slot <= n /\ gen \in Int
    BY <1>1 DEF BaseInv, Types, StoreType, MemberType, None
  <1> QED
    BY <1>1, <1>2, <1>3, <1>4, <1>5, <1>6, <1>7

(* An element of a sequence is in the set the sequence is over. *)
LEMMA ElementIn ==
  ASSUME NEW S, NEW p \in Seq(S), NEW i \in DOMAIN p
  PROVE  p[i] \in S
  OBVIOUS

(* Whoever had it has it; whoever is owed it is owed it or has it. *)
LEMMA SeenStep ==
  ASSUME SeenInv, NEW b \in Bridges, NEW t \in 1 .. Len(wal), wal'[t] = wal[t],
         \/ base'[b] = NoBase
         \/ rows'[b] = None
         \/ /\ base'[b] = base[b] /\ rows[b] # None /\ got[b] \subseteq got'[b]
            /\ Scope(b, t) /\ Owed(b, t) => t \in got'[b] \/ Owed(b, t)'
  PROVE  SeenFor(b, t)'
  BY DEF SeenInv, SeenFor, Scope

(* Nothing that concerns a bridge is touched but its reader. *)
LEMMA ReaderChanges ==
  ASSUME SeenInv, NEW b \in Bridges, NEW t \in 1 .. Len(wal),
         UNCHANGED <<wal, base, rows, got, saved, slot, member, pend>>,
         handing' = handing \/ handing' = NoWork,
         \/ UNCHANGED <<run, gen, handing>>
         \/ run'.at # "read" \/ run'.gen # gen' \/ run'.pos < Cur(b, t)
         \/ ~(Scope(b, t) /\ Kept(b, t))
  PROVE  SeenFor(b, t)'
  <1>1. CASE rows[b] = None
    BY <1>1, SeenStep
  <1>2. ASSUME Scope(b, t), Owed(b, t) PROVE Owed(b, t)'
    <2>1. Kept(b, t) /\ (InFlight(b, t) \/ (Ahead(b, Cur(b, t)) /\ NotPassed(b, t)))
      BY <1>2 DEF Owed
    <2>2. Kept(b, t)' /\ (InFlight(b, t) => InFlight(b, t)')
      BY <2>1 DEF Kept, Place, InFlight
    <2>3. NotPassed(b, t) => NotPassed(b, t)'
      BY DEF NotPassed, NoWork
    <2>4. Ahead(b, Cur(b, t)) => Ahead(b, Cur(b, t))'
      BY <1>2, <2>1 DEF Ahead
    <2> QED
      BY <2>1, <2>2, <2>3, <2>4 DEF Owed
  <1> QED
    BY <1>1, <1>2, SeenStep

(* A member that is gone, and the others as they were. *)
LEMMA OthersSeen ==
  ASSUME SeenInv, NEW b \in Bridges, NEW t \in 1 .. Len(wal),
         UNCHANGED <<wal, slot, run, gen>>,
         base'[b] = base[b], rows'[b] = rows[b], got'[b] = got[b], saved'[b] = saved[b],
         member'[b] = member[b], pend'[b] = pend[b],
         \/ UNCHANGED handing
         \/ /\ b \in handing'.todo <=> b \in handing.todo
            /\ b \in handing'.todo => handing'.cursor = handing.cursor /\ handing'.gen = handing.gen
  PROVE  SeenFor(b, t)'
  <1>1. CASE rows[b] = None
    BY <1>1, SeenStep
  <1>2. Kept(b, t)' <=> Kept(b, t)
    BY DEF Kept, Place
  <1>3. InFlight(b, t)' <=> InFlight(b, t)
    BY DEF InFlight
  <1>4. (NotPassed(b, t) => NotPassed(b, t)') /\ (Ahead(b, Cur(b, t)) => Ahead(b, Cur(b, t))')
    BY DEF NotPassed, Ahead
  <1>5. Owed(b, t) => Owed(b, t)'
    BY <1>2, <1>3, <1>4 DEF Owed
  <1> QED
    BY <1>1, <1>5, SeenStep

(* One that is taken off, with what it had in flight: all of that is after
   what its row says, and after the slot. *)
LEMMA GoneOwed ==
  ASSUME BaseInv, SeenInv, NEW b \in Bridges, NEW t \in 1 .. Len(wal),
         UNCHANGED <<wal, slot>>,
         base'[b] = base[b], rows'[b] = None <=> rows[b] = None, rows'[b] \in Int,
         IF member[b].on THEN rows'[b] <= member[b].confirmed ELSE rows'[b] = rows[b],
         got'[b] = got[b], saved'[b] = saved[b], ~member'[b].on
  PROVE  SeenFor(b, t)'
  <1>1. CASE rows[b] = None
    BY <1>1, SeenStep
  <1>2. ASSUME Owed(b, t) PROVE Owed(b, t)'
    <2>1. Kept(b, t)
      BY <1>2 DEF Owed
    <2>2. t \in Int /\ rows[b] \in Int /\ member[b].confirmed \in Int
      BY BaseTypes
    <2>3. Kept(b, t)'
      BY <2>1, <2>2 DEF Kept, Place
    <2>4. Ahead(b, Cur(b, t))' /\ NotPassed(b, t)'
      BY DEF Ahead, NotPassed
    <2> QED
      BY <2>3, <2>4 DEF Owed
  <1> QED
    BY <1>1, <1>2, SeenStep

(* The slot does not get past a change that somebody is owed. *)
LEMMA SlotBehind ==
  ASSUME BaseInv, NEW b \in Bridges, NEW t \in Int, rows[b] # None, rows'[b] = rows[b],
         \/ Heartbeat
         \/ \E o \in Bridges : Settle(o),
         slot < t, member'[b].confirmed \in Int, Place(b)' < t
  PROVE  slot' < t
  <1>1. PICK n \in Nat : n = Len(wal)
    BY WalLength DEF BaseInv, Types
  <1>2. /\ slot' \in None .. n
        /\ \/ slot' = slot
           \/ /\ run.at = "read"
              /\ member'[b].on => slot' <= member'[b].confirmed
              /\ ~member'[b].on /\ idle[b] # None => slot' <= idle[b]
    BY <1>1, SlotMoves DEF BaseInv, Types
  <1>3. run.at = "read" => idle[b] # None /\ idle[b] <= rows[b]
    BY DEF BaseInv, StoreInv, StoreOf
  <1>4. slot \in Int /\ slot' \in Int /\ rows[b] \in Int /\ idle[b] \in Int
    BY <1>2, BaseTypes DEF None
  <1> QED
    BY <1>2, <1>3, <1>4 DEF Place

(* Within one transaction the changes are in the order of their tables. *)
LEMMA TableOrder ==
  ASSUME NEW t \in Int, NEW j \in Tables, NEW k \in Tables, j < k
  PROVE  ChangeCursor(t, j) < ChangeCursor(t, k)
  <1>1. PICK w \in Nat : w = Width
    BY WidthType
  <1>2. j \in Int /\ k \in Int
    BY WidthType
  <1>3. PICK e \in Int : e = (t - 1) * w
    BY <1>1
  <1>4. e + j < e + k
    BY <1>2
  <1> QED
    BY <1>1, <1>3, <1>4 DEF ChangeCursor

(* Appending to a sequence keeps its elements and adds one. *)
LEMMA AppendKeeps ==
  ASSUME NEW S, NEW p \in Seq(S), NEW c, NEW q, q = Append(p, c)
  PROVE  /\ Len(p) + 1 \in DOMAIN q /\ q[Len(p) + 1] = c
         /\ \A i \in DOMAIN p : i \in DOMAIN q /\ q[i] = p[i]
  OBVIOUS

(* What is sent next is no later than a change of the member's table that is
   still ahead of the reader, and that change goes to the member. *)
LEMMA NextIsFirst ==
  ASSUME BaseInv, NEW b \in Bridges, NEW n \in Nat, n = Len(wal), NEW t \in 1 .. n, Scope(b, t), member[b].on,
         NextTxn \in 1 .. n, run.pos < Cur(b, t), NEW c \in Int, NEW S,
         \/ NextChanges = {} /\ c = EndCursor(NextTxn)
         \/ \E k \in NextChanges :
              /\ c = ChangeCursor(NextTxn, k) /\ \A j \in NextChanges : k <= j
              /\ S = {o \in Running : Table[o] = k}
  PROVE  c <= Cur(b, t) /\ (c = Cur(b, t) => b \in S)
  <1>1. t \in Int /\ Table[b] \in Tables /\ Cur(b, t) \in Int /\ Cur(b, t) = ChangeCursor(t, Table[b]) /\ run.pos \in Int
    BY CurType, BaseTypes DEF Cur
  <1>2. PICK m \in Int : m = NextTxn /\ m <= t
    <2>1. run.pos \div Width \in Int /\ run.pos \div Width + 1 <= t
      BY <1>1, EndsBefore
    <2> QED
      BY <2>1 DEF NextTxn
  <1>3. m = t => Table[b] \in NextChanges
    BY <1>1, <1>2 DEF NextChanges, Scope
  <1>4. m < t => EndCursor(m) < Cur(b, t) /\ EndCursor(m) \in Int
    BY <1>1, <1>2, CursorOrder
  <1>5. CASE NextChanges = {} /\ c = EndCursor(NextTxn)
    BY <1>1, <1>2, <1>3, <1>4, <1>5
  <1>6. ASSUME NEW k \in NextChanges, c = ChangeCursor(NextTxn, k), \A j \in NextChanges : k <= j,
               S = {o \in Running : Table[o] = k}
        PROVE  c <= Cur(b, t) /\ (c = Cur(b, t) => b \in S)
    <2>1. k \in Tables
      <3>1. wal[NextTxn] \in Txn
        BY DEF BaseInv, Types, SourceType
      <3> QED
        BY <3>1 DEF NextChanges, Txn
    <2>2. c < EndCursor(m) /\ EndCursor(m) \in Int
      BY <1>2, <1>6, <2>1, CursorOrder
    <2>3. CASE m < t
      BY <1>1, <1>4, <2>2, <2>3
    <2>4. CASE m = t
      <3>1. k <= Table[b]
        BY <1>3, <1>6, <2>4
      <3>2. CASE k = Table[b]
        BY <1>1, <1>2, <1>6, <2>4, <3>2 DEF Running
      <3>3. CASE k # Table[b]
        <4>1. k < Table[b]
          BY <1>1, <2>1, <3>1, <3>3, WidthType
        <4>2. ChangeCursor(m, k) < ChangeCursor(m, Table[b])
          BY <1>1, <1>2, <2>1, <4>1, TableOrder
        <4> QED
          BY <1>1, <1>2, <1>6, <2>4, <4>2
      <3> QED
        BY <3>2, <3>3
    <2> QED
      BY <1>2, <2>3, <2>4
  <1> QED
    BY <1>5, <1>6

(* Every step keeps each change had or owed. *)
LEMMA SeenKept ==
  ASSUME BaseInv, SeenInv, [Next]_vars
  PROVE  SeenInv'
  <1>1. CASE \/ UNCHANGED vars
             \/ \E x \in Txns, k \in Tables : Touch(x, k)
             \/ \E b \in Bridges : Join(b) \/ Rejoin(b) \/ LeaveAgain(b)
             \/ JoinPublish \/ JoinBarrier
    <2>1. UNCHANGED <<wal, base, rows, got, saved, slot, member, pend, run, gen, handing>>
      BY <1>1 DEF vars, sourceVars, serverVars, pipeVars, streamVars, readVars, queueVars,
             Touch, Join, Rejoin, LeaveAgain, JoinPublish, JoinBarrier
    <2> QED
      <3> SUFFICES ASSUME NEW o \in Bridges, NEW t \in 1 .. Len(wal') PROVE SeenFor(o, t)'
        BY DEF SeenInv
      <3> QED
        BY <2>1, ReaderChanges
  <1>2. ASSUME NEW x \in Txns, EndTxn(x) PROVE SeenInv'
    <2> SUFFICES ASSUME NEW o \in Bridges, NEW t \in 1 .. Len(wal') PROVE SeenFor(o, t)'
      BY DEF SeenInv
    <2>1. UNCHANGED <<base, rows, got, saved, slot, member, pend, run, gen, handing>>
      BY <1>2 DEF EndTxn, serverVars, pipeVars, streamVars, readVars
    <2>2. /\ Len(wal) \in Nat /\ Len(wal') \in Nat /\ Len(wal') <= Len(wal) + 1
          /\ \A i \in 1 .. Len(wal) : wal'[i] = wal[i]
      BY <1>2, WalGrows DEF BaseInv, Types
    <2>3. CASE t \in 1 .. Len(wal)
      <3>1. wal'[t] = wal[t]
        BY <2>2, <2>3
      <3>2. CASE rows[o] = None
        BY <2>1, <2>3, <3>1, <3>2, SeenStep
      <3>3. Owed(o, t) => Owed(o, t)'
        BY <2>1 DEF Owed, Kept, Place, InFlight, Ahead, NotPassed
      <3> QED
        BY <2>1, <2>3, <3>1, <3>2, <3>3, SeenStep
    <2>4. CASE t \notin 1 .. Len(wal)
      <3>1. t = Len(wal) + 1 /\ t \in Int
        BY <2>2, <2>4
      <3>2. PICK e \in Int : e = EndCursor(Len(wal))
        BY BaseTypes
      <3>3. PICK c \in Int : c = Cur(o, t) /\ e < c
        <4>1. Len(wal) \in Int /\ Len(wal) < t
          BY <2>2, <3>1
        <4> QED
          BY <3>1, <3>2, <4>1, CurType
      <3>4. /\ slot \in Int /\ slot <= Len(wal) /\ rows[o] \in Int /\ rows[o] <= Len(wal)
            /\ member[o].confirmed \in Int /\ member[o].confirmed <= Len(wal)
        BY BaseTypes
      <3>5. /\ saved[o] \in Int /\ saved[o] <= e
            /\ member[o].highest \in Int /\ member[o].highest <= e
            /\ run.pos \in Int /\ run.pos <= e
            /\ handing.cursor \in Int /\ handing.cursor <= e
        BY <3>2, BaseTypes
      <3>6. saved[o] < c /\ member[o].highest < c /\ run.pos < c /\ handing.cursor <= c
        BY <3>3, <3>5
      <3>7. slot < t /\ Place(o) < t
        BY <2>2, <3>1, <3>4 DEF Place
      <3>8. Kept(o, t)'
        BY <2>1, <3>3, <3>6, <3>7 DEF Kept, Place
      <3>9. Ahead(o, Cur(o, t))' /\ NotPassed(o, t)'
        BY <2>1, <3>3, <3>6 DEF Ahead, NotPassed
      <3> QED
        BY <3>8, <3>9 DEF SeenFor, Owed
    <2> QED
      BY <2>3, <2>4
  <1>3. ASSUME NEW b \in Bridges, Open(b) PROVE SeenInv'
    <2> SUFFICES ASSUME NEW o \in Bridges, NEW t \in 1 .. Len(wal') PROVE SeenFor(o, t)'
      BY DEF SeenInv
    <2>1. UNCHANGED <<wal, rows, slot, saved, got, pend, run, gen, handing>> /\ rows[b] # None /\ ~member[b].on
      BY <1>3 DEF Open, sourceVars, serverVars, readVars
    <2>2. /\ \A i \in Bridges : i # b => base'[i] = base[i]
          /\ base'[b] = IF base[b] = NoBase THEN [from |-> rows[b], copied |-> Len(wal)] ELSE base[b]
      BY <1>3 DEF Open, BaseInv, Types, StoreType
    <2>3. PICK had : had = IF saved[b] = None THEN EndCursor(rows[b]) ELSE saved[b]
      OBVIOUS
    <2>4. member' = [member EXCEPT ![b] = [on |-> TRUE, since |-> gen + 1, highest |-> had,
                                           acked |-> had, confirmed |-> rows[b]]]
      BY <1>3, <2>3 DEF Open
    <2>5. /\ \A i \in Bridges : i # b => member'[i] = member[i]
          /\ member'[b].on /\ member'[b].since = gen + 1
          /\ member'[b].highest = had /\ member'[b].confirmed = rows[b]
      BY <2>4 DEF BaseInv, Types, MemberType
    <2>6. CASE o # b
      BY <2>1, <2>2, <2>5, <2>6, OthersSeen
    <2>7. CASE o = b
      <3>1. t \in Int /\ t \in 1 .. Len(wal)
        BY <2>1
      <3>2. PICK c \in Int : c = Cur(b, t) /\ (rows[b] < t => EndCursor(rows[b]) < c)
        BY <3>1, CurType, BaseTypes
      <3>3. ASSUME saved[b] < c, slot < t, rows[b] < t PROVE Owed(b, t)'
        <4>1. had < c
          BY <2>3, <3>2, <3>3
        <4>2. Kept(b, t)'
          BY <2>1, <2>5, <3>2, <3>3 DEF Kept, Place
        <4>3. (run.at = "read" => run.gen < gen + 1) /\ (handing # NoWork => handing.gen < gen + 1)
          BY BaseTypes DEF BaseInv, ReaderInv
        <4>4. Ahead(b, Cur(b, t))'
          BY <2>1, <2>5, <3>2, <4>1, <4>3 DEF Ahead
        <4>5. NotPassed(b, t)'
          <5>1. b \in handing.todo => handing # NoWork
            BY DEF NoWork
          <5>2. handing.gen \in Int /\ gen \in Int
            BY BaseTypes
          <5> QED
            BY <2>1, <2>5, <4>3, <5>1, <5>2 DEF NotPassed
        <4> QED
          BY <4>2, <4>4, <4>5 DEF Owed
      <3>4. CASE base[b] = NoBase
        <4>1. saved[b] = None /\ slot <= rows[b] /\ StoreOf(b)
          BY <2>1, <3>4 DEF BaseInv, StoreInv, StoreOf
        <4>2. slot \in Int /\ rows[b] \in Int /\ rows[b] >= 0
          BY <2>1, BaseTypes DEF BaseInv, Types, StoreType, None
        <4>3. rows[b] < t => saved[b] < c /\ slot < t
          <5>1. EndCursor(rows[b]) \in Int /\ EndCursor(rows[b]) >= 0
            BY <4>2, EndOrder
          <5> QED
            BY <3>1, <3>2, <4>1, <4>2, <5>1 DEF None
        <4>4. Scope(b, t)' => rows[b] < t
          BY <2>2, <3>1, <3>4, <4>2 DEF Scope
        <4> QED
          BY <2>7, <3>3, <4>3, <4>4 DEF SeenFor
      <3>5. CASE base[b] # NoBase
        <4>1. Owed(b, t) => saved[b] < c /\ slot < t /\ rows[b] < t
          BY <2>1, <3>2 DEF Owed, Kept, Place
        <4> QED
          BY <2>1, <2>2, <2>7, <3>1, <3>3, <3>5, <4>1, SeenStep
      <3> QED
        BY <3>4, <3>5
    <2> QED
      BY <2>6, <2>7
  <1>4. ASSUME NEW b \in Bridges, Stop(b) PROVE SeenInv'
    <2> SUFFICES ASSUME NEW o \in Bridges, NEW t \in 1 .. Len(wal') PROVE SeenFor(o, t)'
      BY DEF SeenInv
    <2>1. UNCHANGED <<wal, slot, run, gen, base, got, saved>>
      BY <1>4 DEF Stop, sourceVars, serverVars, readVars
    <2>2. PICK n \in Nat : n = Len(wal)
      BY WalLength DEF BaseInv, Types
    <2>3. /\ rows' \in [Bridges -> None .. n] /\ (rows'[b] = None <=> rows[b] = None)
          /\ IF member[b].on THEN rows'[b] <= member[b].confirmed ELSE rows'[b] = rows[b]
          /\ ~member'[b].on
          /\ \A i \in Bridges : i # b => rows'[i] = rows[i] /\ member'[i] = member[i] /\ pend'[i] = pend[i]
      BY <1>4, <2>2, RemovedEffect DEF Stop, BaseInv, Types
    <2>4. CASE o = b
      <3>1. rows'[b] \in Int
        BY <2>2, <2>3 DEF None
      <3> QED
        BY <2>1, <2>3, <2>4, <3>1, GoneOwed
    <2>5. CASE o # b
      <3>1. handing' = handing
        BY <1>4 DEF Stop, readVars
      <3> QED
        BY <2>1, <2>3, <2>5, <3>1, OthersSeen
    <2> QED
      BY <2>4, <2>5
  <1>5. ASSUME NEW b \in Bridges, Leave(b) PROVE SeenInv'
    <2> SUFFICES ASSUME NEW o \in Bridges, NEW t \in 1 .. Len(wal') PROVE SeenFor(o, t)'
      BY DEF SeenInv
    <2>1. UNCHANGED <<wal, slot, run, gen, base, got, saved>>
      BY <1>5 DEF Leave, sourceVars, serverVars, readVars
    <2>2. PICK n \in Nat : n = Len(wal)
      BY WalLength DEF BaseInv, Types
    <2>3. /\ rows' \in [Bridges -> None .. n] /\ (rows'[b] = None <=> rows[b] = None)
          /\ IF member[b].on THEN rows'[b] <= member[b].confirmed ELSE rows'[b] = rows[b]
          /\ ~member'[b].on
          /\ \A i \in Bridges : i # b => rows'[i] = rows[i] /\ member'[i] = member[i] /\ pend'[i] = pend[i]
      BY <1>5, <2>2, RemovedEffect DEF Leave, BaseInv, Types
    <2>4. CASE o = b
      <3>1. rows'[b] \in Int
        BY <2>2, <2>3 DEF None
      <3> QED
        BY <2>1, <2>3, <2>4, <3>1, GoneOwed
    <2>5. CASE o # b
      <3>1. handing' = handing
        BY <1>5 DEF Leave, readVars
      <3> QED
        BY <2>1, <2>3, <2>5, <3>1, OthersSeen
    <2> QED
      BY <2>4, <2>5
  <1>6. CASE JoinCreated
    <2> SUFFICES ASSUME NEW o \in Bridges, NEW t \in 1 .. Len(wal') PROVE SeenFor(o, t)'
      BY DEF SeenInv
    <2>1. busy.at = "create" /\ UNCHANGED <<wal, rows>>
      BY <1>6 DEF JoinCreated, At, sourceVars
    <2>2. rows[o] = None
      BY <2>1 DEF BaseInv, QueueInv, StoreInv, StoreOf
    <2> QED
      BY <2>1, <2>2, SeenStep
  <1>7. CASE JoinHold
    <2> SUFFICES ASSUME NEW o \in Bridges, NEW t \in 1 .. Len(wal') PROVE SeenFor(o, t)'
      BY DEF SeenInv
    <2>1. UNCHANGED <<wal, slot, run, gen, base, got, saved, member, pend, handing>> /\ busy.at = "hold"
      BY <1>7 DEF JoinHold, At, sourceVars, serverVars, pipeVars, readVars
    <2>2. busy.bridge \in Bridges /\ base[busy.bridge] = NoBase
      BY <2>1 DEF BaseInv, QueueInv, Joining
    <2>3. CASE o = busy.bridge
      BY <2>1, <2>2, <2>3, SeenStep
    <2>4. CASE o # busy.bridge
      <3>1. rows'[o] = rows[o]
        BY <1>7, <2>4 DEF JoinHold, BaseInv, Types, StoreType
      <3> QED
        BY <2>1, <3>1, OthersSeen
    <2> QED
      BY <2>3, <2>4
  <1>8. CASE JoinGivesUp
    <2> SUFFICES ASSUME NEW o \in Bridges, NEW t \in 1 .. Len(wal') PROVE SeenFor(o, t)'
      BY DEF SeenInv
    <2>1. /\ UNCHANGED <<wal, slot, run, gen, base, got, saved, member, pend, handing>>
          /\ busy.at \in {"publish", "barrier", "take"}
      BY <1>8, GivesUpEffect
    <2>2. busy.bridge \in Bridges /\ base[busy.bridge] = NoBase
      BY <2>1 DEF BaseInv, QueueInv, Joining
    <2>3. CASE o = busy.bridge
      BY <2>1, <2>2, <2>3, SeenStep
    <2>4. CASE o # busy.bridge
      <3>1. rows'[o] = rows[o]
        BY <1>8, <2>4, GivesUpEffect DEF BaseInv, Types, StoreType
      <3> QED
        BY <2>1, <3>1, OthersSeen
    <2> QED
      BY <2>3, <2>4
  <1>9. CASE JoinTake
    <2> SUFFICES ASSUME NEW o \in Bridges, NEW t \in 1 .. Len(wal') PROVE SeenFor(o, t)'
      BY DEF SeenInv
    <2>1. UNCHANGED <<wal, slot, run, gen, base, got, saved, member, pend, handing>> /\ busy.at = "take"
      BY <1>9 DEF JoinTake, At, sourceVars, serverVars, pipeVars, readVars
    <2>2. busy.bridge \in Bridges /\ base[busy.bridge] = NoBase
      BY <2>1 DEF BaseInv, QueueInv, Joining
    <2>3. CASE o = busy.bridge
      BY <2>1, <2>2, <2>3, SeenStep
    <2>4. CASE o # busy.bridge
      <3>1. rows'[o] = rows[o]
        BY <1>9, <2>4 DEF JoinTake, BaseInv, Types, StoreType
      <3> QED
        BY <2>1, <3>1, OthersSeen
    <2> QED
      BY <2>3, <2>4
  <1>10. CASE Restart
    <2> SUFFICES ASSUME NEW o \in Bridges, NEW t \in 1 .. Len(wal') PROVE SeenFor(o, t)'
      BY DEF SeenInv
    <2>1. UNCHANGED <<wal, base, rows, got, saved, slot, member, pend>> /\ (handing' = handing \/ handing' = NoWork)
      BY <1>10 DEF Restart, sourceVars, serverVars, pipeVars, readVars
    <2>2. UNCHANGED <<run, gen, handing>> \/ run'.at # "read" \/ run'.gen # gen'
      <3>1. run.at = "read" => run.gen <= gen
        BY DEF BaseInv, ReaderInv
      <3> QED
        BY <1>10, <3>1, BaseTypes DEF Restart, readVars
    <2> QED
      BY <2>1, <2>2, ReaderChanges
  <1>11. CASE RemoveEnds
    <2> SUFFICES ASSUME NEW o \in Bridges, NEW t \in 1 .. Len(wal') PROVE SeenFor(o, t)'
      BY DEF SeenInv
    <2>1. UNCHANGED <<wal, base, rows, got, saved, slot, member, pend>> /\ (handing' = handing \/ handing' = NoWork)
      BY <1>11, RemoveEndsEffect
    <2>2. UNCHANGED <<run, gen, handing>> \/ run'.at # "read" \/ run'.gen # gen'
      <3>1. handing' = handing
        BY <1>11, RemoveEndsEffect
      <3>2. \/ UNCHANGED <<run, gen>>
            \/ run' = IF run.at = "read" THEN Looping ELSE run
        BY <1>11, RemoveEndsEffect, Zenon
      <3> QED
        BY <3>1, <3>2 DEF Looping
    <2> QED
      BY <2>1, <2>2, ReaderChanges
  <1>12. CASE Closed
    <2> SUFFICES ASSUME NEW o \in Bridges, NEW t \in 1 .. Len(wal') PROVE SeenFor(o, t)'
      BY DEF SeenInv
    <2>1. UNCHANGED <<wal, base, rows, got, saved, slot, member, pend>> /\ (handing' = handing \/ handing' = NoWork)
      BY <1>12, ClosedEffect
    <2>2. UNCHANGED <<run, gen, handing>> \/ run'.at # "read" \/ run'.gen # gen'
      BY <1>12, ClosedEffect
    <2> QED
      BY <2>1, <2>2, ReaderChanges
  <1>13. CASE LeaveDelete
    <2> SUFFICES ASSUME NEW o \in Bridges, NEW t \in 1 .. Len(wal') PROVE SeenFor(o, t)'
      BY DEF SeenInv
    <2>1. UNCHANGED <<wal, slot, run, gen, member, pend, handing>>
      BY <1>13 DEF LeaveDelete, sourceVars, serverVars, readVars
    <2>2. CASE o = busy.bridge
      <3>1. rows'[o] = None
        BY <1>13, <2>2 DEF LeaveDelete, BaseInv, Types, StoreType
      <3> QED
        BY <2>1, <3>1, SeenStep
    <2>3. CASE o # busy.bridge
      <3>1. rows'[o] = rows[o] /\ base'[o] = base[o] /\ got'[o] = got[o] /\ saved'[o] = saved[o]
        BY <1>13, <2>3 DEF LeaveDelete, BaseInv, Types, StoreType, PipeType
      <3> QED
        BY <2>1, <3>1, OthersSeen
    <2> QED
      BY <2>2, <2>3
  <1>14. CASE LeaveUnpublish
    <2> SUFFICES ASSUME NEW o \in Bridges, NEW t \in 1 .. Len(wal') PROVE SeenFor(o, t)'
      BY DEF SeenInv
    <2>1. UNCHANGED <<wal, base, rows, got, saved, slot, member, pend>> /\ (handing' = handing \/ handing' = NoWork)
      BY <1>14, LeaveUnpublishEffect
    <2>2. UNCHANGED <<run, gen, handing>> \/ run'.at # "read" \/ run'.gen # gen'
      <3>1. handing' = handing
        BY <1>14, LeaveUnpublishEffect
      <3>2. \/ UNCHANGED <<run, gen>>
            \/ run' = IF run.at = "read" THEN Looping ELSE run
        BY <1>14, LeaveUnpublishEffect, Zenon
      <3> QED
        BY <3>1, <3>2 DEF Looping
    <2> QED
      BY <2>1, <2>2, ReaderChanges
  <1>15. CASE LeaveLast
    <2> SUFFICES ASSUME NEW o \in Bridges, NEW t \in 1 .. Len(wal') PROVE SeenFor(o, t)'
      BY DEF SeenInv
    <2>1. busy.at = "last" /\ UNCHANGED <<wal, rows>>
      BY <1>15 DEF LeaveLast, At, sourceVars
    <2>2. rows[o] = None
      BY <2>1 DEF BaseInv, QueueInv
    <2> QED
      BY <2>1, <2>2, SeenStep
  <1>16. CASE Cycle
    <2> SUFFICES ASSUME NEW o \in Bridges, NEW t \in 1 .. Len(wal') PROVE SeenFor(o, t)'
      BY DEF SeenInv
    <2>1. UNCHANGED <<wal, base, rows, got, saved, slot, member, pend>> /\ (handing' = handing \/ handing' = NoWork)
      BY <1>16 DEF Cycle, sourceVars, serverVars, pipeVars, queueVars
    <2>2. UNCHANGED <<run, gen, handing>> \/ run'.at # "read" \/ run'.gen # gen'
      BY <1>16 DEF Cycle, sourceVars, serverVars, pipeVars, queueVars, Looping
    <2> QED
      BY <2>1, <2>2, ReaderChanges
  <1>17. CASE RunLoop
    <2> SUFFICES ASSUME NEW o \in Bridges, NEW t \in 1 .. Len(wal') PROVE SeenFor(o, t)'
      BY DEF SeenInv
    <2>1. UNCHANGED <<wal, base, rows, got, saved, slot, member, pend>> /\ (handing' = handing \/ handing' = NoWork)
      BY <1>17 DEF RunLoop, sourceVars, serverVars, pipeVars, streamVars, queueVars
    <2>2. UNCHANGED <<run, gen, handing>> \/ run'.at # "read" \/ run'.gen # gen'
      BY <1>17 DEF RunLoop, sourceVars, serverVars, pipeVars, streamVars, queueVars, NotRunning
    <2> QED
      BY <2>1, <2>2, ReaderChanges
  <1>18. CASE Subscribe
    <2> SUFFICES ASSUME NEW o \in Bridges, NEW t \in 1 .. Len(wal') PROVE SeenFor(o, t)'
      BY DEF SeenInv
    <2>1. UNCHANGED <<wal, base, rows, got, saved, slot, member, pend, handing>>
      BY <1>18 DEF Subscribe, sourceVars, serverVars, pipeVars, streamVars
    <2>2. run'.pos = EndCursor(slot)
      BY <1>18 DEF Subscribe, BaseInv, Types, RunType
    <2>3. Kept(o, t) => run'.pos < Cur(o, t)
      <3>1. t \in Int /\ slot \in Int
        BY BaseTypes
      <3> QED
        BY <2>2, <3>1, CurType DEF Kept
    <2> QED
      BY <2>1, <2>3, ReaderChanges
  <1>19. CASE ReaderEnds
    <2> SUFFICES ASSUME NEW o \in Bridges, NEW t \in 1 .. Len(wal') PROVE SeenFor(o, t)'
      BY DEF SeenInv
    <2>1. UNCHANGED <<wal, base, rows, got, saved, slot, member, pend>> /\ (handing' = handing \/ handing' = NoWork)
      BY <1>19 DEF ReaderEnds, sourceVars, serverVars, pipeVars, streamVars, queueVars
    <2>2. UNCHANGED <<run, gen, handing>> \/ run'.at # "read" \/ run'.gen # gen'
      BY <1>19 DEF ReaderEnds, sourceVars, serverVars, pipeVars, streamVars, queueVars, Looping
    <2> QED
      BY <2>1, <2>2, ReaderChanges
  <1>20. CASE Read
    <2> SUFFICES ASSUME NEW o \in Bridges, NEW t \in 1 .. Len(wal') PROVE SeenFor(o, t)'
      BY DEF SeenInv
    <2>1. UNCHANGED <<wal, base, rows, got, saved, slot, member, pend, gen>>
      BY <1>20 DEF Read, sourceVars, serverVars, pipeVars, streamVars
    <2>2. CASE rows[o] = None
      BY <2>1, <2>2, SeenStep
    <2>3. ASSUME Scope(o, t), Owed(o, t) PROVE Owed(o, t)'
      <3>1. t \in Int /\ t \in 1 .. Len(wal)
        BY <2>1
      <3>2. PICK n \in Nat : n = Len(wal)
        BY WalLength DEF BaseInv, Types
      <3>3. PICK c \in 1 .. EndCursor(n), S \in SUBSET Running :
              /\ run' = [run EXCEPT !.pos = c]
              /\ handing' = IF S = {} THEN NoWork ELSE [cursor |-> c, gen |-> run.gen, todo |-> S]
              /\ \/ NextChanges = {} /\ c = EndCursor(NextTxn)
                 \/ \E k \in NextChanges :
                      /\ c = ChangeCursor(NextTxn, k) /\ \A j \in NextChanges : k <= j
                      /\ S = {b \in Running : Table[b] = k}
        BY <1>20, <3>2, ReadEffect DEF BaseInv
      <3>4. run.at = "read" /\ run.gen = gen /\ handing = NoWork /\ NextTxn \in 1 .. n
        BY <1>20, <3>2, ReadEffect DEF BaseInv
      <3>5. /\ run'.at = "read" /\ run'.gen = run.gen /\ run'.pos = c
            /\ handing'.todo = S /\ (S # {} => handing'.cursor = c /\ handing'.gen = run.gen)
        BY <3>3, <3>4 DEF BaseInv, Types, RunType, NoWork
      <3>6. Kept(o, t)' /\ (InFlight(o, t) => InFlight(o, t)')
        BY <2>1, <2>3 DEF Owed, Kept, Place, InFlight
      <3>7. CASE InFlight(o, t)
        BY <3>6, <3>7 DEF Owed
      <3>8. CASE ~member[o].on
        <4>1. Ahead(o, Cur(o, t))' /\ NotPassed(o, t)'
          BY <2>1, <3>8 DEF Ahead, NotPassed
        <4> QED
          BY <3>6, <4>1 DEF Owed
      <3>9. CASE ~InFlight(o, t) /\ member[o].on
        <4>1. Ahead(o, Cur(o, t))
          BY <2>3, <3>9 DEF Owed
        <4>2. member[o].highest < Cur(o, t) /\ (run.gen < member[o].since \/ run.pos < Cur(o, t))
          BY <3>4, <3>9, <4>1 DEF Ahead, NoWork
        <4>3. run.gen \in Int /\ member[o].since \in Int
          BY BaseTypes
        <4>4. CASE run.gen < member[o].since
          <5>1. Ahead(o, Cur(o, t))'
            BY <2>1, <3>5, <4>2, <4>4 DEF Ahead
          <5>2. NotPassed(o, t)'
            BY <2>1, <3>5, <4>3, <4>4 DEF NotPassed
          <5> QED
            BY <3>6, <5>1, <5>2 DEF Owed
        <4>5. CASE run.pos < Cur(o, t)
          <5>1. c <= Cur(o, t) /\ (c = Cur(o, t) => o \in S)
            <6>1. c \in Int
              <7>1. EndCursor(n) \in Int
                BY EndOrder
              <7> QED
                BY <7>1
            <6>2. t \in 1 .. n
              BY <3>1, <3>2
            <6>3. Scope(o, t) /\ member[o].on /\ run.pos < Cur(o, t) /\ NextTxn \in 1 .. n
              BY <2>3, <3>4, <3>9, <4>5
            <6>4. \/ NextChanges = {} /\ c = EndCursor(NextTxn)
                  \/ \E k \in NextChanges :
                       /\ c = ChangeCursor(NextTxn, k) /\ \A j \in NextChanges : k <= j
                       /\ S = {i \in Running : Table[i] = k}
              BY <3>3
            <6> QED
              BY <3>2, <6>1, <6>2, <6>3, <6>4, NextIsFirst, Zenon
          <5>2. Cur(o, t) \in Int /\ c \in Int
            BY <3>1, CurType
          <5>3. Ahead(o, Cur(o, t))'
            BY <2>1, <3>5, <4>2, <5>1, <5>2 DEF Ahead
          <5>4. NotPassed(o, t)'
            BY <2>1, <3>5, <5>1 DEF NotPassed
          <5> QED
            BY <3>6, <5>3, <5>4 DEF Owed
        <4> QED
          BY <4>2, <4>4, <4>5
      <3> QED
        BY <3>7, <3>8, <3>9
    <2> QED
      BY <2>1, <2>2, <2>3, SeenStep
  <1>21. CASE Heartbeat
    <2> SUFFICES ASSUME NEW o \in Bridges, NEW t \in 1 .. Len(wal') PROVE SeenFor(o, t)'
      BY DEF SeenInv
    <2>1. UNCHANGED <<wal, base, rows, got, saved, pend, run, gen, handing>> /\ t \in Int
      BY <1>21 DEF Heartbeat, sourceVars, pipeVars, readVars
    <2>2. PICK n \in Nat : n = Len(wal)
      BY WalLength DEF BaseInv, Types
    <2>3. CASE rows[o] = None
      BY <2>1, <2>3, SeenStep
    <2>4. ASSUME rows[o] # None, Owed(o, t) PROVE Owed(o, t)'
      <3>1. PICK at : at = run.pos \div Width
        OBVIOUS
      <3>2. /\ at \in 0 .. n
            /\ member'[o].on = member[o].on /\ member'[o].since = member[o].since
            /\ member'[o].highest = member[o].highest
            /\ \/ member'[o].confirmed = member[o].confirmed
               \/ Quiet(o) /\ member'[o].confirmed = at
        BY <1>21, <2>2, <3>1, HeartbeatEffect DEF BaseInv, Types
      <3>3. Reading
        BY <1>21 DEF Heartbeat
      <3>4. Quiet(o) => ~InFlight(o, t)
        <4> SUFFICES ASSUME Quiet(o), NEW i \in DOMAIN pend[o] PROVE FALSE
          BY DEF InFlight
        <4>1. /\ pend[o][i] <= member[o].highest /\ pend[o][i] > member[o].acked
              /\ member[o].highest <= member[o].acked
          BY DEF Quiet, BaseInv, FlightInv, FlightOf
        <4>2. pend[o][i] \in Int /\ member[o].highest \in Int /\ member[o].acked \in Int
          <5>1. EndCursor(n) \in Int
            BY EndOrder
          <5>2. member[o].highest \in Int /\ member[o].acked \in Int
            BY <2>2, <5>1 DEF BaseInv, Types, MemberType
          <5>3. PICK p : p = pend[o] /\ p \in Seq(1 .. EndCursor(n))
            BY <2>2 DEF BaseInv, Types, PipeType
          <5>4. p[i] \in 1 .. EndCursor(n)
            <6>1. i \in DOMAIN p
              BY <5>3, Zenon
            <6> QED
              BY <5>3, <6>1, ElementIn
          <5> QED
            BY <5>1, <5>2, <5>3, <5>4
        <4> QED
          BY <4>1, <4>2
      <3>5. Quiet(o) => run.pos < Cur(o, t)
        <4> SUFFICES ASSUME Quiet(o) PROVE run.pos < Cur(o, t)
          OBVIOUS
        <4>1. Ahead(o, Cur(o, t))
          BY <2>4, <3>4 DEF Owed
        <4>2. member[o].on /\ member[o].since <= run.gen /\ member[o].since \in Int /\ run.gen \in Int
          BY BaseTypes DEF Quiet
        <4>3. run.at = "read" /\ run.gen = gen /\ handing.todo = {}
          BY <3>3 DEF Reading, NoWork
        <4> QED
          BY <4>1, <4>2, <4>3 DEF Ahead
      <3>6. Quiet(o) => at < t
        <4> SUFFICES ASSUME run.pos < Cur(o, t) PROVE at < t
          BY <3>5
        <4>1. run.pos \in Int /\ Table[o] \in Tables
          BY <2>1, BaseTypes, CurType
        <4>2. at \in Int /\ at + 1 <= t
          BY <2>1, <3>1, <4>1, EndsBefore DEF Cur
        <4> QED
          BY <2>1, <4>2
      <3>7. Kept(o, t)
        BY <2>4 DEF Owed
      <3>8. Place(o)' < t /\ member'[o].confirmed \in Int
        BY <2>1, <3>2, <3>6, <3>7, BaseTypes, SMTT(30) DEF Kept, Place
      <3>9. slot' < t
        BY <1>21, <2>1, <2>4, <3>7, <3>8, SlotBehind DEF Kept
      <3>10. Kept(o, t)'
        BY <2>1, <3>7, <3>8, <3>9 DEF Kept
      <3>11. /\ InFlight(o, t) => InFlight(o, t)'
             /\ Ahead(o, Cur(o, t)) => Ahead(o, Cur(o, t))'
             /\ NotPassed(o, t) => NotPassed(o, t)'
        BY <2>1, <3>2 DEF InFlight, Ahead, NotPassed
      <3> QED
        BY <2>4, <3>10, <3>11 DEF Owed
    <2> QED
      BY <2>1, <2>3, <2>4, SeenStep
  <1>22. ASSUME NEW b \in Bridges, HandTo(b) PROVE SeenInv'
    <2> SUFFICES ASSUME NEW o \in Bridges, NEW t \in 1 .. Len(wal') PROVE SeenFor(o, t)'
      BY DEF SeenInv
    <2>1. UNCHANGED <<wal, slot, run, gen, base, rows, got, saved>> /\ b \in handing.todo
      BY <1>22, HandToEffect DEF BaseInv
    <2>2. /\ handing # NoWork
          /\ \A i \in Bridges : i \in handing'.todo <=> i \in handing.todo /\ i # b
          /\ handing' # NoWork => handing'.gen = handing.gen /\ handing'.cursor = handing.cursor
      BY <1>22, <2>1, DoneEffect DEF HandTo, BaseInv
    <2>3. CASE o # b
      <3>1. member'[o] = member[o] /\ pend'[o] = pend[o]
        BY <1>22, <2>3, HandToEffect DEF BaseInv
      <3>2. o \in handing'.todo => handing' # NoWork
        BY DEF NoWork
      <3> QED
        BY <2>1, <2>2, <2>3, <3>1, <3>2, OthersSeen
    <2>4. CASE o = b
      <3>1. CASE rows[b] = None
        BY <2>1, <2>4, <3>1, SeenStep
      <3>2. ASSUME Owed(b, t) PROVE Owed(b, t)'
        <4>1. /\ member'[b].on = member[b].on /\ member'[b].since = member[b].since
              /\ member'[b].confirmed = member[b].confirmed
              /\ Takes(b) => /\ member'[b].highest = handing.cursor
                             /\ pend'[b] = Append(pend[b], handing.cursor)
              /\ ~Takes(b) => member'[b] = member[b] /\ pend'[b] = pend[b]
          BY <1>22, HandToEffect DEF BaseInv
        <4>2. Kept(b, t)' /\ b \notin handing'.todo
          BY <2>1, <2>2, <3>2, <4>1 DEF Owed, Kept, Place
        <4>3. NotPassed(b, t)'
          BY <4>2 DEF NotPassed
        <4>4. CASE Takes(b)
          <5>1. PICK p : p = pend[b] /\ p \in Seq(1 .. EndCursor(Len(wal)))
            BY DEF BaseInv, Types, PipeType
          <5>2. PICK c : c = handing.cursor
            OBVIOUS
          <5>3. PICK q : q = pend'[b] /\ q = Append(p, c)
            BY <4>1, <4>4, <5>1, <5>2
          <5>4. Len(p) + 1 \in DOMAIN q /\ q[Len(p) + 1] = c /\ \A i \in DOMAIN p : i \in DOMAIN q /\ q[i] = p[i]
            BY <5>1, <5>3, AppendKeeps
          <5>5. InFlight(b, t) \/ c = Cur(b, t) => InFlight(b, t)'
            BY <5>1, <5>3, <5>4, Zenon DEF InFlight
          <5>6. CASE InFlight(b, t) \/ c = Cur(b, t)
            BY <4>2, <5>5, <5>6 DEF Owed
          <5>7. CASE ~InFlight(b, t) /\ c # Cur(b, t)
            <6>1. Ahead(b, Cur(b, t)) /\ NotPassed(b, t)
              BY <3>2, <5>7 DEF Owed
            <6>2. c <= Cur(b, t)
              BY <2>1, <4>4, <5>2, <6>1 DEF NotPassed, Takes
            <6>3. c < Cur(b, t)
              <7>1. c \in Int /\ Cur(b, t) \in Int
                BY <2>1, <5>2, BaseTypes, CurType
              <7> QED
                BY <5>7, <6>2, <7>1
            <6>4. Ahead(b, Cur(b, t))'
              BY <2>1, <4>1, <4>4, <5>2, <5>7, <6>1, <6>3 DEF Ahead
            <6> QED
              BY <4>2, <4>3, <6>4 DEF Owed
          <5> QED
            BY <5>6, <5>7
        <4>5. CASE ~Takes(b)
          <5>1. member'[b] = member[b] /\ pend'[b] = pend[b]
            BY <4>1, <4>5
          <5>2. CASE InFlight(b, t)
            BY <4>2, <5>1, <5>2 DEF Owed, InFlight
          <5>3. CASE ~InFlight(b, t)
            <6>1. Ahead(b, Cur(b, t))
              BY <3>2, <5>3 DEF Owed
            <6>2. CASE handing.cursor = Cur(b, t) /\ member[b].on
              <7>1. member[b].highest < Cur(b, t)
                BY <6>1, <6>2 DEF Ahead
              <7>2. ~(member[b].since <= handing.gen)
                BY <4>5, <6>2, <7>1 DEF Takes
              <7>3. run.at = "read" => handing.gen = run.gen
                BY <2>2 DEF BaseInv, ReaderInv
              <7>4. run.at = "read" => run.gen < member[b].since
                BY <7>2, <7>3, BaseTypes
              <7>5. Ahead(b, Cur(b, t))'
                BY <2>1, <5>1, <7>1, <7>4 DEF Ahead
              <7> QED
                BY <4>2, <4>3, <7>5 DEF Owed
            <6>3. CASE ~(handing.cursor = Cur(b, t) /\ member[b].on)
              <7>1. Ahead(b, Cur(b, t))'
                BY <2>1, <5>1, <6>1, <6>3 DEF Ahead
              <7> QED
                BY <4>2, <4>3, <7>1 DEF Owed
            <6> QED
              BY <6>2, <6>3
          <5> QED
            BY <5>2, <5>3
        <4> QED
          BY <4>4, <4>5
      <3> QED
        BY <2>1, <2>4, <3>1, <3>2, SeenStep
    <2> QED
      BY <2>3, <2>4
  <1>23. ASSUME NEW b \in Bridges, HandThrows(b) PROVE SeenInv'
    <2> SUFFICES ASSUME NEW o \in Bridges, NEW t \in 1 .. Len(wal') PROVE SeenFor(o, t)'
      BY DEF SeenInv
    <2>1. UNCHANGED <<wal, slot, run, gen, base, got, saved>>
      BY <1>23 DEF HandThrows, sourceVars, serverVars, readVars
    <2>2. PICK n \in Nat : n = Len(wal)
      BY WalLength DEF BaseInv, Types
    <2>3. /\ rows' \in [Bridges -> None .. n] /\ (rows'[b] = None <=> rows[b] = None)
          /\ IF member[b].on THEN rows'[b] <= member[b].confirmed ELSE rows'[b] = rows[b]
          /\ ~member'[b].on
          /\ \A i \in Bridges : i # b => rows'[i] = rows[i] /\ member'[i] = member[i] /\ pend'[i] = pend[i]
      BY <1>23, <2>2, RemovedEffect DEF HandThrows, BaseInv, Types
    <2>4. CASE o = b
      <3>1. rows'[b] \in Int
        BY <2>2, <2>3 DEF None
      <3> QED
        BY <2>1, <2>3, <2>4, <3>1, GoneOwed
    <2>5. CASE o # b
      <3>1. /\ handing # NoWork /\ (o \in handing'.todo <=> o \in handing.todo)
            /\ handing' # NoWork => handing'.gen = handing.gen /\ handing'.cursor = handing.cursor
        BY <1>23, <2>5, DoneEffect DEF HandThrows, BaseInv
      <3>2. o \in handing'.todo => handing' # NoWork
        BY DEF NoWork
      <3> QED
        BY <2>1, <2>3, <2>5, <3>1, <3>2, OthersSeen
    <2> QED
      BY <2>4, <2>5
  <1>24. ASSUME NEW b \in Bridges, Settle(b) PROVE SeenInv'
    <2> SUFFICES ASSUME NEW o \in Bridges, NEW t \in 1 .. Len(wal') PROVE SeenFor(o, t)'
      BY DEF SeenInv
    <2>1. UNCHANGED <<wal, base, rows, run, gen, handing>> /\ t \in Int /\ pend[b] # <<>>
      BY <1>24 DEF Settle, sourceVars, readVars
    <2>2. PICK n \in Nat : n = Len(wal)
      BY WalLength DEF BaseInv, Types
    <2>3. PICK c : c = Head(pend[b])
      OBVIOUS
    <2>4. /\ c \in 1 .. EndCursor(n) /\ c = pend[b][1] /\ 1 \in DOMAIN pend[b]
          /\ saved' = [saved EXCEPT ![b] = c]
          /\ got' = [got EXCEPT ![b] = IF IsEnd(c) THEN @ ELSE @ \union {TxnOf(c)}]
          /\ member'[b].on = member[b].on /\ member'[b].since = member[b].since
          /\ member'[b].highest = member[b].highest
          /\ \/ member'[b].confirmed = member[b].confirmed
             \/ IsEnd(c) /\ member'[b].confirmed = c \div Width
          /\ \A i \in Bridges : i # b => member'[i] = member[i]
      BY <1>24, <2>2, <2>3, SettleEffect, Zenon DEF BaseInv, Types
    <2>5. pend' = [pend EXCEPT ![b] = Tail(@)]
      BY <1>24 DEF Settle
    <2>6. CASE rows[o] = None
      BY <2>1, <2>6, SeenStep
    <2>7. CASE o # b /\ rows[o] # None
      <3>1. pend'[o] = pend[o] /\ saved'[o] = saved[o] /\ got'[o] = got[o] /\ member'[o] = member[o]
        BY <2>4, <2>5, <2>7 DEF BaseInv, Types, PipeType
      <3>2. ASSUME Owed(o, t) PROVE Owed(o, t)'
        <4>1. Kept(o, t)
          BY <3>2 DEF Owed
        <4>2. Place(o)' < t /\ member'[o].confirmed \in Int
          BY <2>1, <3>1, <4>1, BaseTypes DEF Kept, Place
        <4>3. slot' < t
          BY <1>24, <2>1, <2>7, <4>1, <4>2, SlotBehind DEF Kept
        <4>4. Kept(o, t)'
          BY <3>1, <4>1, <4>2, <4>3 DEF Kept
        <4>5. /\ InFlight(o, t) => InFlight(o, t)'
              /\ Ahead(o, Cur(o, t)) => Ahead(o, Cur(o, t))'
              /\ NotPassed(o, t) => NotPassed(o, t)'
          BY <2>1, <3>1 DEF InFlight, Ahead, NotPassed
        <4> QED
          BY <3>2, <4>4, <4>5 DEF Owed
      <3> QED
        BY <2>1, <2>7, <3>1, <3>2, SeenStep
    <2>8. CASE o = b /\ rows[b] # None
      <3>1. saved'[b] = c /\ got'[b] = IF IsEnd(c) THEN got[b] ELSE got[b] \union {TxnOf(c)}
        BY <2>4 DEF BaseInv, Types, PipeType
      <3>2. EndCursor(n) \in Int /\ c \in Int /\ Cur(b, t) \in Int /\ Table[b] \in Tables
        BY <2>1, <2>4, EndOrder, CurType
      <3>3. ASSUME Owed(b, t) PROVE t \in got'[b] \/ Owed(b, t)'
        <4>1. Kept(b, t)
          BY <3>3 DEF Owed
        <4>2. CASE c = Cur(b, t)
          <5>1. ~IsEnd(c) /\ TxnOf(c) = t
            BY <2>1, <3>2, <4>2, CursorOf DEF Cur
          <5> QED
            BY <3>1, <5>1
        <4>3. CASE c # Cur(b, t)
          <5>1. PICK p : p = pend[b] /\ p \in Seq(Int) /\ p # <<>>
            <6>1. pend[b] \in Seq(1 .. EndCursor(n)) /\ 1 .. EndCursor(n) \subseteq Int
              BY <2>2 DEF BaseInv, Types, PipeType
            <6> QED
              BY <2>1, <6>1, SeqOfInts
          <5>2. PICK q : q = Tail(p) /\ q = pend'[b]
            BY <2>5, <5>1, PendTail DEF BaseInv, Types, PipeType
          <5>3. /\ member[b].on
                /\ \A i \in DOMAIN p : p[i] <= member[b].highest
                /\ \A i \in DOMAIN p : \A j \in DOMAIN p : j < i => p[j] < p[i]
            BY <2>8, <5>1 DEF BaseInv, FlightInv, FlightOf
          <5>4. c = Head(p)
            BY <2>3, <5>1, Zenon
          <5>5. /\ \A i \in DOMAIN q : q[i] > c
                /\ \A i \in DOMAIN p : p[i] = c \/ \E j \in DOMAIN q : q[j] = p[i]
            <6>1. /\ \A i \in DOMAIN Tail(p) :
                       /\ Tail(p)[i] > Head(p) /\ \E k \in DOMAIN p : p[k] = Tail(p)[i]
                       /\ \A j \in DOMAIN Tail(p) : j < i => Tail(p)[j] < Tail(p)[i]
                  /\ \A i \in DOMAIN p : p[i] = Head(p) \/ \E j \in DOMAIN Tail(p) : Tail(p)[j] = p[i]
              BY <5>1, <5>3, TailOrdered
            <6> QED
              BY <5>2, <5>4, <6>1, Zenon
          <5>6. InFlight(b, t) => InFlight(b, t)'
            BY <4>3, <5>1, <5>2, <5>5, Zenon DEF InFlight
          <5>7. c < Cur(b, t)
            <6>1. CASE InFlight(b, t)
              <7>1. PICK j \in DOMAIN q : q[j] = Cur(b, t)
                BY <4>3, <5>1, <5>5, <6>1, Zenon DEF InFlight
              <7>2. Cur(b, t) > c
                BY <5>5, <7>1, Zenon
              <7> QED
                BY <3>2, <7>2
            <6>2. CASE ~InFlight(b, t)
              <7>1. member[b].highest < Cur(b, t)
                BY <3>3, <5>3, <6>2 DEF Owed, Ahead
              <7>2. c <= member[b].highest /\ member[b].highest \in Int
                BY <2>4, <5>1, <5>3, BaseTypes
              <7> QED
                BY <3>2, <7>1, <7>2
            <6> QED
              BY <6>1, <6>2
          <5>8. c \div Width \in Int /\ c \div Width < t
            <6>1. c \div Width \in Int /\ c \div Width + 1 <= t
              BY <2>1, <3>2, <5>7, EndsBefore DEF Cur
            <6> QED
              BY <2>1, <6>1
          <5>9. Place(b)' < t /\ member'[b].confirmed \in Int
            BY <2>1, <2>4, <4>1, <5>3, <5>8, BaseTypes DEF Kept, Place
          <5>10. slot' < t
            BY <1>24, <2>1, <2>8, <4>1, <5>9, SlotBehind DEF Kept
          <5>11. Kept(b, t)'
            BY <3>1, <5>7, <5>9, <5>10 DEF Kept
          <5>12. /\ Ahead(b, Cur(b, t)) => Ahead(b, Cur(b, t))'
                 /\ NotPassed(b, t) => NotPassed(b, t)'
            BY <2>1, <2>4 DEF Ahead, NotPassed
          <5> QED
            BY <3>3, <5>6, <5>11, <5>12 DEF Owed
        <4> QED
          BY <4>2, <4>3
      <3>4. got[b] \subseteq got'[b]
        BY <3>1
      <3> QED
        BY <2>1, <2>8, <3>3, <3>4, SeenStep
    <2> QED
      BY <2>6, <2>7, <2>8
  <1>25. CASE Crash
    <2> SUFFICES ASSUME NEW o \in Bridges, NEW t \in 1 .. Len(wal') PROVE SeenFor(o, t)'
      BY DEF SeenInv
    <2>1. UNCHANGED <<wal, slot, base, got, saved>> /\ ~member'[o].on
      BY <1>25 DEF Crash, sourceVars, serverVars, NoMember
    <2>2. /\ rows'[o] = None <=> rows[o] = None
          /\ IF member[o].on THEN rows'[o] <= member[o].confirmed ELSE rows'[o] = rows[o]
      BY <1>25, CrashRows
    <2>3. rows'[o] \in Int
      BY <1>25 DEF Crash, None
    <2> QED
      BY <2>1, <2>2, <2>3, GoneOwed
  <1> QED
    BY <1>1, <1>2, <1>3, <1>4, <1>5, <1>6, <1>7, <1>8, <1>9, <1>10, <1>11, <1>12, <1>13, <1>14,
       <1>15, <1>16, <1>17, <1>18, <1>19, <1>20, <1>21, <1>22, <1>23, <1>24, <1>25
      DEF Next

-----------------------------------------------------------------------------
(* together *)

(* At the start no bridge has read. *)
LEMMA InitShared == Init => SharedInv
  <1> SUFFICES ASSUME Init PROVE SharedInv
    OBVIOUS
  <1>1. BaseInv
    BY InitBase
  <1>2. PubInv
    BY DEF Init, PubInv, OpenedPublished, HiddenAwaited, RowsPublished, BarrierAlone, Free, NoTxn
  <1>3. HiddenInv /\ SeenInv
    BY DEF Init, HiddenInv, SeenInv, SeenFor, Scope
  <1> QED
    BY <1>1, <1>2, <1>3 DEF SharedInv

(* Every step keeps the invariant. *)
LEMMA StepShared == SharedInv /\ [Next]_vars => SharedInv'
  BY StepBase, PubKept, HiddenKept, SeenKept DEF SharedInv

(* The inductive invariant holds throughout. *)
THEOREM SharedInvariant == Spec => []SharedInv
  BY InitShared, StepShared, PTL DEF Spec

(* The promise of postgres-shared-slot.ts's header: whoever joins, stops,
   leaves, lags or dies, a member of the shared stream misses no change of its
   table. Every change committed after its start was settled, or is in flight,
   or the reader will still send it. *)
THEOREM NoGap == Spec => []NothingMissed
  <1>1. SharedInv => NothingMissed
    <2> SUFFICES ASSUME SharedInv, NEW b \in Bridges, base[b] # NoBase, rows[b] # None,
                        NEW t \in 1 .. Len(wal)
                 PROVE  /\ Table[b] \in wal[t].hidden /\ Table[b] \notin cut => t <= base[b].copied
                        /\ Table[b] \in wal[t].seen /\ t > base[b].from => Had(b, t) \/ ToCome(b, t)
      BY DEF NothingMissed
    <2>1. Table[b] \in wal[t].hidden /\ Table[b] \notin cut => t <= base[b].copied
      BY DEF SharedInv, HiddenInv
    <2>2. ASSUME Table[b] \in wal[t].seen, t > base[b].from PROVE Had(b, t) \/ ToCome(b, t)
      <3>1. t \in got[b] \/ Owed(b, t)
        BY <2>2 DEF SharedInv, SeenInv, SeenFor, Scope
      <3>2. slot # None
        BY DEF SharedInv, BaseInv, StoreInv, StoreOf
      <3> QED
        BY <3>1, <3>2 DEF Had, ToCome, Owed, Kept, Place, InFlight, Cur
    <2> QED
      BY <2>1, <2>2
  <1> QED
    BY <1>1, SharedInvariant, PTL
=============================================================================
