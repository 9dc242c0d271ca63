-------------------------- MODULE WatchPollProofs --------------------------
(***************************************************************************)
(* Proofs about WatchPoll, for any rows, strategies, page sizes and        *)
(* disturbances: types, that a delivery that is shown keeps its number,    *)
(* that no row goes out twice unless its page was cut off, and that no row *)
(* is skipped.                                                             *)
(*                                                                         *)
(* The invariant has these parts.  PlaceInv: what a poll at work has read  *)
(* of the job still holds.  NumberInv: which cells lie behind the saved    *)
(* number.  SentInv: what went out is known to the cursor, or to the one   *)
(* behind the page that is being sent.  TimeInv: no cursor has come so far *)
(* that a transaction could still commit behind it.  DugInv: a poll that   *)
(* pages by offset has only rows before that offset that it knows.         *)
(* FirmInv: what the cursor has passed is settled.                         *)
(***************************************************************************)
EXTENDS WatchPoll, TLAPS, FiniteSetTheorems, WellFoundedInduction

(* a poll has rows of a page to send, or to save *)
InPage == poll.pc \in {"row", "record", "failed", "seq"}
(* a poll has read the job it works from *)
AtWork == poll.pc = "fetch" \/ InPage

(* a poll from the cursor c does not send v *)
Known(c, v) == ~InQuery(c, v) \/ (config.strategy # "increment" /\ v \in c.keys)

(* what the poll at work has read is as it is in the store, and its page is in hand *)
PlaceInv ==
  /\ AtWork => poll.cursor = job.cursor /\ poll.seq = job.offset /\ job.status # "none"
  /\ poll.pc = "seed" => job.status = "none"
  /\ job.status = "none" => job.cursor = NoCursor
  /\ poll.pc \in {"record", "failed", "seq"} => poll.rows # {}
  /\ poll.pc = "failed" => ~poll.ok
  /\ InPage /\ poll.rows # {} => poll.found # 0

(* behind the saved number there is at most the cell of the delivery in hand,
   and what a crash has left *)
NumberInv ==
  /\ job.offset <= Len(cells)
  /\ poll.pc \in {"failed", "seq"} => poll.seq < Len(cells) /\ cells[poll.seq + 1].ok = poll.ok
  /\ \A i \in DOMAIN cells : cells[i].ok /\ i > job.offset =>
       i \in ghost.loose \/ (poll.pc = "seq" /\ i = poll.seq + 1)

(* a row that was sent and is remembered lies at the time of the cursor or before it *)
Reached(c) ==
  config.strategy = "timestamp" => \A v \in c.keys : sent[v] = 0 \/ v[2] <= c.ts

(* what the page in hand has sent, and what it has yet to send *)
PageSent ==
  /\ \A v \in poll.rows : Known(poll.next, v) /\ ~Known(poll.cursor, v)
  /\ config.strategy = "timestamp" => \A v \in poll.rows : v[2] <= poll.next.ts
  /\ \A v \in ghost.page : Known(poll.next, v)
  /\ \A v \in ghost.page \cap poll.rows : poll.pc # "row" /\ v = First(poll.rows)
  /\ \A v \in Versions : sent[v] # 0 /\ Known(poll.cursor, v) => Known(poll.next, v)
  /\ Reached(poll.next)

(* what was sent is known to the cursor, or still on the page in hand *)
SentInv ==
  /\ EmittedOnce
  /\ job.status = "none" => \A v \in Versions : sent[v] = 0
  /\ \A v \in Versions : sent[v] # 0 => v \in ghost.cut \/ v \in ghost.page \/ Known(job.cursor, v)
  /\ Reached(job.cursor)
  /\ ~InPage => ghost.page = {}
  /\ InPage => PageSent

(* whatever is open now commits ahead of t, or within the lookback behind it *)
Reach(t) ==
  /\ config.strategy = "timestamp" => t <= clock
  /\ config.strategy = "increment" => t < clock /\ \A k \in Keys : open[k] # 0 => t < open[k]

(* nothing is visible, open or passed before its time, and each has a place of its own *)
TimeInv ==
  /\ \A k \in Keys : Reach(table[k])
  /\ config.strategy = "timestamp" =>
       \A k \in Keys : open[k] # 0 => open[k] <= clock /\ clock <= open[k] + Late["timestamp"]
  /\ config.strategy = "increment" =>
       /\ \A k \in Keys : open[k] < clock
       /\ \A j, k \in Keys : open[j] # 0 /\ open[k] # 0 => j = k
       /\ \A j, k \in Keys : table[j] # 0 /\ table[j] = table[k] => j = k
  /\ Reach(job.cursor.ts) /\ Reach(poll.cursor.ts) /\ Reach(poll.next.ts)

(* the first n rows of the window are known, and the cursor is past them *)
Dug(n) ==
  \E S \in SUBSET watchQuery(poll.cursor) :
    /\ Cardinality(S) = n
    /\ \A v \in S : Known(poll.cursor, v) /\ v[2] <= poll.cursor.ts
    /\ \A v \in S, u \in watchQuery(poll.cursor) : Precedes(u, v) => u \in S

(* a full page of known rows that leaves the cursor where it is *)
Fruitless == poll.pc = "row" /\ poll.full /\ poll.found = 0 /\ poll.next = poll.cursor

(* an offset stands for that many known rows, unless the window has moved *)
DugInv ==
  ~ghost.shifted /\ config.strategy # "snapshot" =>
    /\ poll.pc = "fetch" => Dug(poll.offset)
    /\ Fruitless => Dug(poll.offset + PageLimit)

(* v is settled, and no later attempt takes that back *)
Firm(v) == v \in landed \/ v \in ghost.before \/ \E p \in parked : p.row = v /\ p.seq < job.offset

(* the row in hand is settled once it has been recorded and, if need be, set aside *)
HandFirm ==
  /\ poll.pc \in {"record", "seq"} /\ poll.ok => First(poll.rows) \in landed
  /\ poll.pc = "seq" /\ ~poll.ok => \E p \in parked : p.row = First(poll.rows) /\ p.seq = poll.seq

(* what the cursor has passed is settled; so is what the page in hand has passed *)
FirmInv ==
  /\ job.status # "none" => \A v \in job.cursor.keys : Firm(v)
  /\ job.status # "none" /\ ~ghost.shifted => \A v \in There : Firm(v) \/ ~Known(job.cursor, v)
  /\ InPage => \A v \in poll.next.keys : Firm(v) \/ v \in poll.rows
  /\ InPage /\ ~ghost.shifted =>
       \A v \in There : Firm(v) \/ v \in poll.rows \/ ~Known(poll.next, v)
  /\ InPage => HandFirm
  /\ poll.pc = "seed" => \A v \in There : v \in ghost.before \/ InQuery(poll.cursor, v)
  /\ config.strategy = "snapshot" => job.cursor.ts = 0 /\ poll.next.ts = 0

-----------------------------------------------------------------------------
(* What is set up: one of three strategies. *)
LEMMA ConfigOK ==
  ASSUME config \in Cases
  PROVE  /\ config.strategy \in Strategies
         /\ config.strategy \in {"increment", "timestamp", "snapshot"}
         /\ config.onError \in {"abort", "continue"} /\ config.budget \in [Kinds -> Nat]
BY WatchAssumption DEF Strategies

(* A set of numbers that is not empty has a least one. *)
LEMMA LeastOf ==
  ASSUME NEW S, S \subseteq Nat, S # {}
  PROVE  \E m \in S : \A n \in S : m <= n
<1>1. IsWellFoundedOn(OpToRel(<, Nat), Nat)
  BY NatLessThanWellFounded
<1>2. PICK m \in S : \A n \in S : ~(<<n, m>> \in OpToRel(<, Nat))
  BY <1>1, WFMin, Zenon
<1>3. \A i, j \in Nat : i < j => <<i, j>> \in OpToRel(<, Nat)
  BY DEF OpToRel
<1>4. \A n \in S : ~(n < m)
  BY <1>2, <1>3, Zenon
<1> QED BY <1>4

(* The top of a set of times. *)
LEMMA TopOf ==
  ASSUME NEW S, S \subseteq 0..MaxTime, NEW least \in 0..MaxTime
  PROVE  /\ Top(S, least) \in S \union {least}
         /\ \A u \in S \union {least} : Top(S, least) >= u
<1> DEFINE T == S \union {least}
           B == {MaxTime - t : t \in T}
<1>1. MaxTime \in Nat /\ T \subseteq 0..MaxTime
  BY WatchAssumption
<1>2. B \subseteq Nat /\ MaxTime - least \in B
  BY <1>1
<1> HIDE DEF B
<1>3. PICK m \in B : \A n \in B : m <= n
  BY <1>2, LeastOf
<1>4. PICK t \in T : m = MaxTime - t
  BY DEF B
<1>5. ASSUME NEW u \in T PROVE t >= u
  <2>1. MaxTime - u \in B
    BY DEF B
  <2> QED BY <1>1, <1>3, <1>4, <2>1
<1> QED BY <1>5, Zenon DEF Top

(* A row is a key and a time. *)
LEMMA VersionOK ==
  ASSUME NEW v \in Versions
  PROVE  v[1] \in Keys /\ v[1] \in Nat /\ v[2] \in 1..MaxTime /\ v[2] \in Nat /\ v = <<v[1], v[2]>>
<1>1. PICK k \in Keys, t \in 1..MaxTime : v = <<k, t>>
  BY DEF Versions
<1>2. v[1] = k /\ v[2] = t
  BY <1>1
<1> QED BY <1>1, <1>2, WatchAssumption

(* The first of some rows is one of them. *)
LEMMA FirstOf ==
  ASSUME NEW S, S \subseteq Versions, S # {}
  PROVE  First(S) \in S
<1> DEFINE K(R) == {v[1] : v \in R}
           M(R) == {v[2] : v \in R}
<1>1. \E v \in S : \A u \in S : ~Precedes(u, v)
  <2>0. K(S) \subseteq Nat /\ M(S) \subseteq Nat /\ K(S) # {} /\ M(S) # {}
    BY VersionOK
  <2>1. CASE config.strategy = "snapshot"
    <3>1. PICK k \in K(S) : \A n \in K(S) : k <= n
      BY <2>0, LeastOf
    <3>2. PICK v \in S : v[1] = k
      BY <3>1
    <3>3. ASSUME NEW u \in S PROVE ~Precedes(u, v)
      <4>1. u[1] \in Nat /\ v[1] \in Nat /\ u[1] \in K(S)
        BY VersionOK
      <4>2. k <= u[1]
        BY <3>1, <4>1
      <4> QED BY <2>1, <3>2, <4>1, <4>2 DEF Precedes
    <3> QED BY <3>3
  <2>2. CASE config.strategy # "snapshot"
    <3>1. PICK t \in M(S) : \A n \in M(S) : t <= n
      BY <2>0, LeastOf
    <3> DEFINE R == {v \in S : v[2] = t}
    <3>2. R # {} /\ R \subseteq S /\ K(R) \subseteq Nat /\ K(R) # {}
      BY <3>1, VersionOK
    <3>3. PICK k \in K(R) : \A n \in K(R) : k <= n
      BY <3>2, LeastOf
    <3>4. PICK v \in R : v[1] = k
      BY <3>3
    <3>5. ASSUME NEW u \in S PROVE ~Precedes(u, v)
      <4>1. u[1] \in Nat /\ u[2] \in Nat /\ v[1] \in Nat /\ v[2] \in Nat /\ v[2] = t
        BY VersionOK
      <4>2. t <= u[2]
        BY <3>1
      <4>3. CASE u[2] = t
        <5>1. k <= u[1]
          BY <3>3, <4>3
        <5> QED BY <2>2, <3>4, <4>1, <4>3, <5>1 DEF Precedes
      <4>4. CASE u[2] # t
        BY <2>2, <4>1, <4>2, <4>4 DEF Precedes
      <4> QED BY <4>3, <4>4
    <3> QED BY <3>4, <3>5
  <2> QED BY <2>1, <2>2
<1> QED BY <1>1, Zenon DEF First

(* The cursor behind a page: no further back, at a row of the page or where it
   was, and what it remembers. *)
LEMMA AdvanceOf ==
  ASSUME config \in Cases, NEW c \in Cursors, NEW page, page \subseteq Versions
  PROVE  /\ advanceCursor(c, page) \in Cursors
         /\ advanceCursor(c, page).ts >= c.ts
         /\ advanceCursor(c, page).keys \subseteq c.keys \union page
         /\ \/ advanceCursor(c, page).ts = c.ts
            \/ \E v \in page : advanceCursor(c, page).ts = v[2]
         /\ config.strategy = "snapshot" =>
              /\ advanceCursor(c, page).ts = c.ts
              /\ advanceCursor(c, page).keys = c.keys \union page
         /\ config.strategy # "snapshot" => \A v \in page : v[2] <= advanceCursor(c, page).ts
         /\ config.strategy = "increment" => advanceCursor(c, page).keys = c.keys
         /\ config.strategy = "timestamp" =>
              /\ \A v \in page : InWindow(v[2], advanceCursor(c, page).ts) => v \in advanceCursor(c, page).keys
              /\ \A v \in c.keys : c.ts # 0 /\ InWindow(c.ts, advanceCursor(c, page).ts) =>
                   v \in advanceCursor(c, page).keys
<1> DEFINE M == {v[2] : v \in page}
<1>1. M \subseteq 0..MaxTime /\ c.ts \in 0..MaxTime /\ c.keys \subseteq Versions /\ c = [ts |-> c.ts, keys |-> c.keys]
  BY VersionOK, WatchAssumption DEF Cursors
<1>2. PICK top : top = Top(M, c.ts)
  OBVIOUS
<1>3. /\ top \in M \union {c.ts} /\ \A u \in M \union {c.ts} : top >= u
  BY <1>1, <1>2, TopOf, Zenon
<1>4. /\ top \in 0..MaxTime /\ top >= c.ts /\ (top = c.ts \/ \E v \in page : top = v[2])
      /\ \A v \in page : v[2] <= top
  BY <1>1, <1>3, VersionOK
<1>5. CASE config.strategy = "increment"
  <2>1. advanceCursor(c, page) = [c EXCEPT !.ts = top]
    BY <1>2, <1>5 DEF advanceCursor
  <2>2. advanceCursor(c, page) = [ts |-> top, keys |-> c.keys]
    BY <1>1, <2>1
  <2> QED BY <1>1, <1>4, <1>5, <2>2 DEF Cursors
<1>6. CASE config.strategy = "snapshot"
  <2>1. advanceCursor(c, page) = [c EXCEPT !.keys = @ \union page]
    BY <1>6 DEF advanceCursor
  <2>2. advanceCursor(c, page) = [ts |-> c.ts, keys |-> c.keys \union page]
    BY <1>1, <2>1
  <2> QED BY <1>1, <1>6, <2>2, WatchAssumption DEF Cursors
<1>7. CASE config.strategy = "timestamp" /\ page = {}
  <2>1. advanceCursor(c, page) = c
    BY <1>7 DEF advanceCursor
  <2> QED BY <1>1, <1>7, <2>1, WatchAssumption
<1>8. CASE config.strategy = "timestamp" /\ page # {}
  <2>1. advanceCursor(c, page) =
          [ts |-> top, keys |-> {v \in page : InWindow(v[2], top)}
                                  \union {v \in c.keys : c.ts # 0 /\ InWindow(c.ts, top)}]
    BY <1>2, <1>8 DEF advanceCursor
  <2>2. PICK K : K = {v \in page : InWindow(v[2], top)} \union {v \in c.keys : c.ts # 0 /\ InWindow(c.ts, top)}
    OBVIOUS
  <2>3. advanceCursor(c, page) = [ts |-> top, keys |-> K]
    BY <2>1, <2>2, Zenon
  <2>4. K \subseteq c.keys \union page
    BY <2>2
  <2>5. advanceCursor(c, page).ts = top /\ advanceCursor(c, page).keys = K
    BY <2>3
  <2>6. advanceCursor(c, page) \in Cursors
    BY <1>1, <1>4, <2>3, <2>4 DEF Cursors
  <2> QED BY <1>4, <1>8, <2>2, <2>4, <2>5, <2>6
<1> QED BY <1>5, <1>6, <1>7, <1>8, ConfigOK

(* Rows, and what a poll asks for, are finitely many. *)
LEMMA WindowOK ==
  ASSUME SourceType
  PROVE  /\ There \subseteq Versions /\ IsFiniteSet(There)
         /\ \A c : watchQuery(c) \subseteq There /\ IsFiniteSet(watchQuery(c))
         /\ \A c, o : Page(c, o) \subseteq watchQuery(c) /\ IsFiniteSet(Page(c, o))
         /\ \A v \in There : v[1] \in Keys /\ v[2] = table[v[1]] /\ table[v[1]] # 0
         /\ \A k \in Keys : table[k] # 0 => <<k, table[k]>> \in There
<1>1. \A v \in There : v[1] \in Keys /\ v[2] = table[v[1]] /\ table[v[1]] # 0 /\ v \in Versions
  <2> SUFFICES ASSUME NEW v \in There
               PROVE  v[1] \in Keys /\ v[2] = table[v[1]] /\ table[v[1]] # 0 /\ v \in Versions
    OBVIOUS
  <2>1. PICK k \in Keys : v = <<k, table[k]>> /\ table[k] # 0
    BY DEF There
  <2>2. table[k] \in 1..MaxTime
    BY <2>1, WatchAssumption DEF SourceType
  <2> QED BY <2>1, <2>2 DEF Versions
<1>2. IsFiniteSet(Versions)
  <2>1. IsFiniteSet(1..MaxTime)
    BY FS_Interval, WatchAssumption
  <2> QED BY <2>1, FS_Product, WatchAssumption DEF Versions
<1>3. There \subseteq Versions /\ IsFiniteSet(There)
  BY <1>1, <1>2, FS_Subset
<1>4. \A c : watchQuery(c) \subseteq There /\ IsFiniteSet(watchQuery(c))
  <2>1. \A c : watchQuery(c) \subseteq There
    BY DEF watchQuery
  <2> QED BY <1>3, <2>1, FS_Subset
<1>5. \A c, o : Page(c, o) \subseteq watchQuery(c) /\ IsFiniteSet(Page(c, o))
  <2>1. \A c, o : Page(c, o) \subseteq watchQuery(c)
    BY DEF Page
  <2> QED BY <1>4, <2>1, FS_Subset
<1>6. \A k \in Keys : table[k] # 0 => <<k, table[k]>> \in There
  BY DEF There
<1> QED BY <1>1, <1>3, <1>4, <1>5, <1>6

(* The new rows of a page are of the page, and finitely many. *)
LEMMA NewRowsOf ==
  ASSUME SourceType, NEW c, NEW o
  PROVE  /\ newRows(c, Page(c, o)) \subseteq Page(c, o)
         /\ Cardinality(newRows(c, Page(c, o))) \in Nat /\ Cardinality(Page(c, o)) \in Nat
         /\ Cardinality(newRows(c, Page(c, o))) = 0 => newRows(c, Page(c, o)) = {}
<1>1. newRows(c, Page(c, o)) \subseteq Page(c, o)
  BY DEF newRows
<1>2. IsFiniteSet(Page(c, o))
  BY WindowOK
<1>3. IsFiniteSet(newRows(c, Page(c, o)))
  BY <1>1, <1>2, FS_Subset
<1> QED BY <1>1, <1>2, <1>3, FS_CardinalityType, FS_EmptySet

(* The rows of a page are known to the cursor behind it. *)
LEMMA KnownBehind ==
  ASSUME config \in Cases, NEW c \in Cursors, NEW page, page \subseteq Versions, NEW v \in page
  PROVE  Known(advanceCursor(c, page), v)
<1> DEFINE n == advanceCursor(c, page)
<1>1. n \in Cursors /\ n.ts \in Nat /\ v[2] \in Nat
  BY AdvanceOf, VersionOK, WatchAssumption DEF Cursors
<1>2. CASE config.strategy = "increment"
  <2>1. v[2] <= n.ts
    BY <1>2, AdvanceOf
  <2> QED BY <1>1, <1>2, <2>1 DEF Known, InQuery
<1>3. CASE config.strategy = "snapshot"
  <2>1. n.keys = c.keys \union page
    BY <1>3, AdvanceOf
  <2> QED BY <1>3, <2>1 DEF Known
<1>4. CASE config.strategy = "timestamp"
  <2>1. InWindow(v[2], n.ts) => v \in n.keys
    BY <1>4, AdvanceOf
  <2>2. ~InWindow(v[2], n.ts) => ~InQuery(n, v)
    BY <1>4 DEF InWindow, InQuery
  <2> QED BY <1>4, <2>1, <2>2 DEF Known
<1> QED BY <1>2, <1>3, <1>4, ConfigOK

(* What the cursor knew and had reached, the cursor behind a page knows. *)
LEMMA KnownOn ==
  ASSUME config \in Cases, NEW c \in Cursors, NEW page, page \subseteq Versions, NEW v \in Versions,
         Known(c, v), config.strategy = "timestamp" /\ v \in c.keys => v[2] <= c.ts
  PROVE  Known(advanceCursor(c, page), v)
<1> DEFINE n == advanceCursor(c, page)
<1>1. n \in Cursors /\ n.ts \in Nat /\ c.ts \in Nat /\ v[2] \in Nat /\ v[2] > 0 /\ n.ts >= c.ts /\ Lookback \in Nat
  BY AdvanceOf, VersionOK, WatchAssumption DEF Cursors
<1>2. CASE config.strategy = "increment"
  BY <1>1, <1>2 DEF Known, InQuery
<1>3. CASE config.strategy = "snapshot"
  <2>1. n.keys = c.keys \union page
    BY <1>3, AdvanceOf
  <2> QED BY <1>3, <2>1 DEF Known, InQuery
<1>4. CASE config.strategy = "timestamp" /\ v \in c.keys
  <2>1. c.ts # 0 /\ InWindow(c.ts, n.ts) => v \in n.keys
    BY <1>4, AdvanceOf
  <2>2. ~InWindow(c.ts, n.ts) => ~InQuery(n, v)
    BY <1>1, <1>4 DEF InWindow, InQuery
  <2> QED BY <1>1, <1>4, <2>1, <2>2 DEF Known
<1>5. CASE config.strategy = "timestamp" /\ v \notin c.keys
  BY <1>1, <1>5 DEF Known, InQuery
<1> QED BY <1>2, <1>3, <1>4, <1>5, ConfigOK

-----------------------------------------------------------------------------
(* types *)

(* A poll begins with nothing. *)
LEMMA IdleOK == NoCursor \in Cursors /\ Idle \in Polls
<1>1. NoCursor \in Cursors
  BY WatchAssumption DEF NoCursor, Cursors
<1> QED BY <1>1 DEF Idle, Polls

(* The types hold at first. *)
LEMMA InitTypes == Init => TypeOK
<1> SUFFICES ASSUME Init PROVE TypeOK
  OBVIOUS
<1>1. config \in Cases /\ budget \in [Kinds -> Nat]
  BY ConfigOK DEF Init
<1>2. SourceType
  BY WatchAssumption DEF Init, SourceType
<1>3. OutType
  BY DEF Init, OutType
<1>4. poll \in Polls /\ NoCursor \in Cursors
  BY IdleOK DEF Init
<1> QED BY <1>1, <1>2, <1>3, <1>4 DEF Init, TypeOK

(* What is spent was there. *)
LEMMA SpendOK ==
  ASSUME budget \in [Kinds -> Nat], NEW k \in Kinds, k # "any", Spend(k)
  PROVE  budget' \in [Kinds -> Nat]
<1>1. "any" \in Kinds /\ budget[k] \in Nat /\ budget["any"] \in Nat /\ budget[k] > 0 /\ budget["any"] > 0
  BY DEF Kinds, Spend
<1>2. budget' = [budget EXCEPT ![k] = @ - 1, !["any"] = @ - 1]
  BY DEF Spend
<1>3. \A x \in Kinds : budget'[x] \in Nat
  BY <1>1, <1>2
<1> QED BY <1>2, <1>3

(* A sequence with one element replaced. *)
LEMMA ExceptSeq ==
  ASSUME NEW S, NEW s \in Seq(S), NEW i, NEW e \in S
  PROVE  /\ [s EXCEPT ![i] = e] \in Seq(S) /\ Len([s EXCEPT ![i] = e]) = Len(s)
         /\ DOMAIN [s EXCEPT ![i] = e] = DOMAIN s
         /\ \A j \in DOMAIN s : [s EXCEPT ![i] = e][j] = IF j = i THEN e ELSE s[j]
<1>1. /\ Len(s) \in Nat /\ DOMAIN s = 1..Len(s) /\ s = [j \in 1..Len(s) |-> s[j]]
      /\ \A j \in 1..Len(s) : s[j] \in S
  OBVIOUS
<1>2. PICK t : t = [j \in 1..Len(s) |-> IF j = i THEN e ELSE s[j]]
  OBVIOUS
<1>3. t \in [1..Len(s) -> S]
  BY <1>1, <1>2
<1>4. t \in Seq(S) /\ Len(t) = Len(s) /\ DOMAIN t = 1..Len(s)
  BY <1>1, <1>3
<1>5. [s EXCEPT ![i] = e] = t
  BY <1>1, <1>2, Zenon
<1>6. \A j \in DOMAIN s : t[j] = IF j = i THEN e ELSE s[j]
  BY <1>1, <1>2
<1> QED BY <1>1, <1>4, <1>5, <1>6, Zenon

(* Each step keeps the types: the source... *)
LEMMA SourceTypes ==
  ASSUME TypeOK, Tick \/ \E k \in Keys : Begin(k) \/ Commit(k) \/ Delete(k)
  PROVE  TypeOK'
<1>1. /\ budget \in [Kinds -> Nat] /\ "delete" \in Kinds /\ "write" \in Kinds
      /\ clock \in 1..MaxTime /\ open \in [Keys -> 0..MaxTime] /\ table \in [Keys -> 0..MaxTime] /\ MaxTime \in Nat \ {0}
      /\ ghost.before \subseteq Versions /\ ghost.page \subseteq Versions /\ ghost.cut \subseteq Versions
      /\ ghost.loose \subseteq Nat /\ ghost.shifted \in BOOLEAN
  BY WatchAssumption DEF TypeOK, SourceType, Kinds
<1>2. CASE Tick
  BY <1>1, <1>2 DEF TypeOK, SourceType, OutType, Tick, CanTick, outVars
<1>3. ASSUME NEW k \in Keys, Begin(k) PROVE TypeOK'
  <2>1. budget' \in [Kinds -> Nat]
    BY <1>1, <1>3 DEF Begin
  <2>2. open' \in [Keys -> 0..MaxTime] /\ UNCHANGED <<config, table, job, poll, outVars, ghost>>
    BY <1>1, <1>3 DEF Begin
  <2>3. clock' \in 1..MaxTime
    BY <1>1, <1>3 DEF Begin
  <2> QED BY <2>1, <2>2, <2>3 DEF TypeOK, SourceType, OutType, outVars
<1>4. ASSUME NEW k \in Keys, Commit(k) \/ Delete(k) PROVE TypeOK'
  <2>1. budget' \in [Kinds -> Nat]
    <3>1. CASE Commit(k)
      BY <1>1, <3>1 DEF Commit
    <3>2. CASE Delete(k)
      BY <1>1, <3>2, SpendOK DEF Delete
    <3> QED BY <1>4, <3>1, <3>2
  <2>2. open' \in [Keys -> 0..MaxTime] /\ table' \in [Keys -> 0..MaxTime] /\ UNCHANGED <<clock, config, job, poll, outVars>>
    BY <1>1, <1>4 DEF Commit, Delete
  <2>3. PICK s : s = (Digging /\ (table[k] # 0 \/ open[k] <= poll.cursor.ts))
    OBVIOUS
  <2>4. s \in BOOLEAN
    BY <2>3 DEF Digging
  <2>5. ghost' = [ghost EXCEPT !.shifted = @ \/ s]
    BY <1>4, <2>3 DEF Commit, Delete, Moves
  <2>6. ghost' \in [before : SUBSET Versions, page : SUBSET Versions, cut : SUBSET Versions, loose : SUBSET Nat,
                    shifted : BOOLEAN]
    BY <1>1, <2>4, <2>5 DEF TypeOK
  <2> QED BY <2>1, <2>2, <2>6 DEF TypeOK, SourceType, OutType, outVars
<1> QED BY <1>2, <1>3, <1>4

(* ...starting and stopping... *)
LEMMA StartTypes ==
  ASSUME TypeOK, Start \/ Seed \/ Restart \/ Stop
  PROVE  TypeOK'
<1>1. /\ budget \in [Kinds -> Nat] /\ "stop" \in Kinds /\ There \subseteq Versions /\ Idle \in Polls /\ NoCursor \in Cursors
      /\ job \in [status : {"none", "running", "paused"}, cursor : Cursors, offset : Nat] /\ poll \in Polls
      /\ ghost \in [before : SUBSET Versions, page : SUBSET Versions, cut : SUBSET Versions, loose : SUBSET Nat,
                    shifted : BOOLEAN]
      /\ SourceType /\ OutType /\ config \in Cases
  BY WindowOK, IdleOK DEF TypeOK, Kinds
<1>2. /\ ghost.before \subseteq Versions /\ ghost.page \subseteq Versions /\ ghost.cut \subseteq Versions
      /\ ghost.loose \subseteq Nat /\ ghost.shifted \in BOOLEAN
  BY <1>1
<1>3. CASE Start
  <2>1. Top({v[2] : v \in There}, 0) \in 0..MaxTime
    <3>1. {v[2] : v \in There} \subseteq 0..MaxTime /\ 0 \in 0..MaxTime
      BY <1>1, VersionOK, WatchAssumption
    <3> QED BY <3>1, TopOf
  <2>2. PICK t \in 0..MaxTime : t = Top({v[2] : v \in There}, 0)
    BY <2>1
  <2>3. job' \in [status : {"none", "running", "paused"}, cursor : Cursors, offset : Nat]
    BY <1>1, <1>3 DEF Start
  <2>4. poll' \in Polls
    <3>1. poll' = poll \/ poll' = [Idle EXCEPT !.pc = "seed", !.cursor.ts = t]
      BY <1>3, <2>2 DEF Start
    <3>2. [NoCursor EXCEPT !.ts = t] \in Cursors
      BY <1>1 DEF Cursors
    <3>3. [Idle EXCEPT !.pc = "seed", !.cursor.ts = t] = [Idle EXCEPT !.pc = "seed", !.cursor = [NoCursor EXCEPT !.ts = t]]
      BY DEF Idle
    <3>4. [Idle EXCEPT !.pc = "seed", !.cursor = [NoCursor EXCEPT !.ts = t]] \in Polls
      BY <1>1, <3>2 DEF Polls
    <3> QED BY <1>1, <3>1, <3>3, <3>4
  <2>5. PICK B \in SUBSET Versions : ghost' = [ghost EXCEPT !.before = B]
    BY <1>1, <1>3 DEF Start
  <2> QED BY <1>1, <1>3, <2>3, <2>4, <2>5 DEF TypeOK, Start, sourceVars, outVars, SourceType, OutType
<1>4. CASE Seed
  <2>1. PICK keys \in SUBSET Versions, ts \in 0..MaxTime :
          /\ job' = [job EXCEPT !.status = "running", !.cursor = [ts |-> ts, keys |-> keys]]
          /\ ghost' = [ghost EXCEPT !.before = @ \union keys]
    <3>1. poll.cursor.ts \in 0..MaxTime
      BY <1>1 DEF Polls, Cursors
    <3>2. PICK keys : keys = CASE config.strategy = "increment" -> {}
                               [] config.strategy = "snapshot"  -> There
                               [] OTHER -> {v \in There : poll.cursor.ts # 0 /\ v[2] >= poll.cursor.ts}
      OBVIOUS
    <3>3. keys \in SUBSET Versions
      BY <1>1, <3>2
    <3>4. PICK ts : ts = IF config.strategy = "snapshot" THEN 0 ELSE poll.cursor.ts
      OBVIOUS
    <3>5. ts \in 0..MaxTime
      BY <3>1, <3>4, WatchAssumption
    <3>6. /\ job' = [job EXCEPT !.status = "running", !.cursor = [ts |-> ts, keys |-> keys]]
          /\ ghost' = [ghost EXCEPT !.before = @ \union keys]
      BY <1>4, <3>2, <3>4 DEF Seed
    <3> QED BY <3>3, <3>5, <3>6
  <2>2. [ts |-> ts, keys |-> keys] \in Cursors
    BY DEF Cursors
  <2>3. job' \in [status : {"none", "running", "paused"}, cursor : Cursors, offset : Nat]
    BY <1>1, <2>1, <2>2
  <2>4. ghost' \in [before : SUBSET Versions, page : SUBSET Versions, cut : SUBSET Versions, loose : SUBSET Nat,
                    shifted : BOOLEAN]
    BY <1>1, <1>2, <2>1
  <2> QED BY <1>1, <1>4, <2>3, <2>4 DEF TypeOK, Seed, sourceVars, outVars, SourceType, OutType
<1>5. CASE Restart
  BY <1>1, <1>5 DEF TypeOK, Restart, sourceVars, outVars, SourceType, OutType
<1>6. CASE Stop
  <2>1. budget' \in [Kinds -> Nat]
    BY <1>1, <1>6, SpendOK DEF Stop
  <2>2. poll' \in Polls
    BY <1>1, <1>6 DEF Stop, Polls
  <2> QED BY <1>1, <1>6, <2>1, <2>2 DEF TypeOK, Stop, sourceVars, outVars, SourceType, OutType
<1> QED BY <1>3, <1>4, <1>5, <1>6

(* The type of the ghost, and the types of what a poll leaves alone. *)
GhostType ==
  ghost \in [before : SUBSET Versions, page : SUBSET Versions, cut : SUBSET Versions, loose : SUBSET Nat,
             shifted : BOOLEAN]
(* the type of the saved job *)
JobType == job \in [status : {"none", "running", "paused"}, cursor : Cursors, offset : Nat]

(* The parts of the types. *)
LEMMA TypeParts ==
  TypeOK <=> /\ config \in Cases /\ budget \in [Kinds -> Nat] /\ SourceType /\ OutType
             /\ JobType /\ poll \in Polls /\ GhostType
BY DEF TypeOK, GhostType, JobType

(* A step of a poll leaves the source alone. *)
LEMMA PartsStay ==
  ASSUME TypeOK, UNCHANGED <<config, sourceVars>>,
         budget' \in [Kinds -> Nat], OutType', JobType', poll' \in Polls, GhostType'
  PROVE  TypeOK'
BY DEF TypeOK, GhostType, JobType, SourceType, sourceVars

(* The fields of a poll. *)
LEMMA PollFields ==
  ASSUME poll \in Polls
  PROVE  /\ poll.cursor \in Cursors /\ poll.next \in Cursors /\ poll.seq \in Nat /\ poll.offset \in Nat
         /\ poll.pages \in Nat /\ poll.delivered \in Nat /\ poll.found \in Nat /\ poll.fails \in Nat
         /\ poll.rows \subseteq Versions /\ poll.full \in BOOLEAN /\ poll.ok \in BOOLEAN /\ poll.aborted \in BOOLEAN
BY DEF Polls

(* A page that was cut off. *)
LEMMA CutTypes ==
  ASSUME GhostType, NEW n \in SUBSET Nat,
         ghost' = [ghost EXCEPT !.cut = @ \union ghost.page, !.page = {}, !.loose = n]
  PROVE  GhostType'
BY DEF GhostType
(* A poll that is cut off keeps the type of the ghost. *)
LEMMA CutOffTypes ==
  ASSUME GhostType, CutOff
  PROVE  GhostType'
BY DEF GhostType, CutOff

(* ...a poll up to its delivery... *)
LEMMA FetchTypes ==
  ASSUME TypeOK, PollBegin \/ Fetch \/ PollEnd \/ \E ok \in BOOLEAN : Deliver(ok)
  PROVE  TypeOK'
<1>1. /\ config \in Cases /\ budget \in [Kinds -> Nat] /\ SourceType /\ OutType
      /\ JobType /\ poll \in Polls /\ GhostType
  BY TypeParts
<1>2. CASE PollBegin
  <2>1. job.cursor \in Cursors /\ job.offset \in Nat
    BY <1>1 DEF JobType
  <2>2. poll' = [Idle EXCEPT !.pc = "fetch", !.cursor = job.cursor, !.seq = job.offset]
    BY <1>2 DEF PollBegin
  <2>3. poll' \in Polls
    BY <2>1, <2>2, IdleOK DEF Polls
  <2> QED BY <1>1, <1>2, <2>3, PartsStay DEF PollBegin, outVars, OutType, JobType, GhostType
<1>3. CASE Fetch
  <2>1. PICK page : page = Page(poll.cursor, poll.offset)
    OBVIOUS
  <2>2. page \subseteq Versions /\ newRows(poll.cursor, page) \subseteq Versions
        /\ Cardinality(newRows(poll.cursor, page)) \in Nat /\ Cardinality(page) \in Nat
    BY <1>1, <2>1, WindowOK, NewRowsOf
  <2>3. advanceCursor(poll.cursor, page) \in Cursors
    BY <1>1, <2>2, AdvanceOf, PollFields
  <2>4. PICK n \in Cursors, R \in SUBSET Versions, f \in Nat, b \in BOOLEAN, g \in Nat :
          /\ n = advanceCursor(poll.cursor, page) /\ R = newRows(poll.cursor, page) /\ f = Cardinality(R)
          /\ b = (Cardinality(page) >= PageLimit) /\ g = poll.pages + 1
    <3>1. poll.pages + 1 \in Nat /\ (Cardinality(page) >= PageLimit) \in BOOLEAN
      BY <1>1, <2>2, PollFields
    <3> QED BY <2>2, <2>3, <3>1, Zenon
  <2>5. poll' = [poll EXCEPT !.pc = "row", !.pages = g, !.rows = R, !.found = f, !.next = n, !.full = b]
    BY <1>3, <2>1, <2>4, Zenon DEF Fetch
  <2>6. poll' \in Polls
    BY <1>1, <2>5 DEF Polls
  <2> QED BY <1>1, <1>3, <2>6, PartsStay DEF Fetch, outVars, OutType, JobType, GhostType
<1>4. CASE PollEnd
  <2>1. GhostType' /\ poll' \in Polls
    BY <1>1, <1>4, CutOffTypes, IdleOK DEF PollEnd, Over
  <2> QED BY <1>1, <1>4, <2>1, PartsStay DEF PollEnd, outVars, OutType, JobType
<1>5. ASSUME NEW ok \in BOOLEAN, Deliver(ok) PROVE TypeOK'
  <2>1. PICK v : v = First(poll.rows)
    OBVIOUS
  <2>2. v \in Versions
    BY <1>1, <1>5, <2>1, FirstOf, PollFields DEF Deliver
  <2>3. /\ sent' = [sent EXCEPT ![v] = IF @ = 0 THEN 1 ELSE 2]
        /\ landed' = IF ok THEN landed \union {v} ELSE landed
        /\ ghost' = [ghost EXCEPT !.page = @ \union {v}]
    BY <1>5, <2>1 DEF Deliver
  <2>4. UNCHANGED <<config, sourceVars, job, cells, parked>> /\ poll' = [poll EXCEPT !.pc = "record", !.ok = ok]
    BY <1>5 DEF Deliver
  <2>5. OutType'
    BY <1>1, <2>2, <2>3, <2>4 DEF OutType
  <2>6. GhostType' /\ poll' \in Polls
    BY <1>1, <2>2, <2>3, <2>4 DEF GhostType, Polls
  <2>7. budget' \in [Kinds -> Nat]
    <3>1. budget' = budget \/ (budget["fail"] > 0 /\ budget' = [budget EXCEPT !["fail"] = @ - 1])
      BY <1>5, Zenon DEF Deliver
    <3>2. "fail" \in Kinds
      BY DEF Kinds
    <3> QED BY <1>1, <3>1, <3>2
  <2> QED BY <1>1, <2>4, <2>5, <2>6, <2>7, PartsStay DEF JobType
<1> QED BY <1>2, <1>3, <1>4, <1>5

(* ...and behind it. *)
LEMMA SettleTypes ==
  ASSUME TypeOK, PlaceInv, Record \/ Pause \/ Park \/ SaveSeq \/ SavePage \/ Drift \/ Crash
  PROVE  TypeOK'
<1>1. /\ config \in Cases /\ budget \in [Kinds -> Nat] /\ SourceType /\ OutType
      /\ JobType /\ poll \in Polls /\ GhostType /\ "park" \in Kinds /\ "drift" \in Kinds /\ "crash" \in Kinds
  BY TypeParts DEF Kinds
<1>2. /\ poll.cursor \in Cursors /\ poll.next \in Cursors /\ poll.seq \in Nat /\ poll.offset \in Nat
      /\ poll.pages \in Nat /\ poll.delivered \in Nat /\ poll.found \in Nat /\ poll.fails \in Nat
      /\ poll.rows \subseteq Versions /\ poll.full \in BOOLEAN /\ poll.ok \in BOOLEAN /\ poll.aborted \in BOOLEAN
      /\ (poll.pc \in {"record", "failed", "seq"} => First(poll.rows) \in Versions)
  BY <1>1, PollFields, FirstOf DEF PlaceInv
<1>3. CASE Record
  <2>1. PICK cell : cell = [row |-> First(poll.rows), ok |-> poll.ok]
    OBVIOUS
  <2>2. cell \in [row : Versions, ok : BOOLEAN]
    BY <1>2, <1>3, <2>1 DEF Record
  <2>3. cells' = IF poll.seq < Len(cells) THEN [cells EXCEPT ![poll.seq + 1] = cell] ELSE Append(cells, cell)
    BY <1>3, <2>1 DEF Record
  <2>4. cells' \in Seq([row : Versions, ok : BOOLEAN])
    <3>1. cells \in Seq([row : Versions, ok : BOOLEAN])
      BY <1>1 DEF OutType
    <3>2. CASE poll.seq < Len(cells)
      <4>1. cells' = [cells EXCEPT ![poll.seq + 1] = cell]
        BY <2>3, <3>2
      <4> QED BY <2>2, <3>1, <4>1, ExceptSeq
    <3>3. CASE ~(poll.seq < Len(cells))
      <4>1. cells' = Append(cells, cell)
        BY <2>3, <3>3
      <4> QED BY <2>2, <3>1, <4>1
    <3> QED BY <3>2, <3>3
  <2>5. poll' \in Polls
    <3>1. PICK f \in Nat : f = poll.fails + 1
      BY <1>2
    <3>2. poll' = [poll EXCEPT !.pc = "seq", !.fails = 0] \/ poll' = [poll EXCEPT !.pc = "failed", !.fails = f]
      BY <1>3, <3>1 DEF Record
    <3>3. 0 \in Nat
      OBVIOUS
    <3>4. CASE poll' = [poll EXCEPT !.pc = "seq", !.fails = 0]
      BY <1>1, <3>3, <3>4 DEF Polls
    <3>5. CASE poll' = [poll EXCEPT !.pc = "failed", !.fails = f]
      BY <1>1, <3>1, <3>5 DEF Polls
    <3> QED BY <3>2, <3>4, <3>5
  <2> QED BY <1>1, <1>3, <2>4, <2>5, PartsStay DEF Record, OutType, JobType, GhostType
<1>4. CASE Pause
  <2>1. budget' \in [Kinds -> Nat]
    BY <1>1, <1>4, SpendOK DEF Pause
  <2>2. GhostType' /\ poll' \in Polls /\ JobType'
    BY <1>1, <1>4, CutOffTypes, IdleOK DEF Pause, Over, JobType
  <2> QED BY <1>1, <1>4, <2>1, <2>2, PartsStay DEF Pause, outVars, OutType
<1>5. CASE Park
  <2>1. parked' \subseteq [seq : Nat, row : Versions]
    BY <1>1, <1>2, <1>5 DEF Park, OutType
  <2>2. poll' \in Polls
    BY <1>1, <1>5 DEF Park, Polls
  <2> QED BY <1>1, <1>5, <2>1, <2>2, PartsStay DEF Park, OutType, JobType, GhostType
<1>6. CASE SaveSeq
  <2>1. PICK q \in Nat, R \in SUBSET Versions : q = poll.seq + 1 /\ R = poll.rows \ {First(poll.rows)}
    <3>1. poll.seq + 1 \in Nat /\ poll.rows \ {First(poll.rows)} \in SUBSET Versions
      BY <1>2
    <3> QED BY <3>1, Zenon
  <2>2. poll' \in Polls
    <3>1. poll' = [poll EXCEPT !.pc = "row", !.seq = q, !.rows = R]
      BY <1>6, <2>1 DEF SaveSeq
    <3> QED BY <1>1, <3>1 DEF Polls
  <2>3. JobType'
    BY <1>1, <1>2, <1>6 DEF SaveSeq, JobType
  <2> QED BY <1>1, <1>6, <2>2, <2>3, PartsStay DEF SaveSeq, outVars, OutType, GhostType
<1>7. CASE SavePage
  <2>1. PageLimit \in Nat
    BY WatchAssumption
  <2>2. PICK o \in Nat : Turn = [poll EXCEPT !.pc = "fetch", !.offset = o]
    <3>1. poll.offset + PageLimit \in Nat
      BY <1>2, <2>1
    <3>2. \/ Turn = [poll EXCEPT !.pc = "fetch", !.offset = poll.offset + PageLimit]
          \/ Turn = [poll EXCEPT !.pc = "fetch", !.offset = 0]
      BY DEF Turn
    <3> QED BY <3>1, <3>2
  <2>3. poll' = Idle \/ poll' = [Turn EXCEPT !.cursor = poll.next, !.delivered = @ + poll.found]
    BY <1>7 DEF SavePage
  <2>4. PICK d \in Nat : d = poll.delivered + poll.found
    BY <1>2
  <2>5. poll' \in Polls
    <3>1. Turn \in Polls /\ Turn.delivered = poll.delivered
      BY <1>1, <2>2 DEF Polls
    <3>2. poll' = Idle \/ poll' = [Turn EXCEPT !.cursor = poll.next, !.delivered = d]
      BY <2>3, <2>4, <3>1
    <3> QED BY <1>2, <3>1, <3>2, IdleOK DEF Polls
  <2>6. JobType' /\ GhostType'
    BY <1>1, <1>2, <1>7 DEF SavePage, JobType, GhostType
  <2> QED BY <1>1, <1>7, <2>5, <2>6, PartsStay DEF SavePage, outVars, OutType
<1>8. CASE Drift
  <2>1. budget' \in [Kinds -> Nat]
    BY <1>1, <1>8, SpendOK DEF Drift
  <2>2. GhostType' /\ poll' \in Polls /\ JobType'
    BY <1>1, <1>8, CutOffTypes, IdleOK DEF Drift, Over, JobType
  <2> QED BY <1>1, <1>8, <2>1, <2>2, PartsStay DEF Drift, outVars, OutType
<1>9. CASE Crash
  <2>1. budget' \in [Kinds -> Nat]
    BY <1>1, <1>9, SpendOK DEF Crash
  <2>2. PICK n : n = IF poll.pc \in {"failed", "seq"} THEN ghost.loose \union {poll.seq + 1} ELSE ghost.loose
    OBVIOUS
  <2>3. n \in SUBSET Nat
    BY <1>1, <1>2, <2>2 DEF GhostType
  <2>4. ghost' = [ghost EXCEPT !.cut = @ \union ghost.page, !.page = {}, !.loose = n]
    BY <1>9, <2>2 DEF Crash
  <2>5. GhostType' /\ poll' \in Polls /\ JobType'
    BY <1>1, <1>9, <2>3, <2>4, CutTypes, IdleOK DEF Crash, Over, JobType
  <2> QED BY <1>1, <1>9, <2>1, <2>5, PartsStay DEF Crash, outVars, OutType
<1> QED BY <1>3, <1>4, <1>5, <1>6, <1>7, <1>8, <1>9

-----------------------------------------------------------------------------
(* what the steps of a poll do *)

(* What a poll that ends leaves behind. *)
LEMMA EndEffect ==
  ASSUME TypeOK, PlaceInv, PollEnd \/ Pause \/ Drift \/ Crash
  PROVE  /\ poll' = Idle /\ UNCHANGED <<config, sourceVars, outVars>>
         /\ job'.cursor = job.cursor /\ job'.offset = job.offset /\ (job'.status = "none" <=> job.status = "none")
         /\ ghost'.cut = ghost.cut \union ghost.page /\ ghost'.page = {}
         /\ ghost'.before = ghost.before /\ ghost'.shifted = ghost.shifted
         /\ ghost.loose \subseteq ghost'.loose /\ (poll.pc = "seq" => poll.seq + 1 \in ghost'.loose)
<1>1. JobType /\ GhostType
  BY TypeParts
<1>2. CASE PollEnd
  BY <1>1, <1>2 DEF PollEnd, Over, CutOff, GhostType
<1>3. CASE Pause
  <2>1. job.status # "none" /\ job' = [job EXCEPT !.status = "paused"]
    BY <1>3 DEF Pause, PlaceInv, AtWork, InPage
  <2> QED BY <1>1, <1>3, <2>1 DEF Pause, Over, CutOff, GhostType, JobType
<1>4. CASE Drift
  <2>1. job.status # "none" /\ job' = [job EXCEPT !.status = "paused"]
    BY <1>4 DEF Drift, PlaceInv, AtWork, InPage
  <2> QED BY <1>1, <1>4, <2>1 DEF Drift, Over, CutOff, GhostType, JobType
<1>5. CASE Crash
  BY <1>1, <1>5 DEF Crash, Over, GhostType
<1> QED BY <1>2, <1>3, <1>4, <1>5

(* What a poll has at its beginning. *)
LEMMA BeginEffect ==
  ASSUME TypeOK, PollBegin
  PROVE  /\ poll.pc = "idle" /\ job.status = "running" /\ poll'.pc = "fetch" /\ poll'.cursor = job.cursor
         /\ poll'.seq = job.offset /\ poll'.offset = 0 /\ poll'.next = NoCursor /\ poll'.rows = {}
         /\ UNCHANGED <<config, sourceVars, job, outVars, ghost, budget>>
BY DEF PollBegin, Idle

(* What a page brings. *)
LEMMA FetchEffect ==
  ASSUME TypeOK, Fetch, NEW page, page = Page(poll.cursor, poll.offset)
  PROVE  /\ poll.pc = "fetch" /\ poll'.pc = "row" /\ poll'.cursor = poll.cursor /\ poll'.seq = poll.seq
         /\ poll'.offset = poll.offset /\ poll'.rows = newRows(poll.cursor, page)
         /\ poll'.found = Cardinality(poll'.rows) /\ poll'.next = advanceCursor(poll.cursor, page)
         /\ poll'.full = (Cardinality(page) >= PageLimit) /\ poll'.ok = poll.ok
         /\ UNCHANGED <<config, sourceVars, job, outVars, ghost, budget>>
BY DEF Fetch, TypeOK, Polls

(* What a delivery does. *)
LEMMA DeliverEffect ==
  ASSUME TypeOK, NEW ok \in BOOLEAN, Deliver(ok), NEW v, v = First(poll.rows)
  PROVE  /\ poll.pc = "row" /\ poll.rows # {} /\ v \in poll.rows /\ v \in Versions
         /\ poll' = [poll EXCEPT !.pc = "record", !.ok = ok]
         /\ poll'.pc = "record" /\ poll'.ok = ok /\ poll'.cursor = poll.cursor /\ poll'.next = poll.next
         /\ poll'.seq = poll.seq /\ poll'.rows = poll.rows /\ poll'.found = poll.found
         /\ sent' = [sent EXCEPT ![v] = IF @ = 0 THEN 1 ELSE 2]
         /\ landed' = IF ok THEN landed \union {v} ELSE landed
         /\ ghost'.page = ghost.page \union {v} /\ ghost'.cut = ghost.cut /\ ghost'.before = ghost.before
         /\ ghost'.loose = ghost.loose /\ ghost'.shifted = ghost.shifted
         /\ UNCHANGED <<config, sourceVars, job, cells, parked>>
<1>1. poll \in Polls /\ GhostType /\ poll.rows # {}
  BY TypeParts DEF Deliver
<1>2. v \in poll.rows /\ v \in Versions
  BY <1>1, FirstOf, PollFields
<1>3. ghost' = [ghost EXCEPT !.page = @ \union {v}]
  BY DEF Deliver
<1>4. sent' = [sent EXCEPT ![v] = IF @ = 0 THEN 1 ELSE 2] /\ landed' = IF ok THEN landed \union {v} ELSE landed
  BY DEF Deliver
<1>5. poll.pc = "row" /\ poll' = [poll EXCEPT !.pc = "record", !.ok = ok]
      /\ UNCHANGED <<config, sourceVars, job, cells, parked>>
  BY DEF Deliver
<1>6. /\ poll'.pc = "record" /\ poll'.ok = ok /\ poll'.cursor = poll.cursor /\ poll'.next = poll.next
      /\ poll'.seq = poll.seq /\ poll'.rows = poll.rows /\ poll'.found = poll.found
  BY <1>1, <1>5 DEF Polls
<1>7. /\ ghost'.page = ghost.page \union {v} /\ ghost'.cut = ghost.cut /\ ghost'.before = ghost.before
      /\ ghost'.loose = ghost.loose /\ ghost'.shifted = ghost.shifted
  BY <1>1, <1>3 DEF GhostType
<1> QED BY <1>1, <1>2, <1>4, <1>5, <1>6, <1>7

(* What a record does. *)
LEMMA RecordEffect ==
  ASSUME TypeOK, Record
  PROVE  /\ poll.pc = "record" /\ poll'.pc = IF poll.ok THEN "seq" ELSE "failed"
         /\ poll'.ok = poll.ok /\ poll'.cursor = poll.cursor /\ poll'.next = poll.next
         /\ poll'.seq = poll.seq /\ poll'.rows = poll.rows /\ poll'.found = poll.found
         /\ poll.seq <= Len(cells) =>
              /\ poll.seq < Len(cells') /\ Len(cells') >= Len(cells) /\ cells'[poll.seq + 1].ok = poll.ok
              /\ \A i \in DOMAIN cells' : i # poll.seq + 1 => i \in DOMAIN cells /\ cells'[i] = cells[i]
              /\ DOMAIN cells \subseteq DOMAIN cells'
         /\ UNCHANGED <<config, sourceVars, job, parked, sent, landed, ghost, budget>>
<1>1. poll \in Polls /\ poll.seq \in Nat /\ cells \in Seq([row : Versions, ok : BOOLEAN])
  BY TypeParts, PollFields DEF OutType
<1>2. PICK cell : cell = [row |-> First(poll.rows), ok |-> poll.ok]
  OBVIOUS
<1>3. cell.ok = poll.ok
  BY <1>2
<1>4. cells' = IF poll.seq < Len(cells) THEN [cells EXCEPT ![poll.seq + 1] = cell] ELSE Append(cells, cell)
  BY <1>2 DEF Record
<1>5. ASSUME poll.seq <= Len(cells)
      PROVE  /\ poll.seq < Len(cells') /\ Len(cells') >= Len(cells) /\ cells'[poll.seq + 1].ok = poll.ok
             /\ \A i \in DOMAIN cells' : i # poll.seq + 1 => i \in DOMAIN cells /\ cells'[i] = cells[i]
             /\ DOMAIN cells \subseteq DOMAIN cells'
  <2>1. CASE poll.seq < Len(cells)
    <3>1. cells' = [cells EXCEPT ![poll.seq + 1] = cell]
      BY <1>4, <2>1
    <3>2. /\ DOMAIN cells = 1..Len(cells) /\ Len(cells) \in Nat /\ poll.seq + 1 \in DOMAIN cells
      BY <1>1, <2>1
    <3>3. DOMAIN cells' = DOMAIN cells /\ Len(cells') = Len(cells)
      BY <1>1, <3>1
    <3>4. \A j \in DOMAIN cells : cells'[j] = IF j = poll.seq + 1 THEN cell ELSE cells[j]
      BY <1>1, <3>1
    <3> QED BY <1>1, <1>3, <2>1, <3>2, <3>3, <3>4
  <2>2. CASE ~(poll.seq < Len(cells))
    <3>1. cells' = Append(cells, cell)
      BY <1>4, <2>2
    <3>2. poll.seq = Len(cells) /\ Len(cells) \in Nat /\ DOMAIN cells = 1..Len(cells)
      BY <1>1, <1>5, <2>2
    <3>3. /\ Len(cells') = Len(cells) + 1 /\ DOMAIN cells' = 1..(Len(cells) + 1)
          /\ cells'[Len(cells) + 1] = cell /\ \A i \in 1..Len(cells) : cells'[i] = cells[i]
      BY <1>1, <3>1
    <3>4. DOMAIN cells \subseteq DOMAIN cells'
      BY <3>2, <3>3
    <3>5. \A i \in DOMAIN cells' : i # poll.seq + 1 => i \in DOMAIN cells /\ cells'[i] = cells[i]
      BY <3>2, <3>3
    <3> QED BY <1>3, <3>2, <3>3, <3>4, <3>5
  <2> QED BY <2>1, <2>2
<1>6. /\ poll.pc = "record" /\ UNCHANGED <<config, sourceVars, job, parked, sent, landed, ghost, budget>>
      /\ poll' = IF poll.ok THEN [poll EXCEPT !.pc = "seq", !.fails = 0] ELSE [poll EXCEPT !.pc = "failed", !.fails = @ + 1]
  BY DEF Record
<1>7. /\ poll'.pc = IF poll.ok THEN "seq" ELSE "failed"
      /\ poll'.ok = poll.ok /\ poll'.cursor = poll.cursor /\ poll'.next = poll.next
      /\ poll'.seq = poll.seq /\ poll'.rows = poll.rows /\ poll'.found = poll.found
  BY <1>1, <1>6 DEF Polls
<1> QED BY <1>5, <1>6, <1>7

(* What setting a row aside does. *)
LEMMA ParkEffect ==
  ASSUME TypeOK, Park
  PROVE  /\ poll.pc = "failed" /\ poll'.pc = "seq"
         /\ poll'.ok = poll.ok /\ poll'.cursor = poll.cursor /\ poll'.next = poll.next
         /\ poll'.seq = poll.seq /\ poll'.rows = poll.rows /\ poll'.found = poll.found
         /\ parked' = {p \in parked : p.seq < poll.seq} \union {[seq |-> poll.seq, row |-> First(poll.rows)]}
         /\ UNCHANGED <<config, sourceVars, job, cells, sent, landed, ghost, budget>>
BY DEF Park, TypeOK, Polls

(* What saving the number does. *)
LEMMA SaveSeqEffect ==
  ASSUME TypeOK, SaveSeq
  PROVE  /\ poll.pc = "seq" /\ poll'.pc = "row"
         /\ poll'.ok = poll.ok /\ poll'.cursor = poll.cursor /\ poll'.next = poll.next
         /\ poll'.seq = poll.seq + 1 /\ poll'.rows = poll.rows \ {First(poll.rows)} /\ poll'.found = poll.found
         /\ job'.cursor = job.cursor /\ job'.status = job.status /\ job'.offset = poll.seq + 1
         /\ UNCHANGED <<config, sourceVars, outVars, ghost, budget>>
BY DEF SaveSeq, TypeOK, Polls

(* What saving the page does. *)
LEMMA SavePageEffect ==
  ASSUME TypeOK, SavePage
  PROVE  /\ poll.pc = "row" /\ poll.rows = {}
         /\ job'.cursor = poll.next /\ job'.status = job.status /\ job'.offset = poll.seq
         /\ ghost'.page = {} /\ ghost'.cut = ghost.cut /\ ghost'.before = ghost.before
         /\ ghost'.loose = ghost.loose /\ ghost'.shifted = ghost.shifted
         /\ UNCHANGED <<config, sourceVars, outVars, budget>>
         /\ \/ poll' = Idle
            \/ /\ poll.full /\ poll'.pc = "fetch" /\ poll'.cursor = poll.next /\ poll'.seq = poll.seq
               /\ poll'.next = poll.next /\ poll'.rows = poll.rows
               /\ poll'.offset = IF poll.found = 0 /\ poll.next = poll.cursor THEN poll.offset + PageLimit ELSE 0
<1>1. poll \in Polls /\ GhostType /\ JobType
  BY TypeParts
<1>2. PICK o : o = IF poll.found = 0 /\ poll.next = poll.cursor THEN poll.offset + PageLimit ELSE 0
  OBVIOUS
<1>3. Turn = [poll EXCEPT !.pc = "fetch", !.offset = o]
  BY <1>2 DEF Turn
<1>4. /\ poll.pc = "row" /\ poll.rows = {} /\ job' = [job EXCEPT !.cursor = poll.next, !.offset = poll.seq]
      /\ ghost' = [ghost EXCEPT !.page = {}] /\ UNCHANGED <<config, sourceVars, outVars, budget>>
      /\ poll' = IF poll.full THEN [Turn EXCEPT !.cursor = poll.next, !.delivered = @ + poll.found] ELSE Idle
  BY DEF SavePage
<1>5. \/ poll' = Idle
      \/ /\ poll.full /\ poll'.pc = "fetch" /\ poll'.cursor = poll.next /\ poll'.seq = poll.seq
         /\ poll'.next = poll.next /\ poll'.rows = poll.rows /\ poll'.offset = o
  BY <1>1, <1>3, <1>4 DEF Polls
<1>6. job'.cursor = poll.next /\ job'.status = job.status /\ job'.offset = poll.seq
  BY <1>1, <1>4 DEF JobType
<1>7. /\ ghost'.page = {} /\ ghost'.cut = ghost.cut /\ ghost'.before = ghost.before
      /\ ghost'.loose = ghost.loose /\ ghost'.shifted = ghost.shifted
  BY <1>1, <1>4 DEF GhostType
<1> QED BY <1>2, <1>4, <1>5, <1>6, <1>7

(* What the source leaves alone. *)
LEMMA SourceEffect ==
  ASSUME TypeOK, Tick \/ \E k \in Keys : Begin(k) \/ Commit(k) \/ Delete(k)
  PROVE  /\ UNCHANGED <<config, job, poll, outVars>>
         /\ ghost'.page = ghost.page /\ ghost'.cut = ghost.cut /\ ghost'.before = ghost.before
         /\ ghost'.loose = ghost.loose /\ (ghost.shifted => ghost'.shifted)
<1>1. GhostType
  BY TypeParts
<1>2. CASE Tick
  BY <1>2 DEF Tick
<1>3. ASSUME NEW k \in Keys, Begin(k)
      PROVE  UNCHANGED <<config, job, poll, outVars, ghost>>
  BY <1>3 DEF Begin
<1>4. ASSUME NEW k \in Keys, Commit(k) \/ Delete(k)
      PROVE  UNCHANGED <<config, job, poll, outVars>> /\ Moves(k)
  BY <1>4 DEF Commit, Delete
<1>5. ASSUME NEW k \in Keys, Moves(k)
      PROVE  /\ ghost'.page = ghost.page /\ ghost'.cut = ghost.cut /\ ghost'.before = ghost.before
             /\ ghost'.loose = ghost.loose /\ (ghost.shifted => ghost'.shifted)
  BY <1>1, <1>5 DEF Moves, GhostType
<1> QED BY <1>2, <1>3, <1>4, <1>5

(* What starting for the first time does. *)
LEMMA StartEffect ==
  ASSUME TypeOK, Start
  PROVE  /\ job.status = "none" /\ poll.pc = "idle" /\ UNCHANGED <<config, sourceVars, outVars, budget>>
         /\ job'.cursor = job.cursor /\ job'.offset = job.offset
         /\ \/ job'.status = "running" /\ poll' = poll
            \/ /\ job' = job /\ poll'.pc = "seed" /\ poll'.rows = {} /\ poll'.next = NoCursor
               /\ poll'.cursor.ts = Top({v[2] : v \in There}, 0) /\ ghost'.before = There
         /\ ghost'.page = ghost.page /\ ghost'.cut = ghost.cut
         /\ ghost'.loose = ghost.loose /\ ghost'.shifted = ghost.shifted
<1>1. GhostType /\ JobType
  BY TypeParts
<1>2. PICK t : t = Top({v[2] : v \in There}, 0)
  OBVIOUS
<1>3. /\ job.status = "none" /\ poll.pc = "idle" /\ UNCHANGED <<config, sourceVars, outVars, budget>>
      /\ ghost' = [ghost EXCEPT !.before = IF config.from = "now" THEN There ELSE {}]
  BY DEF Start
<1>4. \/ config.from = "beginning" /\ job' = [job EXCEPT !.status = "running"] /\ poll' = poll
      \/ config.from # "beginning" /\ poll' = [Idle EXCEPT !.pc = "seed", !.cursor.ts = t] /\ job' = job
  BY <1>2 DEF Start
<1>5. config.from # "beginning" => config.from = "now"
  BY WatchAssumption DEF TypeOK
<1>6. /\ ghost'.page = ghost.page /\ ghost'.cut = ghost.cut /\ ghost'.loose = ghost.loose
      /\ ghost'.shifted = ghost.shifted /\ ghost'.before = IF config.from = "now" THEN There ELSE {}
  BY <1>1, <1>3 DEF GhostType
<1>7. CASE config.from = "beginning" /\ job' = [job EXCEPT !.status = "running"] /\ poll' = poll
  BY <1>1, <1>3, <1>6, <1>7 DEF JobType
<1>8. CASE config.from # "beginning" /\ poll' = [Idle EXCEPT !.pc = "seed", !.cursor.ts = t] /\ job' = job
  <2>1. /\ poll'.pc = "seed" /\ poll'.rows = {} /\ poll'.next = NoCursor /\ poll'.cursor.ts = t
    BY <1>8 DEF Idle, NoCursor
  <2> QED BY <1>2, <1>3, <1>5, <1>6, <1>8, <2>1
<1> QED BY <1>4, <1>7, <1>8

(* What noting the rows that are there does. *)
LEMMA SeedEffect ==
  ASSUME TypeOK, Seed
  PROVE  /\ poll.pc = "seed" /\ job'.status = "running" /\ job'.offset = job.offset
         /\ poll' = Idle /\ UNCHANGED <<config, sourceVars, outVars, budget>>
         /\ job'.cursor.ts = IF config.strategy = "snapshot" THEN 0 ELSE poll.cursor.ts
         /\ job'.cursor.keys \subseteq There
         /\ config.strategy = "increment" => job'.cursor.keys = {}
         /\ config.strategy = "snapshot" => job'.cursor.keys = There
         /\ ghost'.before = ghost.before \union job'.cursor.keys
         /\ ghost'.page = ghost.page /\ ghost'.cut = ghost.cut
         /\ ghost'.loose = ghost.loose /\ ghost'.shifted = ghost.shifted
<1>1. GhostType /\ JobType
  BY TypeParts
<1>2. PICK keys : keys = CASE config.strategy = "increment" -> {}
                           [] config.strategy = "snapshot"  -> There
                           [] OTHER -> {v \in There : poll.cursor.ts # 0 /\ v[2] >= poll.cursor.ts}
  OBVIOUS
<1>3. /\ keys \subseteq There /\ (config.strategy = "increment" => keys = {})
      /\ (config.strategy = "snapshot" => keys = There)
  BY <1>2
<1>4. PICK ts : ts = IF config.strategy = "snapshot" THEN 0 ELSE poll.cursor.ts
  OBVIOUS
<1>5. /\ job' = [job EXCEPT !.status = "running", !.cursor = [ts |-> ts, keys |-> keys]]
      /\ ghost' = [ghost EXCEPT !.before = @ \union keys]
      /\ poll.pc = "seed" /\ poll' = Idle /\ UNCHANGED <<config, sourceVars, outVars, budget>>
  BY <1>2, <1>4 DEF Seed, Over
<1>6. /\ job'.status = "running" /\ job'.offset = job.offset /\ job'.cursor.ts = ts /\ job'.cursor.keys = keys
  BY <1>1, <1>5 DEF JobType
<1>7. /\ ghost'.before = ghost.before \union keys /\ ghost'.page = ghost.page /\ ghost'.cut = ghost.cut
      /\ ghost'.loose = ghost.loose /\ ghost'.shifted = ghost.shifted
  BY <1>1, <1>5 DEF GhostType
<1> QED BY <1>3, <1>4, <1>5, <1>6, <1>7

(* What stopping, and starting again, leave alone. *)
LEMMA PauseEffect ==
  ASSUME TypeOK, Restart \/ Stop
  PROVE  /\ job.status # "none" /\ job'.status # "none" /\ job'.cursor = job.cursor /\ job'.offset = job.offset
         /\ poll'.pc = poll.pc /\ poll'.cursor = poll.cursor /\ poll'.next = poll.next /\ poll'.seq = poll.seq
         /\ poll'.offset = poll.offset /\ poll'.rows = poll.rows /\ poll'.found = poll.found
         /\ poll'.full = poll.full /\ poll'.ok = poll.ok
         /\ UNCHANGED <<config, sourceVars, outVars, ghost>>
BY DEF Restart, Stop, TypeOK, Polls

(* The fields of a poll that is over. *)
LEMMA IdleFields ==
  /\ Idle.pc = "idle" /\ Idle.cursor = NoCursor /\ Idle.next = NoCursor /\ Idle.rows = {} /\ Idle.offset = 0
  /\ NoCursor.ts = 0 /\ NoCursor.keys = {}
BY DEF Idle, NoCursor

(* The steps there are. *)
LEMMA NextCases ==
  ASSUME Next
  PROVE  \/ Tick \/ \E k \in Keys : Begin(k) \/ Commit(k) \/ Delete(k)
         \/ Start \/ Seed \/ Restart \/ Stop
         \/ PollBegin \/ Fetch \/ PollEnd \/ \E ok \in BOOLEAN : Deliver(ok)
         \/ Record \/ Pause \/ Park \/ SaveSeq \/ SavePage \/ Drift \/ Crash
BY DEF Next, Work

(* Every step keeps the types. *)
LEMMA NextTypes ==
  ASSUME TypeOK, PlaceInv, [Next]_vars
  PROVE  TypeOK'
<1>1. CASE UNCHANGED vars
  BY <1>1 DEF vars, TypeOK, SourceType, OutType
<1>2. CASE Next
  BY <1>2, NextCases, SourceTypes, StartTypes, FetchTypes, SettleTypes
<1> QED BY <1>1, <1>2

-----------------------------------------------------------------------------
(* a poll and its job *)

(* Every step keeps the poll in step with its job. *)
LEMMA NextPlace ==
  ASSUME TypeOK, PlaceInv, [Next]_vars
  PROVE  PlaceInv'
<1> USE DEF PlaceInv, AtWork, InPage
<1>0. CASE UNCHANGED vars
  BY <1>0 DEF vars
<1>1. CASE Tick \/ \E k \in Keys : Begin(k) \/ Commit(k) \/ Delete(k)
  BY <1>1, SourceEffect
<1>2. CASE Start
  BY <1>2, StartEffect
<1>3. CASE Seed
  BY <1>3, SeedEffect, IdleFields
<1>4. CASE Restart \/ Stop
  BY <1>4, PauseEffect
<1>5. CASE PollBegin
  BY <1>5, BeginEffect
<1>6. CASE Fetch
  <2>1. PICK page : page = Page(poll.cursor, poll.offset)
    OBVIOUS
  <2>2. poll'.rows # {} => poll'.found # 0
    BY <1>6, <2>1, FetchEffect, NewRowsOf, TypeParts
  <2> QED BY <1>6, <2>1, <2>2, FetchEffect
<1>7. ASSUME NEW ok \in BOOLEAN, Deliver(ok) PROVE PlaceInv'
  BY <1>7, DeliverEffect
<1>8. CASE Record
  BY <1>8, RecordEffect
<1>9. CASE Park
  BY <1>9, ParkEffect
<1>10. CASE SaveSeq
  BY <1>10, SaveSeqEffect
<1>11. CASE SavePage
  BY <1>11, SavePageEffect, IdleFields
<1>12. CASE PollEnd \/ Pause \/ Drift \/ Crash
  BY <1>12, EndEffect, IdleFields
<1> QED BY <1>0, <1>1, <1>2, <1>3, <1>4, <1>5, <1>6, <1>7, <1>8, <1>9, <1>10, <1>11, <1>12, NextCases

(* Every step keeps the numbers. *)
LEMMA NextNumber ==
  ASSUME TypeOK, PlaceInv, NumberInv, [Next]_vars
  PROVE  NumberInv'
<1>0. /\ job.offset \in Nat /\ poll.seq \in Nat /\ Len(cells) \in Nat /\ DOMAIN cells = 1..Len(cells)
  <2>1. cells \in Seq([row : Versions, ok : BOOLEAN]) /\ job.offset \in Nat /\ poll.seq \in Nat
    BY TypeParts, PollFields DEF JobType, OutType
  <2> QED BY <2>1
<1> USE DEF NumberInv
<1>1. CASE UNCHANGED vars
  BY <1>1 DEF vars
<1>2. CASE Tick \/ \E k \in Keys : Begin(k) \/ Commit(k) \/ Delete(k)
  BY <1>2, SourceEffect DEF outVars
<1>3. CASE Start
  BY <1>3, StartEffect DEF outVars
<1>4. CASE Seed
  BY <1>4, SeedEffect, IdleFields DEF outVars
<1>5. CASE Restart \/ Stop
  BY <1>5, PauseEffect DEF outVars
<1>6. CASE PollBegin
  BY <1>6, BeginEffect DEF outVars
<1>7. CASE Fetch
  BY <1>7, FetchEffect DEF outVars
<1>8. ASSUME NEW ok \in BOOLEAN, Deliver(ok) PROVE NumberInv'
  BY <1>8, DeliverEffect
<1>9. CASE Record
  <2>1. poll.seq = job.offset /\ poll.seq <= Len(cells)
    BY <1>9 DEF Record, PlaceInv, AtWork, InPage
  <2>2. /\ poll.seq < Len(cells') /\ Len(cells') >= Len(cells) /\ cells'[poll.seq + 1].ok = poll.ok
        /\ \A i \in DOMAIN cells' : i # poll.seq + 1 => i \in DOMAIN cells /\ cells'[i] = cells[i]
        /\ poll'.pc = (IF poll.ok THEN "seq" ELSE "failed") /\ poll'.ok = poll.ok /\ poll'.seq = poll.seq
        /\ UNCHANGED <<job, ghost>> /\ poll.pc = "record"
    BY <1>9, <2>1, RecordEffect
  <2>3. Len(cells') \in Nat
    BY NextTypes, TypeParts, <1>9 DEF OutType, Next, Work, TypeOK
  <2>4. ASSUME NEW i \in DOMAIN cells', cells'[i].ok, i > job.offset
        PROVE  i \in ghost.loose \/ (poll'.pc = "seq" /\ i = poll.seq + 1)
    <3>1. CASE i = poll.seq + 1
      BY <2>2, <2>4, <3>1
    <3>2. CASE i # poll.seq + 1
      BY <2>2, <2>4, <3>2
    <3> QED BY <3>1, <3>2
  <2> QED BY <1>0, <2>1, <2>2, <2>3, <2>4
<1>10. CASE Park
  BY <1>10, ParkEffect DEF PlaceInv
<1>11. CASE SaveSeq
  BY <1>0, <1>11, SaveSeqEffect DEF outVars, PlaceInv, AtWork, InPage
<1>12. CASE SavePage
  BY <1>12, SavePageEffect, IdleFields DEF outVars, PlaceInv, AtWork, InPage
<1>13. CASE PollEnd \/ Pause \/ Drift \/ Crash
  BY <1>13, EndEffect, IdleFields DEF outVars
<1> QED BY <1>1, <1>2, <1>3, <1>4, <1>5, <1>6, <1>7, <1>8, <1>9, <1>10, <1>11, <1>12, <1>13, NextCases

-----------------------------------------------------------------------------
(* no row goes out twice *)

(* What went out stays known while cursor, page and rows stay. *)
LEMMA SentStays ==
  ASSUME SentInv, UNCHANGED <<config, sent>>, job'.cursor = job.cursor, job'.status = "none" => job.status = "none",
         ghost'.page = ghost.page, ghost'.cut = ghost.cut,
         InPage' <=> InPage,
         InPage => /\ poll'.rows = poll.rows /\ poll'.cursor = poll.cursor /\ poll'.next = poll.next
                   /\ poll'.pc = "row" => poll.pc = "row"
  PROVE  SentInv'
<1>1. EmittedOnce'
  BY DEF SentInv, EmittedOnce
<1>2. (job.status = "none" => \A v \in Versions : sent[v] = 0)'
  BY DEF SentInv
<1>3. (\A v \in Versions : sent[v] # 0 => v \in ghost.cut \/ v \in ghost.page \/ Known(job.cursor, v))'
  BY DEF SentInv, Known, InQuery
<1>4. Reached(job.cursor)'
  BY DEF SentInv, Reached
<1>5. (~InPage => ghost.page = {})'
  BY DEF SentInv
<1>6. ASSUME InPage PROVE PageSent'
  <2>1. PageSent
    BY <1>6 DEF SentInv
  <2>2. poll'.rows = poll.rows /\ poll'.cursor = poll.cursor /\ poll'.next = poll.next /\ (poll'.pc = "row" => poll.pc = "row")
    BY <1>6
  <2>3. (\A v \in poll.rows : Known(poll.next, v) /\ ~Known(poll.cursor, v))'
    BY <2>1, <2>2 DEF PageSent, Known, InQuery
  <2>4. (config.strategy = "timestamp" => \A v \in poll.rows : v[2] <= poll.next.ts)'
    BY <2>1, <2>2 DEF PageSent
  <2>5. (\A v \in ghost.page : Known(poll.next, v))'
    BY <2>1, <2>2 DEF PageSent, Known, InQuery
  <2>6. (\A v \in ghost.page \cap poll.rows : poll.pc # "row" /\ v = First(poll.rows))'
    BY <2>1, <2>2 DEF PageSent, First, Precedes
  <2>7. (\A v \in Versions : sent[v] # 0 /\ Known(poll.cursor, v) => Known(poll.next, v))'
    BY <2>1, <2>2 DEF PageSent, Known, InQuery
  <2>8. Reached(poll.next)'
    BY <2>1, <2>2 DEF PageSent, Reached
  <2> QED BY <2>3, <2>4, <2>5, <2>6, <2>7, <2>8 DEF PageSent
<1> QED BY <1>1, <1>2, <1>3, <1>4, <1>5, <1>6 DEF SentInv

(* A page begins with nothing sent, and the cursor behind it knows what the
   cursor knew. *)
LEMMA FetchSent ==
  ASSUME TypeOK, PlaceInv, SentInv, Fetch
  PROVE  SentInv'
<1>1. PICK page : page = Page(poll.cursor, poll.offset)
  OBVIOUS
<1>2. /\ poll.pc = "fetch" /\ poll'.pc = "row" /\ poll'.cursor = poll.cursor
      /\ poll'.rows = newRows(poll.cursor, page) /\ poll'.next = advanceCursor(poll.cursor, page)
      /\ UNCHANGED <<config, sent, job, ghost>>
  BY <1>1, FetchEffect DEF outVars
<1>3. /\ config \in Cases /\ poll.cursor \in Cursors /\ poll.cursor = job.cursor /\ ghost.page = {}
      /\ page \subseteq Versions /\ page \subseteq watchQuery(poll.cursor) /\ poll'.rows \subseteq page
  BY <1>1, <1>2, TypeParts, PollFields, WindowOK, NewRowsOf DEF PlaceInv, AtWork, InPage, SentInv
<1>4. PICK c \in Cursors, n \in Cursors : c = poll.cursor /\ n = advanceCursor(c, page)
  BY <1>3, AdvanceOf
<1>5. poll'.cursor = c /\ poll'.next = n /\ job.cursor = c
  BY <1>2, <1>3, <1>4
<1>6. \A v \in page : Known(n, v)
  BY <1>3, <1>4, KnownBehind
<1>7. \A v \in poll'.rows : ~Known(c, v)
  <2>1. \A v \in page : InQuery(c, v)
    BY <1>3, <1>4 DEF watchQuery
  <2>2. config.strategy # "increment" => \A v \in poll'.rows : v \notin c.keys
    BY <1>2, <1>4 DEF newRows
  <2> QED BY <1>3, <2>1, <2>2 DEF Known
<1>8. ASSUME NEW v \in Versions, sent[v] # 0, Known(c, v) PROVE Known(n, v)
  <2>1. config.strategy = "timestamp" /\ v \in c.keys => v[2] <= c.ts
    BY <1>5, <1>8 DEF SentInv, Reached
  <2> QED BY <1>3, <1>4, <1>8, <2>1, KnownOn
<1>9. config.strategy = "timestamp" => \A v \in n.keys : sent[v] = 0 \/ v[2] <= n.ts
  <2> SUFFICES ASSUME config.strategy = "timestamp", NEW v \in n.keys, sent[v] # 0 PROVE v[2] <= n.ts
    OBVIOUS
  <2>1. v \in c.keys \/ v \in page
    BY <1>3, <1>4, AdvanceOf
  <2>2. CASE v \in page
    BY <1>3, <1>4, <2>2, AdvanceOf
  <2>3. CASE v \in c.keys
    <3>1. v[2] <= c.ts
      BY <1>5, <2>3 DEF SentInv, Reached
    <3>2. c.ts <= n.ts /\ c.ts \in Nat /\ n.ts \in Nat /\ v \in Versions
      BY <1>3, <1>4, <2>3, AdvanceOf, WatchAssumption DEF Cursors
    <3> QED BY <3>1, <3>2, VersionOK
  <2> QED BY <2>1, <2>2, <2>3
<1>10. config.strategy = "timestamp" => \A v \in poll'.rows : v[2] <= n.ts
  BY <1>3, <1>4, AdvanceOf
<1>11. PageSent'
  <2>1. (\A v \in poll.rows : Known(poll.next, v) /\ ~Known(poll.cursor, v))'
    BY <1>2, <1>3, <1>5, <1>6, <1>7 DEF Known, InQuery
  <2>2. (config.strategy = "timestamp" => \A v \in poll.rows : v[2] <= poll.next.ts)'
    BY <1>2, <1>5, <1>10
  <2>3. ghost'.page = {}
    BY <1>2, <1>3
  <2>4. (\A v \in Versions : sent[v] # 0 /\ Known(poll.cursor, v) => Known(poll.next, v))'
    BY <1>2, <1>5, <1>8 DEF Known, InQuery
  <2>5. Reached(poll.next)'
    BY <1>2, <1>5, <1>9 DEF Reached
  <2> QED BY <2>1, <2>2, <2>3, <2>4, <2>5 DEF PageSent
<1>12. InPage' /\ EmittedOnce' /\ Reached(job.cursor)' /\ (job.status = "none" => \A v \in Versions : sent[v] = 0)'
  BY <1>2 DEF InPage, SentInv, EmittedOnce, Reached
<1>13. (\A v \in Versions : sent[v] # 0 => v \in ghost.cut \/ v \in ghost.page \/ Known(job.cursor, v))'
  BY <1>2 DEF SentInv, Known, InQuery
<1> QED BY <1>11, <1>12, <1>13 DEF SentInv

(* A row that is sent was not sent before, or with a page that was cut off. *)
LEMMA DeliverSent ==
  ASSUME TypeOK, PlaceInv, SentInv, NEW ok \in BOOLEAN, Deliver(ok)
  PROVE  SentInv'
<1>1. PICK v : v = First(poll.rows)
  OBVIOUS
<1>2. /\ poll.pc = "row" /\ v \in poll.rows /\ v \in Versions
      /\ poll'.pc = "record" /\ poll'.cursor = poll.cursor /\ poll'.next = poll.next /\ poll'.rows = poll.rows
      /\ sent' = [sent EXCEPT ![v] = IF @ = 0 THEN 1 ELSE 2]
      /\ ghost'.page = ghost.page \union {v} /\ ghost'.cut = ghost.cut
      /\ UNCHANGED <<config, job>>
  BY <1>1, DeliverEffect
<1>3. InPage /\ PageSent /\ sent \in [Versions -> 0..2] /\ job.cursor = poll.cursor /\ job.status # "none"
  BY <1>2, TypeParts DEF InPage, AtWork, SentInv, PlaceInv, OutType
<1>4. /\ \A u \in Versions : u # v => sent'[u] = sent[u]
      /\ sent'[v] = IF sent[v] = 0 THEN 1 ELSE 2
  BY <1>2, <1>3
<1>5. v \notin ghost.page /\ Known(poll.next, v) /\ ~Known(poll.cursor, v)
      /\ (config.strategy = "timestamp" => v[2] <= poll.next.ts)
  BY <1>2, <1>3 DEF PageSent
<1>6. sent[v] # 0 => v \in ghost.cut
  BY <1>2, <1>3, <1>5 DEF SentInv
<1>7. EmittedOnce'
  BY <1>2, <1>4, <1>6 DEF SentInv, EmittedOnce
<1>8. (\A u \in Versions : sent[u] # 0 => u \in ghost.cut \/ u \in ghost.page \/ Known(job.cursor, u))'
  <2> SUFFICES ASSUME NEW u \in Versions, sent'[u] # 0
               PROVE  u \in ghost'.cut \/ u \in ghost'.page \/ Known(job.cursor, u)'
    OBVIOUS
  <2>1. CASE u = v
    BY <1>2, <2>1
  <2>2. CASE u # v
    BY <1>2, <1>4, <2>2 DEF SentInv, Known, InQuery
  <2> QED BY <2>1, <2>2
<1>9. Reached(job.cursor)'
  <2>1. config.strategy = "timestamp" => v \notin job.cursor.keys
    BY <1>3, <1>5 DEF Known
  <2>2. job.cursor.keys \subseteq Versions
    BY TypeParts DEF JobType, Cursors
  <2> QED BY <1>2, <1>4, <2>1, <2>2 DEF SentInv, Reached
<1>10. PageSent'
  <2>1. (\A u \in poll.rows : Known(poll.next, u) /\ ~Known(poll.cursor, u))'
    BY <1>2, <1>3 DEF PageSent, Known, InQuery
  <2>2. (config.strategy = "timestamp" => \A u \in poll.rows : u[2] <= poll.next.ts)'
    BY <1>2, <1>3 DEF PageSent
  <2>3. (\A u \in ghost.page : Known(poll.next, u))'
    BY <1>2, <1>3, <1>5 DEF PageSent, Known, InQuery
  <2>4. (\A u \in ghost.page \cap poll.rows : poll.pc # "row" /\ u = First(poll.rows))'
    <3>1. \A u \in ghost.page \cap poll.rows : FALSE
      BY <1>2, <1>3 DEF PageSent
    <3>2. First(poll.rows)' = v
      BY <1>1, <1>2 DEF First, Precedes
    <3> QED BY <1>2, <3>1, <3>2
  <2>5. (\A u \in Versions : sent[u] # 0 /\ Known(poll.cursor, u) => Known(poll.next, u))'
    <3>1. ASSUME NEW u \in Versions, sent'[u] # 0, Known(poll.cursor, u) PROVE Known(poll.next, u)
      BY <1>3, <1>4, <1>5, <3>1 DEF PageSent
    <3> QED BY <1>2, <3>1 DEF Known, InQuery
  <2>6. Reached(poll.next)'
    <3>1. poll.next.keys \subseteq Versions
      BY TypeParts, PollFields DEF Cursors
    <3> QED BY <1>2, <1>3, <1>4, <1>5, <3>1 DEF PageSent, Reached
  <2> QED BY <2>1, <2>2, <2>3, <2>4, <2>5, <2>6 DEF PageSent
<1>11. InPage' /\ (job.status = "none" => \A u \in Versions : sent[u] = 0)'
  BY <1>2, <1>3 DEF InPage
<1> QED BY <1>7, <1>8, <1>9, <1>10, <1>11 DEF SentInv

(* Every step keeps what is known of the rows that went out. *)
LEMMA NextSent ==
  ASSUME TypeOK, PlaceInv, SentInv, [Next]_vars
  PROVE  SentInv'
<1> USE DEF InPage
<1>1. CASE UNCHANGED vars
  BY <1>1, SentStays DEF vars
<1>2. CASE Tick \/ \E k \in Keys : Begin(k) \/ Commit(k) \/ Delete(k)
  BY <1>2, SourceEffect, SentStays DEF outVars
<1>3. CASE Start
  BY <1>3, StartEffect, SentStays DEF outVars
<1>4. CASE Seed
  <2>1. /\ poll.pc = "seed" /\ poll'.pc = "idle" /\ UNCHANGED <<config, sent>> /\ job'.status = "running"
        /\ ghost'.page = ghost.page /\ ghost'.cut = ghost.cut
    BY <1>4, SeedEffect, IdleFields DEF outVars
  <2>2. \A v \in Versions : sent[v] = 0
    BY <2>1 DEF PlaceInv, SentInv
  <2>3. job'.cursor.keys \subseteq Versions
    BY <1>4, SeedEffect, WindowOK, TypeParts
  <2>4. Reached(job.cursor)'
    BY <2>1, <2>2, <2>3 DEF Reached
  <2>5. EmittedOnce'
    BY <2>1 DEF SentInv, EmittedOnce
  <2> QED BY <2>1, <2>2, <2>4, <2>5 DEF SentInv
<1>5. CASE Restart \/ Stop
  BY <1>5, PauseEffect, SentStays DEF outVars
<1>6. CASE PollBegin
  BY <1>6, BeginEffect, SentStays DEF outVars
<1>7. CASE Fetch
  BY <1>7, FetchSent
<1>8. ASSUME NEW ok \in BOOLEAN, Deliver(ok) PROVE SentInv'
  BY <1>8, DeliverSent
<1>9. CASE Record
  <2>1. poll'.pc \in {"seq", "failed"}
    BY <1>9, RecordEffect
  <2> QED BY <1>9, <2>1, RecordEffect, SentStays
<1>10. CASE Park
  BY <1>10, ParkEffect, SentStays
<1>11. CASE SaveSeq
  <2>1. /\ poll.pc = "seq" /\ poll'.pc = "row" /\ poll'.cursor = poll.cursor /\ poll'.next = poll.next
        /\ poll'.rows = poll.rows \ {First(poll.rows)} /\ job'.cursor = job.cursor /\ job'.status = job.status
        /\ UNCHANGED <<config, sent, ghost>>
    BY <1>11, SaveSeqEffect DEF outVars
  <2>2. PageSent
    BY <2>1 DEF SentInv
  <2>3. (\A v \in poll.rows : Known(poll.next, v) /\ ~Known(poll.cursor, v))'
    BY <2>1, <2>2 DEF PageSent, Known, InQuery
  <2>4. (config.strategy = "timestamp" => \A v \in poll.rows : v[2] <= poll.next.ts)'
    BY <2>1, <2>2 DEF PageSent
  <2>5. (\A v \in ghost.page : Known(poll.next, v))'
    BY <2>1, <2>2 DEF PageSent, Known, InQuery
  <2>6. ghost'.page \cap poll'.rows = {}
    BY <2>1, <2>2 DEF PageSent
  <2>7. (\A v \in Versions : sent[v] # 0 /\ Known(poll.cursor, v) => Known(poll.next, v))'
    BY <2>1, <2>2 DEF PageSent, Known, InQuery
  <2>8. Reached(poll.next)'
    BY <2>1, <2>2 DEF PageSent, Reached
  <2>9. PageSent'
    BY <2>3, <2>4, <2>5, <2>6, <2>7, <2>8 DEF PageSent
  <2>10. (\A v \in Versions : sent[v] # 0 => v \in ghost.cut \/ v \in ghost.page \/ Known(job.cursor, v))'
    BY <2>1 DEF SentInv, Known, InQuery
  <2> QED BY <2>1, <2>9, <2>10 DEF SentInv, EmittedOnce, Reached
<1>12. CASE SavePage
  <2>1. /\ poll.pc = "row" /\ poll.rows = {} /\ job'.cursor = poll.next /\ job'.status = job.status
        /\ ghost'.page = {} /\ ghost'.cut = ghost.cut /\ UNCHANGED <<config, sent>>
        /\ poll'.pc \in {"idle", "fetch"}
    BY <1>12, SavePageEffect, IdleFields DEF outVars
  <2>2. PageSent /\ poll.cursor = job.cursor
    BY <2>1 DEF SentInv, PlaceInv, AtWork
  <2>3. \A v \in Versions : sent[v] # 0 => v \in ghost.cut \/ Known(poll.next, v)
    BY <2>2 DEF SentInv, PageSent
  <2>4. (\A v \in Versions : sent[v] # 0 => v \in ghost.cut \/ v \in ghost.page \/ Known(job.cursor, v))'
    BY <2>1, <2>3 DEF Known, InQuery
  <2>5. Reached(job.cursor)'
    BY <2>1, <2>2 DEF PageSent, Reached
  <2> QED BY <2>1, <2>4, <2>5 DEF SentInv, EmittedOnce
<1>13. CASE PollEnd \/ Pause \/ Drift \/ Crash
  <2>1. /\ poll'.pc = "idle" /\ UNCHANGED <<config, sent>> /\ job'.cursor = job.cursor
        /\ (job'.status = "none" <=> job.status = "none")
        /\ ghost'.cut = ghost.cut \union ghost.page /\ ghost'.page = {}
    BY <1>13, EndEffect, IdleFields DEF outVars
  <2>2. (\A v \in Versions : sent[v] # 0 => v \in ghost.cut \/ v \in ghost.page \/ Known(job.cursor, v))'
    BY <2>1 DEF SentInv, Known, InQuery
  <2> QED BY <2>1, <2>2 DEF SentInv, EmittedOnce, Reached
<1> QED BY <1>1, <1>2, <1>3, <1>4, <1>5, <1>6, <1>7, <1>8, <1>9, <1>10, <1>11, <1>12, <1>13, NextCases

(* The invariants hold at first. *)
LEMMA InitInvs == Init => PlaceInv /\ NumberInv /\ SentInv
<1> SUFFICES ASSUME Init PROVE PlaceInv /\ NumberInv /\ SentInv
  OBVIOUS
<1>1. /\ poll.pc = "idle" /\ job.status = "none" /\ job.cursor = NoCursor /\ job.offset = 0 /\ cells = <<>>
      /\ ghost.page = {} /\ sent = [v \in Versions |-> 0] /\ poll.rows = {}
  BY IdleFields DEF Init
<1>2. PlaceInv /\ NumberInv
  BY <1>1 DEF PlaceInv, NumberInv, AtWork, InPage
<1>3. SentInv
  BY <1>1, IdleFields DEF SentInv, EmittedOnce, Reached, InPage
<1> QED BY <1>2, <1>3

(* The poll, its job, the numbers and what went out, at every moment. *)
LEMMA Basics == Spec => [](TypeOK /\ PlaceInv /\ NumberInv /\ SentInv)
<1>1. Init => TypeOK /\ PlaceInv /\ NumberInv /\ SentInv
  BY InitTypes, InitInvs
<1>2. TypeOK /\ PlaceInv /\ NumberInv /\ SentInv /\ [Next]_vars => (TypeOK /\ PlaceInv /\ NumberInv /\ SentInv)'
  BY NextTypes, NextPlace, NextNumber, NextSent
<1> QED BY <1>1, <1>2, PTL DEF Spec

(* The state of a polled table, its bridge and its timeline is well formed. *)
THEOREM WatchTypes == Spec => []TypeOK
BY Basics, PTL

(* A row goes out twice only if the page it went out with was cut off: the
   overlap that every poll reads again, whatever the lookback and however pages
   fall, is never sent again. *)
THEOREM OverlapNotSentAgain == Spec => []EmittedOnce
<1>1. TypeOK /\ PlaceInv /\ NumberInv /\ SentInv => EmittedOnce
  BY DEF SentInv
<1> QED BY <1>1, Basics, PTL

(* No later delivery is shown under the number of one that is shown already,
   unless the process died before it could save that number. *)
THEOREM ShownNumbersStay == Spec => NumbersNotReused
<1>1. ASSUME TypeOK, PlaceInv, NumberInv, [Next]_vars
      PROVE  [\A i \in DOMAIN cells : cells[i].ok /\ i \notin ghost.loose => cells'[i] = cells[i]]_vars
  <2>1. CASE UNCHANGED cells
    BY <2>1
  <2>2. CASE Record
    <3>1. poll.pc = "record" /\ poll.seq = job.offset /\ poll.seq <= Len(cells) /\ poll.seq \in Nat
      BY <1>1, <2>2, TypeParts, PollFields DEF Record, PlaceInv, NumberInv, AtWork, InPage
    <3>2. /\ \A i \in DOMAIN cells' : i # poll.seq + 1 => i \in DOMAIN cells /\ cells'[i] = cells[i]
          /\ DOMAIN cells \subseteq DOMAIN cells'
      BY <1>1, <2>2, <3>1, RecordEffect
    <3>3. ASSUME NEW i \in DOMAIN cells, cells[i].ok, i \notin ghost.loose PROVE i # poll.seq + 1
      BY <1>1, <3>1, <3>3 DEF NumberInv
    <3> QED BY <3>2, <3>3
  <2>3. UNCHANGED cells \/ Record
    <3>1. CASE UNCHANGED vars
      BY <3>1 DEF vars
    <3>2. CASE Tick \/ \E k \in Keys : Begin(k) \/ Commit(k) \/ Delete(k)
      BY <1>1, <3>2, SourceEffect DEF outVars
    <3>3. CASE Start \/ Seed \/ Restart \/ Stop
      BY <1>1, <3>3, StartEffect, SeedEffect, PauseEffect DEF outVars
    <3>4. CASE PollBegin \/ Fetch \/ PollEnd \/ \E ok \in BOOLEAN : Deliver(ok)
      BY <3>4 DEF PollBegin, Fetch, PollEnd, Deliver, outVars
    <3>5. CASE Pause \/ Park \/ SaveSeq \/ SavePage \/ Drift \/ Crash
      BY <3>5 DEF Pause, Park, SaveSeq, SavePage, Drift, Crash, outVars
    <3> QED BY <3>1, <3>2, <3>3, <3>4, <3>5, <1>1, NextCases
  <2> QED BY <2>1, <2>2, <2>3
<1> QED BY <1>1, Basics, PTL DEF Spec, NumbersNotReused

-----------------------------------------------------------------------------
(* no row is skipped: what is assumed of the source *)

(* Numbers become visible in the order in which they were handed out, and no
   transaction takes longer than the lookback. *)
InTime == Late["increment"] = 0 /\ Late["timestamp"] <= Lookback

(* What nothing has moved, has nothing move past it. *)
LEMMA TimeStays ==
  ASSUME TimeInv, UNCHANGED <<config, sourceVars>>,
         Reach(job'.cursor.ts), Reach(poll'.cursor.ts), Reach(poll'.next.ts)
  PROVE  TimeInv'
BY DEF TimeInv, Reach, sourceVars

(* The rows there are, and the beginning, are in reach. *)
LEMMA ReachThere ==
  ASSUME TypeOK, TimeInv
  PROVE  Reach(0) /\ \A v \in There : Reach(v[2])
<1>1. SourceType
  BY TypeParts
<1>2. /\ clock \in Nat /\ clock > 0 /\ \A k \in Keys : open[k] \in Nat
  BY <1>1, WatchAssumption DEF SourceType
<1>3. Reach(0)
  BY <1>2 DEF Reach
<1>4. \A v \in There : Reach(v[2])
  BY <1>1, WindowOK DEF TimeInv
<1> QED BY <1>3, <1>4

(* Every step of the source keeps its transactions ahead of the cursors... *)
LEMMA SourceTime ==
  ASSUME TypeOK, TimeInv, InTime, Tick \/ \E k \in Keys : Begin(k) \/ Commit(k) \/ Delete(k)
  PROVE  TimeInv'
<1>1. /\ clock \in Nat /\ clock > 0
      /\ \A k \in Keys : open[k] \in Nat /\ table[k] \in Nat
      /\ open \in [Keys -> 0..MaxTime] /\ table \in [Keys -> 0..MaxTime]
      /\ Late["timestamp"] \in Nat /\ Late["increment"] = 0
      /\ config.strategy \in {"increment", "timestamp", "snapshot"}
      /\ job.cursor.ts \in Nat /\ poll.cursor.ts \in Nat /\ poll.next.ts \in Nat
  <2>1. SourceType /\ JobType /\ poll \in Polls /\ config \in Cases
    BY TypeParts
  <2>2. job.cursor \in Cursors /\ poll.cursor \in Cursors /\ poll.next \in Cursors
    BY <2>1, PollFields DEF JobType
  <2> QED BY <2>1, <2>2, ConfigOK, WatchAssumption DEF SourceType, InTime, Strategies, Cursors
<1>2. UNCHANGED <<config, job, poll>>
  BY SourceEffect
<1>3. CASE Tick
  <2>1. /\ config.strategy = "timestamp" /\ clock' = clock + 1 /\ UNCHANGED <<open, table>>
        /\ \A k \in Keys : open[k] # 0 => clock + 1 <= open[k] + Late["timestamp"]
    BY <1>3 DEF Tick, CanTick
  <2>2. ASSUME NEW t \in Nat, Reach(t) PROVE Reach(t)'
    BY <1>1, <1>2, <2>1, <2>2 DEF Reach
  <2>3. /\ (\A k \in Keys : Reach(table[k]))' /\ Reach(job.cursor.ts)' /\ Reach(poll.cursor.ts)' /\ Reach(poll.next.ts)'
    BY <1>1, <1>2, <2>1, <2>2 DEF TimeInv, Reach
  <2>4. \A k \in Keys : open'[k] # 0 => open'[k] <= clock' /\ clock' <= open'[k] + Late["timestamp"]
    BY <1>1, <2>1 DEF TimeInv
  <2> QED BY <1>2, <2>1, <2>3, <2>4 DEF TimeInv
<1>4. ASSUME NEW k \in Keys, Begin(k) PROVE TimeInv'
  <2>1. open[k] = 0 /\ open' = [open EXCEPT ![k] = clock] /\ table' = table
    BY <1>4 DEF Begin
  <2>2. \A j \in Keys : open'[j] = IF j = k THEN clock ELSE open[j]
    BY <1>1, <2>1
  <2>3. CASE config.strategy = "timestamp"
    <3>1. clock' = clock
      BY <1>4, <2>3 DEF Begin
    <3>2. (\A j \in Keys : Reach(table[j]))' /\ Reach(job.cursor.ts)' /\ Reach(poll.cursor.ts)' /\ Reach(poll.next.ts)'
      BY <1>2, <2>1, <2>3, <3>1 DEF TimeInv, Reach
    <3>3. \A j \in Keys : open'[j] # 0 => open'[j] <= clock' /\ clock' <= open'[j] + Late["timestamp"]
      BY <1>1, <2>2, <2>3, <3>1 DEF TimeInv
    <3> QED BY <1>2, <2>3, <3>2, <3>3 DEF TimeInv
  <2>4. CASE config.strategy = "increment"
    <3>1. clock' = clock + 1 /\ \A j \in Keys : open[j] # 0 => clock <= open[j]
      BY <1>1, <1>4, <2>4 DEF Begin
    <3>2. \A j \in Keys : open[j] = 0
      BY <1>1, <2>4, <3>1 DEF TimeInv
    <3>3. ASSUME NEW t \in Nat, Reach(t) PROVE Reach(t)'
      BY <1>1, <1>2, <2>2, <2>4, <3>1, <3>2, <3>3 DEF Reach
    <3>4. (\A j \in Keys : Reach(table[j]))' /\ Reach(job.cursor.ts)' /\ Reach(poll.cursor.ts)' /\ Reach(poll.next.ts)'
      BY <1>1, <1>2, <2>1, <3>3 DEF TimeInv, Reach
    <3>5. /\ \A j \in Keys : open'[j] < clock'
          /\ \A i, j \in Keys : open'[i] # 0 /\ open'[j] # 0 => i = j
          /\ \A i, j \in Keys : table'[i] # 0 /\ table'[i] = table'[j] => i = j
      BY <1>1, <2>1, <2>2, <2>4, <3>1, <3>2 DEF TimeInv
    <3> QED BY <1>2, <2>4, <3>4, <3>5 DEF TimeInv
  <2>5. CASE config.strategy = "snapshot"
    BY <1>2, <2>5 DEF TimeInv, Reach
  <2> QED BY <1>1, <2>3, <2>4, <2>5
<1>5. ASSUME NEW k \in Keys, Commit(k) PROVE TimeInv'
  <2>1. /\ open[k] # 0 /\ table' = [table EXCEPT ![k] = open[k]] /\ open' = [open EXCEPT ![k] = 0] /\ clock' = clock
    BY <1>5 DEF Commit
  <2>2. \A j \in Keys : /\ open'[j] = IF j = k THEN 0 ELSE open[j]
                        /\ table'[j] = IF j = k THEN open[k] ELSE table[j]
    BY <1>1, <2>1
  <2>3. ASSUME NEW t \in Nat, Reach(t) PROVE Reach(t)'
    BY <1>1, <1>2, <2>1, <2>2, <2>3 DEF Reach
  <2>4. Reach(job.cursor.ts)' /\ Reach(poll.cursor.ts)' /\ Reach(poll.next.ts)'
    BY <1>1, <1>2, <2>3 DEF TimeInv, Reach
  <2>5. Reach(table[k])'
    <3>1. config.strategy = "timestamp" => open[k] <= clock
      BY <2>1 DEF TimeInv
    <3>2. config.strategy = "increment" => open[k] < clock /\ \A j \in Keys : j # k => open[j] = 0
      BY <2>1 DEF TimeInv
    <3>3. config'.strategy = "timestamp" => open[k] <= clock'
      BY <1>2, <2>1, <3>1
    <3>4. config'.strategy = "increment" => open[k] < clock' /\ \A j \in Keys : open'[j] = 0
      BY <1>2, <2>1, <2>2, <3>2
    <3>5. table'[k] = open[k]
      BY <2>2
    <3> QED BY <3>3, <3>4, <3>5 DEF Reach
  <2>6. (\A j \in Keys : Reach(table[j]))'
    <3>1. ASSUME NEW j \in Keys, j # k PROVE Reach(table[j])'
      <4>1. table'[j] = table[j] /\ Reach(table[j]) /\ table[j] \in Nat
        BY <1>1, <2>2, <3>1 DEF TimeInv
      <4> QED BY <2>3, <4>1 DEF Reach
    <3> QED BY <2>2, <2>5, <3>1
  <2>7. config.strategy = "timestamp" => \A j \in Keys : open'[j] # 0 => open'[j] <= clock' /\ clock' <= open'[j] + Late["timestamp"]
    BY <2>1, <2>2 DEF TimeInv
  <2>8. config.strategy = "increment" =>
          /\ \A j \in Keys : open'[j] < clock'
          /\ \A i, j \in Keys : open'[i] # 0 /\ open'[j] # 0 => i = j
          /\ \A i, j \in Keys : table'[i] # 0 /\ table'[i] = table'[j] => i = j
    <3> SUFFICES ASSUME config.strategy = "increment"
                 PROVE  /\ \A j \in Keys : open'[j] < clock'
                        /\ \A i, j \in Keys : open'[i] # 0 /\ open'[j] # 0 => i = j
                        /\ \A i, j \in Keys : table'[i] # 0 /\ table'[i] = table'[j] => i = j
      OBVIOUS
    <3>1. \A j \in Keys : table[j] < open[k]
      BY <2>1 DEF TimeInv, Reach
    <3> QED BY <1>1, <2>1, <2>2, <3>1 DEF TimeInv
  <2> QED BY <1>2, <2>4, <2>6, <2>7, <2>8 DEF TimeInv
<1>6. ASSUME NEW k \in Keys, Delete(k) PROVE TimeInv'
  <2>1. table' = [table EXCEPT ![k] = 0] /\ UNCHANGED <<open, clock>>
    BY <1>6 DEF Delete
  <2>2. \A j \in Keys : table'[j] = IF j = k THEN 0 ELSE table[j]
    BY <1>1, <2>1
  <2>3. Reach(job.cursor.ts)' /\ Reach(poll.cursor.ts)' /\ Reach(poll.next.ts)'
    BY <1>2, <2>1 DEF TimeInv, Reach
  <2>4. (\A j \in Keys : Reach(table[j]))'
    BY <1>1, <1>2, <2>1, <2>2 DEF TimeInv, Reach
  <2> QED BY <1>1, <1>2, <2>1, <2>2, <2>3, <2>4 DEF TimeInv
<1> QED BY <1>3, <1>4, <1>5, <1>6

(* ...and so does every other step. *)
LEMMA NextTime ==
  ASSUME TypeOK, PlaceInv, TimeInv, InTime, [Next]_vars
  PROVE  TimeInv'
<1>0. Reach(0) /\ (\A v \in There : Reach(v[2])) /\ Reach(job.cursor.ts) /\ Reach(poll.cursor.ts) /\ Reach(poll.next.ts)
  BY ReachThere DEF TimeInv
<1>1. CASE UNCHANGED vars
  BY <1>1 DEF vars, TimeInv, Reach
<1>2. CASE Tick \/ \E k \in Keys : Begin(k) \/ Commit(k) \/ Delete(k)
  BY <1>2, SourceTime
<1>3. CASE Start
  <2>1. Reach(Top({v[2] : v \in There}, 0))
    <3>1. {v[2] : v \in There} \subseteq 0..MaxTime /\ 0 \in 0..MaxTime
      BY WindowOK, TypeParts, VersionOK, WatchAssumption
    <3>2. Top({v[2] : v \in There}, 0) \in {v[2] : v \in There} \union {0}
      BY <3>1, TopOf
    <3> QED BY <1>0, <3>2
  <2>2. job'.cursor = job.cursor /\ UNCHANGED <<config, sourceVars>>
        /\ \/ poll' = poll
           \/ poll'.next = NoCursor /\ poll'.cursor.ts = Top({v[2] : v \in There}, 0)
    BY <1>3, StartEffect
  <2> QED BY <1>0, <2>1, <2>2, IdleFields, TimeStays
<1>4. CASE Seed
  <2>1. job'.cursor.ts \in {0, poll.cursor.ts}
    BY <1>4, SeedEffect
  <2>2. Reach(job'.cursor.ts)
    BY <1>0, <2>1
  <2> QED BY <1>0, <1>4, <2>2, SeedEffect, IdleFields, TimeStays
<1>5. CASE Restart \/ Stop
  BY <1>0, <1>5, PauseEffect, TimeStays
<1>6. CASE PollBegin
  BY <1>0, <1>6, BeginEffect, IdleFields, TimeStays
<1>7. CASE Fetch
  <2>1. PICK page : page = Page(poll.cursor, poll.offset)
    OBVIOUS
  <2>2. poll'.cursor = poll.cursor /\ poll'.next = advanceCursor(poll.cursor, page) /\ UNCHANGED <<config, sourceVars, job>>
    BY <1>7, <2>1, FetchEffect
  <2>3. poll.cursor \in Cursors /\ config \in Cases /\ page \subseteq There /\ page \subseteq Versions
    BY <2>1, TypeParts, PollFields, WindowOK
  <2>4. Reach(advanceCursor(poll.cursor, page).ts)
    <3>1. \/ advanceCursor(poll.cursor, page).ts = poll.cursor.ts
          \/ \E v \in page : advanceCursor(poll.cursor, page).ts = v[2]
      BY <2>3, AdvanceOf
    <3> QED BY <1>0, <2>3, <3>1
  <2> QED BY <1>0, <2>2, <2>4, TimeStays
<1>8. ASSUME NEW ok \in BOOLEAN, Deliver(ok) PROVE TimeInv'
  BY <1>0, <1>8, DeliverEffect, TimeStays
<1>9. CASE Record
  BY <1>0, <1>9, RecordEffect, TimeStays
<1>10. CASE Park
  BY <1>0, <1>10, ParkEffect, TimeStays
<1>11. CASE SaveSeq
  BY <1>0, <1>11, SaveSeqEffect, TimeStays
<1>12. CASE SavePage
  BY <1>0, <1>12, SavePageEffect, IdleFields, TimeStays
<1>13. CASE PollEnd \/ Pause \/ Drift \/ Crash
  BY <1>0, <1>13, EndEffect, IdleFields, TimeStays
<1> QED BY <1>1, <1>2, <1>3, <1>4, <1>5, <1>6, <1>7, <1>8, <1>9, <1>10, <1>11, <1>12, <1>13, NextCases

-----------------------------------------------------------------------------
(* ranks and pages *)

(* Under a column that is watched, rows are in a strict order. *)
LEMMA RowOrder ==
  ASSUME config.strategy # "snapshot", NEW u \in Versions, NEW v \in Versions
  PROVE  /\ ~Precedes(u, u)
         /\ u # v => Precedes(u, v) \/ Precedes(v, u)
         /\ \A w \in Versions : Precedes(u, v) /\ Precedes(v, w) => Precedes(u, w)
         /\ Precedes(u, v) => u[2] <= v[2] /\ (u[2] = v[2] => u[1] # v[1])
<1>1. \A w \in Versions : w[1] \in Nat /\ w[2] \in Nat
  BY VersionOK
<1>2. u = <<u[1], u[2]>> /\ v = <<v[1], v[2]>>
  BY VersionOK
<1> QED BY <1>1, <1>2 DEF Precedes

(* The ranks of the rows of a window follow their order. *)
LEMMA RankOrder ==
  ASSUME config.strategy # "snapshot", NEW W, W \subseteq Versions, IsFiniteSet(W), NEW u \in W, NEW v \in W
  PROVE  /\ Rank(W, u) \in Nat
         /\ Precedes(u, v) => Rank(W, u) < Rank(W, v)
         /\ Rank(W, u) = Rank(W, v) => u = v
<1> DEFINE A(x) == {w \in W : Precedes(w, x)}
<1>1. \A x : A(x) \subseteq W /\ IsFiniteSet(A(x))
  BY FS_Subset
<1>2. \A x : Cardinality(A(x)) \in Nat /\ Rank(W, x) = Cardinality(A(x))
  BY <1>1, FS_CardinalityType DEF Rank
<1>3. ASSUME NEW x \in W, NEW y \in W, Precedes(x, y) PROVE Rank(W, x) < Rank(W, y)
  <2>1. A(x) \subseteq A(y) /\ x \in A(y) /\ x \notin A(x)
    BY <1>3, RowOrder
  <2>2. Cardinality(A(x)) <= Cardinality(A(y)) /\ Cardinality(A(x)) # Cardinality(A(y))
    BY <1>1, <2>1, FS_Subset
  <2> QED BY <1>2, <2>2
<1>4. Rank(W, u) = Rank(W, v) => u = v
  <2>1. u # v => Precedes(u, v) \/ Precedes(v, u)
    BY RowOrder
  <2>2. PICK a \in Nat, b \in Nat : a = Rank(W, u) /\ b = Rank(W, v)
    BY <1>2
  <2>3. (Precedes(u, v) => a < b) /\ (Precedes(v, u) => b < a)
    BY <1>3, <2>2, Zenon
  <2> QED BY <2>1, <2>2, <2>3
<1> QED BY <1>2, <1>3, <1>4

(* A part of a window that has with a row all that precede it holds just the
   rows of the lowest ranks. *)
LEMMA RankWithin ==
  ASSUME config.strategy # "snapshot", NEW W, W \subseteq Versions, IsFiniteSet(W), NEW S, S \subseteq W,
         \A v \in S, u \in W : Precedes(u, v) => u \in S,
         NEW v \in W
  PROVE  v \in S <=> Rank(W, v) < Cardinality(S)
<1> DEFINE A == {w \in W : Precedes(w, v)}
<1>1. A \subseteq W /\ IsFiniteSet(A) /\ IsFiniteSet(S) /\ Rank(W, v) = Cardinality(A)
  BY FS_Subset DEF Rank
<1>2. Cardinality(A) \in Nat /\ Cardinality(S) \in Nat
  BY <1>1, FS_CardinalityType
<1>3. CASE v \in S
  <2>1. A \subseteq S /\ v \notin A
    BY <1>3, RowOrder
  <2>2. Cardinality(A) <= Cardinality(S) /\ Cardinality(A) # Cardinality(S)
    BY <1>1, <1>3, <2>1, FS_Subset
  <2> QED BY <1>1, <1>2, <1>3, <2>2
<1>4. CASE v \notin S
  <2>1. ASSUME NEW s \in S PROVE Precedes(s, v)
    <3>1. s # v /\ s \in W /\ s \in Versions /\ v \in Versions
      BY <1>4
    <3>2. ~Precedes(v, s)
      BY <1>4
    <3> QED BY <3>1, <3>2, RowOrder
  <2>2. S \subseteq A
    BY <2>1
  <2>3. Cardinality(S) <= Cardinality(A)
    BY <1>1, <2>2, FS_Subset
  <2> QED BY <1>1, <1>2, <1>4, <2>3
<1> QED BY <1>3, <1>4

(* A page is no longer than its limit. *)
LEMMA PageSize ==
  ASSUME SourceType, config.strategy # "snapshot", NEW c, NEW o \in Nat
  PROVE  Cardinality(Page(c, o)) <= PageLimit
<1> DEFINE W == watchQuery(c)
           P == Page(c, o)
           I == o .. (o + PageLimit - 1)
           f == [v \in P |-> Rank(W, v)]
<1>1. W \subseteq Versions /\ IsFiniteSet(W) /\ P \subseteq W /\ \A v \in P : Rank(W, v) \in I
  BY WindowOK DEF Page
<1>2. \A u, v \in P : f[u] = f[v] => u = v
  BY <1>1, RankOrder
<1>3. f \in [P -> I]
  BY <1>1
<1>4. f \in Injection(P, I)
  BY <1>2, <1>3 DEF Injection, IsInjective
<1>5. PageLimit \in Nat \ {0}
  BY WatchAssumption
<1>6. IsFiniteSet(I) /\ Cardinality(I) = PageLimit
  <2>1. o \in Int /\ o + PageLimit - 1 \in Int /\ ~(o > o + PageLimit - 1)
    BY <1>5
  <2>2. IsFiniteSet(I) /\ Cardinality(I) = (o + PageLimit - 1) - o + 1
    BY <2>1, FS_Interval
  <2> QED BY <1>5, <2>2
<1>7. Cardinality(P) <= Cardinality(I)
  BY <1>4, <1>6, FS_Injection
<1> QED BY <1>6, <1>7

-----------------------------------------------------------------------------
(* no row is skipped: a poll that digs *)

(* Before the beginning of the window there is nothing. *)
LEMMA DugNone == Dug(0)
BY FS_EmptySet DEF Dug
(* The same, after a step. *)
LEMMA DugNoneNext == Dug(0)'
BY FS_EmptySet DEF Dug

(* What is dug stays while the table and the cursor stay. *)
LEMMA DugStays ==
  ASSUME UNCHANGED <<config, table>>, poll'.cursor = poll.cursor, NEW n, Dug(n)
  PROVE  Dug(n)'
<1>1. watchQuery(poll.cursor)' = watchQuery(poll.cursor)
  BY DEF watchQuery, There, InQuery
<1>2. PICK S \in SUBSET watchQuery(poll.cursor) :
        /\ Cardinality(S) = n
        /\ \A v \in S : Known(poll.cursor, v) /\ v[2] <= poll.cursor.ts
        /\ \A v \in S, u \in watchQuery(poll.cursor) : Precedes(u, v) => u \in S
  BY DEF Dug
<1>3. \A v \in S : Known(poll.cursor, v)' /\ v[2] <= poll'.cursor.ts
  BY <1>2 DEF Known, InQuery
<1>4. \A v \in S, u \in watchQuery(poll.cursor)' : Precedes(u, v)' => u \in S
  BY <1>1, <1>2 DEF Precedes
<1> QED BY <1>1, <1>2, <1>3, <1>4 DEF Dug

(* A row that commits ahead of the cursor, under a key that was free, moves no
   row of those that are dug. *)
LEMMA DugCommit ==
  ASSUME TypeOK, config.strategy # "snapshot", NEW k \in Keys, Commit(k),
         table[k] = 0, open[k] > poll.cursor.ts, NEW n, Dug(n)
  PROVE  Dug(n)'
<1>1. /\ open[k] # 0 /\ table' = [table EXCEPT ![k] = open[k]] /\ UNCHANGED <<config, poll>>
  BY DEF Commit
<1>2. open[k] \in Nat /\ open[k] \in 1..MaxTime /\ poll.cursor.ts \in Nat /\ table \in [Keys -> 0..MaxTime] /\ SourceType
  BY <1>1, TypeParts, PollFields, WatchAssumption DEF SourceType, Cursors
<1>3. PICK S \in SUBSET watchQuery(poll.cursor) :
        /\ Cardinality(S) = n
        /\ \A v \in S : Known(poll.cursor, v) /\ v[2] <= poll.cursor.ts
        /\ \A v \in S, u \in watchQuery(poll.cursor) : Precedes(u, v) => u \in S
  BY DEF Dug
<1>4. PICK w : w = <<k, open[k]>>
  OBVIOUS
<1>5. There' = There \union {w}
  <2>1. \A j \in Keys : table'[j] = IF j = k THEN open[k] ELSE table[j]
    BY <1>1, <1>2
  <2>2. ASSUME NEW v \in There' PROVE v \in There \union {w}
    <3>1. PICK j \in Keys : table'[j] # 0 /\ v = <<j, table'[j]>>
      BY DEF There
    <3> QED BY <1>4, <2>1, <3>1 DEF There
  <2>3. ASSUME NEW v \in There PROVE v \in There'
    <3>1. PICK j \in Keys : table[j] # 0 /\ v = <<j, table[j]>>
      BY DEF There
    <3>2. j # k
      BY <3>1
    <3> QED BY <2>1, <3>1, <3>2 DEF There
  <2>4. w \in There'
    BY <1>1, <1>4, <2>1 DEF There
  <2> QED BY <2>2, <2>3, <2>4
<1>6. watchQuery(poll.cursor) \subseteq watchQuery(poll.cursor)'
      /\ watchQuery(poll.cursor)' \subseteq watchQuery(poll.cursor) \union {w}
  BY <1>1, <1>5 DEF watchQuery, InQuery
<1>7. \A v \in S : Known(poll.cursor, v)' /\ v[2] <= poll'.cursor.ts
  BY <1>1, <1>3 DEF Known, InQuery
<1>8. ASSUME NEW v \in S PROVE ~Precedes(w, v)
  <2>1. v \in Versions /\ w \in Versions
    BY <1>2, <1>4, WindowOK DEF Versions
  <2>2. w[2] = open[k] /\ v[2] <= poll.cursor.ts /\ v[2] \in Nat
    BY <1>3, <1>4, <2>1, VersionOK
  <2> QED BY <1>2, <2>1, <2>2, RowOrder
<1>9. \A v \in S, u \in watchQuery(poll.cursor)' : Precedes(u, v)' => u \in S
  BY <1>1, <1>3, <1>6, <1>8 DEF Precedes
<1> QED BY <1>3, <1>6, <1>7, <1>9 DEF Dug

(* While a poll digs and nothing has moved, the source does not disturb it. *)
LEMMA DugSource ==
  ASSUME TypeOK, config.strategy # "snapshot", Tick \/ \E k \in Keys : Begin(k) \/ Commit(k) \/ Delete(k),
         ~ghost'.shifted, NEW n, Dug(n), Digging
  PROVE  Dug(n)'
<1>0. GhostType /\ UNCHANGED <<config, poll>>
  BY TypeParts, SourceEffect
<1>1. CASE Tick
  BY <1>0, <1>1, DugStays DEF Tick
<1>2. ASSUME NEW k \in Keys, Begin(k) PROVE Dug(n)'
  BY <1>0, <1>2, DugStays DEF Begin
<1>3. ASSUME NEW k \in Keys, Moves(k) PROVE ~(table[k] # 0 \/ open[k] <= poll.cursor.ts)
  BY <1>0, <1>3 DEF Moves, GhostType
<1>4. ASSUME NEW k \in Keys, Commit(k) PROVE Dug(n)'
  <2>1. table[k] = 0 /\ ~(open[k] <= poll.cursor.ts)
    BY <1>3, <1>4 DEF Commit
  <2>2. open[k] \in Nat /\ poll.cursor.ts \in Nat
    BY TypeParts, PollFields, WatchAssumption DEF SourceType, Cursors
  <2>3. open[k] > poll.cursor.ts
    BY <2>1, <2>2
  <2> QED BY <1>4, <2>1, <2>3, DugCommit
<1>5. ASSUME NEW k \in Keys, Delete(k) PROVE Dug(n)'
  BY <1>3, <1>5 DEF Delete
<1> QED BY <1>1, <1>2, <1>4, <1>5

(* A page that is full and fruitless is dug too. *)
LEMMA DugDeeper ==
  ASSUME TypeOK, config.strategy # "snapshot", NEW c, c = poll.cursor, NEW o, o = poll.offset,
         NEW page, page = Page(c, o), Cardinality(page) >= PageLimit,
         newRows(c, page) = {}, advanceCursor(c, page) = c, Dug(o)
  PROVE  Dug(o + PageLimit)
<1> DEFINE W == watchQuery(c)
<1>1. /\ SourceType /\ config \in Cases /\ c \in Cursors /\ o \in Nat /\ PageLimit \in Nat \ {0} /\ c.ts \in Nat
  BY TypeParts, PollFields, WatchAssumption DEF Cursors
<1>2. W \subseteq Versions /\ IsFiniteSet(W) /\ page \subseteq W /\ IsFiniteSet(page)
      /\ \A v \in W : v \in page <=> Rank(W, v) \in o .. (o + PageLimit - 1)
  BY <1>1, WindowOK DEF Page
<1>3. PICK S \in SUBSET W :
        /\ Cardinality(S) = o
        /\ \A v \in S : Known(c, v) /\ v[2] <= c.ts
        /\ \A v \in S, u \in W : Precedes(u, v) => u \in S
  BY DEF Dug
<1>4. \A v \in W : v \in S <=> Rank(W, v) < o
  BY <1>2, <1>3, RankWithin
<1>5. Cardinality(page) = PageLimit
  <2>1. Cardinality(page) <= PageLimit /\ Cardinality(page) \in Nat
    BY <1>1, <1>2, PageSize, FS_CardinalityType
  <2> QED BY <1>1, <2>1
<1>6. S \cap page = {} /\ IsFiniteSet(S)
  <2>1. \A v \in W : Rank(W, v) \in Nat
    BY <1>2, RankOrder
  <2> QED BY <1>1, <1>2, <1>3, <1>4, <2>1, FS_Subset
<1>7. Cardinality(S \union page) = o + PageLimit
  <2>1. Cardinality(S \cap page) = 0
    BY <1>6, FS_EmptySet
  <2>2. Cardinality(S \union page) = Cardinality(S) + Cardinality(page) - Cardinality(S \cap page)
    BY <1>2, <1>6, FS_Union, Zenon
  <2> QED BY <1>1, <1>3, <1>5, <2>1, <2>2
<1>8. ASSUME NEW v \in page PROVE Known(c, v) /\ v[2] <= c.ts
  <2>1. v \in c.keys /\ config.strategy # "increment"
    BY <1>8 DEF newRows
  <2>2. v[2] <= c.ts
    BY <1>1, <1>2, AdvanceOf
  <2> QED BY <2>1, <2>2 DEF Known
<1>9. ASSUME NEW v \in S \union page, NEW u \in W, Precedes(u, v) PROVE u \in S \union page
  <2>1. CASE v \in S
    BY <1>3, <1>9, <2>1
  <2>2. CASE v \in page
    <3>1. Rank(W, u) < Rank(W, v) /\ Rank(W, u) \in Nat /\ Rank(W, v) \in Nat
      BY <1>2, <1>9, <2>2, RankOrder
    <3>2. Rank(W, v) <= o + PageLimit - 1
      BY <1>1, <1>2, <2>2
    <3>3. Rank(W, u) < o \/ Rank(W, u) \in o .. (o + PageLimit - 1)
      BY <1>1, <3>1, <3>2
    <3> QED BY <1>2, <1>4, <3>3
  <2> QED BY <2>1, <2>2
<1> QED BY <1>2, <1>3, <1>7, <1>8, <1>9 DEF Dug

(* Every step keeps what is dug. *)
LEMMA NextDug ==
  ASSUME TypeOK, PlaceInv, DugInv, [Next]_vars
  PROVE  DugInv'
<1> SUFFICES ASSUME ~ghost'.shifted, config'.strategy # "snapshot"
             PROVE  /\ poll'.pc = "fetch" => Dug(poll.offset)'
                    /\ Fruitless' => Dug(poll.offset + PageLimit)'
  BY DEF DugInv
<1> DEFINE Goal == /\ poll'.pc = "fetch" => Dug(poll.offset)'
                   /\ Fruitless' => Dug(poll.offset + PageLimit)'
<1>0. poll.offset \in Nat /\ PageLimit \in Nat
  BY TypeParts, PollFields, WatchAssumption
<1>1. CASE UNCHANGED vars
  <2>1. config.strategy # "snapshot" /\ ~ghost.shifted /\ poll' = poll /\ UNCHANGED <<config, table>>
    BY <1>1 DEF vars
  <2>2. Fruitless' => Fruitless
    BY <2>1 DEF Fruitless
  <2> QED BY <2>1, <2>2, DugStays DEF DugInv
<1>2. CASE Tick \/ \E k \in Keys : Begin(k) \/ Commit(k) \/ Delete(k)
  <2>1. UNCHANGED <<config, poll>> /\ ~ghost.shifted /\ config.strategy # "snapshot"
    BY <1>2, SourceEffect
  <2>2. ASSUME poll.pc = "fetch" PROVE Dug(poll.offset)'
    <3>1. Dug(poll.offset)
      BY <2>1, <2>2 DEF DugInv
    <3>2. CASE poll.offset = 0
      BY <2>1, <3>2, DugNoneNext
    <3>3. CASE poll.offset # 0
      <4>1. Digging
        BY <1>0, <3>3 DEF Digging
      <4>2. PICK n : n = poll.offset
        OBVIOUS
      <4>3. Dug(n)'
        BY <1>2, <2>1, <3>1, <4>1, <4>2, DugSource
      <4> QED BY <2>1, <4>2, <4>3
    <3> QED BY <3>2, <3>3
  <2>3. ASSUME Fruitless PROVE Dug(poll.offset + PageLimit)'
    <3>1. Dug(poll.offset + PageLimit)
      BY <2>1, <2>3 DEF DugInv
    <3>2. Digging
      BY <2>3 DEF Digging, Fruitless
    <3>3. PICK n : n = poll.offset + PageLimit
      OBVIOUS
    <3>4. Dug(n)'
      BY <1>2, <2>1, <3>1, <3>2, <3>3, DugSource
    <3> QED BY <2>1, <3>3, <3>4
  <2>4. Fruitless' => Fruitless
    BY <2>1 DEF Fruitless
  <2> QED BY <2>1, <2>2, <2>3, <2>4
<1>3. CASE Start
  <2>1. poll'.pc \in {"idle", "seed"}
    BY <1>3, StartEffect
  <2> QED BY <2>1 DEF Fruitless
<1>4. CASE Seed
  BY <1>4, SeedEffect, IdleFields DEF Fruitless
<1>5. CASE Restart \/ Stop
  <2>1. /\ poll'.pc = poll.pc /\ poll'.cursor = poll.cursor /\ poll'.next = poll.next /\ poll'.offset = poll.offset
        /\ poll'.found = poll.found /\ poll'.full = poll.full /\ UNCHANGED <<config, sourceVars, ghost>>
    BY <1>5, PauseEffect
  <2>2. UNCHANGED <<config, table>> /\ ~ghost.shifted /\ config.strategy # "snapshot"
    BY <2>1 DEF sourceVars
  <2>3. Fruitless' => Fruitless
    BY <2>1 DEF Fruitless
  <2>4. PICK n, m : n = poll.offset /\ m = poll.offset + PageLimit
    OBVIOUS
  <2>5. (poll.pc = "fetch" => Dug(n)') /\ (Fruitless => Dug(m)')
    BY <2>1, <2>2, <2>4, DugStays DEF DugInv
  <2> QED BY <2>1, <2>3, <2>4, <2>5
<1>6. CASE PollBegin
  <2>1. poll'.pc = "fetch" /\ poll'.offset = 0
    BY <1>6, BeginEffect
  <2> QED BY <2>1, DugNoneNext DEF Fruitless
<1>7. CASE Fetch
  <2>1. PICK c, o, page : c = poll.cursor /\ o = poll.offset /\ page = Page(poll.cursor, poll.offset)
    OBVIOUS
  <2>2. /\ poll.pc = "fetch" /\ poll'.pc = "row" /\ poll'.cursor = c /\ poll'.offset = o
        /\ poll'.rows = newRows(c, page) /\ poll'.found = Cardinality(poll'.rows)
        /\ poll'.next = advanceCursor(c, page) /\ poll'.full = (Cardinality(page) >= PageLimit)
        /\ UNCHANGED <<config, sourceVars, ghost>>
    BY <1>7, <2>1, FetchEffect
  <2>3. ~ghost.shifted /\ config.strategy # "snapshot" /\ Dug(o)
    BY <2>1, <2>2 DEF DugInv
  <2>4. ASSUME Fruitless' PROVE Dug(o + PageLimit)
    <3>1. Cardinality(page) >= PageLimit /\ Cardinality(newRows(c, page)) = 0 /\ advanceCursor(c, page) = c
      BY <2>2, <2>4 DEF Fruitless
    <3>2. newRows(c, page) = {}
      BY <2>1, <3>1, NewRowsOf, TypeParts
    <3> QED BY <2>1, <2>3, <3>1, <3>2, DugDeeper
  <2>5. PICK n : n = o + PageLimit
    OBVIOUS
  <2>6. ASSUME Fruitless' PROVE Dug(n)'
    BY <2>1, <2>2, <2>4, <2>5, <2>6, DugStays DEF sourceVars
  <2> QED BY <2>2, <2>5, <2>6
<1>8. ASSUME NEW ok \in BOOLEAN, Deliver(ok) PROVE Goal
  BY <1>8, DeliverEffect DEF Fruitless
<1>9. CASE Record
  <2>1. poll'.pc \in {"seq", "failed"}
    BY <1>9, RecordEffect
  <2> QED BY <2>1 DEF Fruitless
<1>10. CASE Park
  BY <1>10, ParkEffect DEF Fruitless
<1>11. CASE SaveSeq
  <2>1. poll'.pc = "row" /\ poll'.found = poll.found /\ poll.found # 0
    BY <1>11, SaveSeqEffect DEF PlaceInv, InPage
  <2> QED BY <2>1 DEF Fruitless
<1>12. CASE SavePage
  <2>1. /\ poll.pc = "row" /\ UNCHANGED <<config, sourceVars>> /\ ghost'.shifted = ghost.shifted
        /\ \/ poll'.pc = "idle"
           \/ /\ poll.full /\ poll'.pc = "fetch" /\ poll'.cursor = poll.next
              /\ poll'.offset = IF poll.found = 0 /\ poll.next = poll.cursor THEN poll.offset + PageLimit ELSE 0
    BY <1>12, SavePageEffect, IdleFields
  <2>2. ASSUME poll'.pc = "fetch" PROVE Dug(poll.offset)'
    <3>1. CASE poll.found = 0 /\ poll.next = poll.cursor
      <4>1. Dug(poll.offset + PageLimit)
        BY <2>1, <2>2, <3>1 DEF DugInv, Fruitless
      <4>2. PICK n : n = poll.offset + PageLimit
        OBVIOUS
      <4>3. Dug(n)'
        BY <2>1, <2>2, <3>1, <4>1, <4>2, DugStays DEF sourceVars
      <4> QED BY <2>1, <2>2, <3>1, <4>2, <4>3
    <3>2. CASE ~(poll.found = 0 /\ poll.next = poll.cursor)
      <4>1. poll'.offset = 0
        BY <2>1, <2>2, <3>2
      <4> QED BY <4>1, DugNoneNext
    <3> QED BY <3>1, <3>2
  <2> QED BY <2>1, <2>2 DEF Fruitless
<1>13. CASE PollEnd \/ Pause \/ Drift \/ Crash
  BY <1>13, EndEffect, IdleFields DEF Fruitless
<1> QED BY <1>1, <1>2, <1>3, <1>4, <1>5, <1>6, <1>7, <1>8, <1>9, <1>10, <1>11, <1>12, <1>13, NextCases

-----------------------------------------------------------------------------
(* no row is skipped: what the cursor has passed *)

(* What is settled for good stays so. *)
LEMMA FirmOn ==
  ASSUME landed \subseteq landed', ghost.before \subseteq ghost'.before,
         \A p \in parked : p.seq < job.offset => p \in parked' /\ p.seq < job'.offset
  PROVE  \A v : Firm(v) => Firm(v)'
BY DEF Firm

(* Nothing of that changes while what was delivered, set aside, there before and
   the saved number stay. *)
LEMMA FirmSame ==
  ASSUME UNCHANGED <<landed, parked>>, ghost'.before = ghost.before, job'.offset = job.offset
  PROVE  \A v : Firm(v)' <=> Firm(v)
BY DEF Firm

(* A transaction that is open commits ahead of every cursor that is in reach. *)
LEMMA OpenAhead ==
  ASSUME TypeOK, TimeInv, InTime, NEW k \in Keys, open[k] # 0, NEW c \in Cursors, Reach(c.ts)
  PROVE  InQuery(c, <<k, open[k]>>)
<1>1. /\ open[k] \in Nat /\ clock \in Nat /\ c.ts \in Nat /\ Lookback \in Nat /\ Late["timestamp"] \in Nat
      /\ config.strategy \in {"increment", "timestamp", "snapshot"}
  BY TypeParts, ConfigOK, WatchAssumption DEF SourceType, Cursors, Strategies
<1>2. CASE config.strategy = "increment"
  BY <1>1, <1>2 DEF Reach, InQuery
<1>3. CASE config.strategy = "timestamp"
  <2>1. c.ts <= clock /\ clock <= open[k] + Late["timestamp"] /\ Late["timestamp"] <= Lookback
    BY <1>3 DEF Reach, TimeInv, InTime
  <2> QED BY <1>1, <1>3, <2>1 DEF InQuery
<1>4. CASE config.strategy = "snapshot"
  BY <1>4 DEF InQuery
<1> QED BY <1>1, <1>2, <1>3, <1>4

(* A row is there that was there, or that has just been committed. *)
LEMMA ThereNext ==
  ASSUME TypeOK, Tick \/ \E k \in Keys : Begin(k) \/ Commit(k) \/ Delete(k), NEW v \in There'
  PROVE  v \in There \/ \E k \in Keys : open[k] # 0 /\ v = <<k, open[k]>>
<1>1. table \in [Keys -> 0..MaxTime]
  BY TypeParts DEF SourceType
<1>2. PICK j \in Keys : table'[j] # 0 /\ v = <<j, table'[j]>>
  BY DEF There
<1>3. CASE table'[j] = table[j]
  BY <1>2, <1>3 DEF There
<1>4. CASE table'[j] # table[j]
  <2>1. table' # table
    BY <1>4
  <2>2. PICK k \in Keys : Commit(k) \/ Delete(k)
    BY <2>1 DEF Tick, Begin
  <2>3. CASE Commit(k)
    BY <1>1, <1>2, <1>4, <2>3 DEF Commit
  <2>4. CASE Delete(k)
    BY <1>1, <1>2, <1>4, <2>4 DEF Delete
  <2> QED BY <2>2, <2>3, <2>4
<1> QED BY <1>3, <1>4

(* What the source commits is ahead of the cursors. *)
LEMMA SourceFirm ==
  ASSUME TypeOK, TimeInv, InTime, FirmInv, Tick \/ \E k \in Keys : Begin(k) \/ Commit(k) \/ Delete(k)
  PROVE  FirmInv'
<1>1. /\ UNCHANGED <<config, job, poll, outVars>> /\ ghost'.before = ghost.before /\ (ghost.shifted => ghost'.shifted)
  BY SourceEffect
<1>2. \A v : Firm(v)' <=> Firm(v)
  BY <1>1, FirmSame DEF outVars
<1>3. job.cursor \in Cursors /\ poll.cursor \in Cursors /\ poll.next \in Cursors
  BY TypeParts, PollFields DEF JobType
<1>4. ASSUME NEW v \in There', v \notin There, NEW c \in Cursors, Reach(c.ts) PROVE InQuery(c, v)
  BY <1>4, ThereNext, OpenAhead
<1>5. Reach(job.cursor.ts) /\ Reach(poll.cursor.ts) /\ Reach(poll.next.ts)
  BY DEF TimeInv
<1>6. (job.status # "none" => \A v \in job.cursor.keys : Firm(v))'
  BY <1>1, <1>2 DEF FirmInv
<1>7. ASSUME job.status # "none", ~ghost'.shifted, NEW v \in There' PROVE Firm(v) \/ ~Known(job.cursor, v)
  <2>1. CASE v \in There
    BY <1>1, <1>7, <2>1 DEF FirmInv
  <2>2. CASE v \notin There
    <3>1. InQuery(job.cursor, v)
      BY <1>3, <1>4, <1>5, <2>2
    <3>2. v \in job.cursor.keys => Firm(v)
      BY <1>7 DEF FirmInv
    <3> QED BY <3>1, <3>2 DEF Known
  <2> QED BY <2>1, <2>2
<1>8. (InPage => \A v \in poll.next.keys : Firm(v) \/ v \in poll.rows)'
  BY <1>1, <1>2 DEF FirmInv, InPage
<1>9. ASSUME InPage, ~ghost'.shifted, NEW v \in There' PROVE Firm(v) \/ v \in poll.rows \/ ~Known(poll.next, v)
  <2>1. CASE v \in There
    BY <1>1, <1>9, <2>1 DEF FirmInv
  <2>2. CASE v \notin There
    <3>1. InQuery(poll.next, v)
      BY <1>3, <1>4, <1>5, <2>2
    <3>2. v \in poll.next.keys => Firm(v) \/ v \in poll.rows
      BY <1>9 DEF FirmInv
    <3> QED BY <3>1, <3>2 DEF Known
  <2> QED BY <2>1, <2>2
<1>10. (InPage => HandFirm)'
  BY <1>1 DEF FirmInv, InPage, HandFirm, First, Precedes, outVars
<1>11. ASSUME poll.pc = "seed", NEW v \in There' PROVE v \in ghost.before \/ InQuery(poll.cursor, v)
  BY <1>3, <1>4, <1>5, <1>11 DEF FirmInv
<1>12. (config.strategy = "snapshot" => job.cursor.ts = 0 /\ poll.next.ts = 0)'
  BY <1>1 DEF FirmInv
<1>13. (job.status # "none" /\ ~ghost.shifted => \A v \in There : Firm(v) \/ ~Known(job.cursor, v))'
  BY <1>1, <1>2, <1>7 DEF Known, InQuery
<1>14. (InPage /\ ~ghost.shifted => \A v \in There : Firm(v) \/ v \in poll.rows \/ ~Known(poll.next, v))'
  BY <1>1, <1>2, <1>9 DEF Known, InQuery, InPage
<1>15. (poll.pc = "seed" => \A v \in There : v \in ghost.before \/ InQuery(poll.cursor, v))'
  BY <1>1, <1>11 DEF InQuery
<1> QED BY <1>6, <1>8, <1>10, <1>12, <1>13, <1>14, <1>15 DEF FirmInv

(* The cursor behind a page passes no row that is not of the page and was not
   settled before. *)
LEMMA PagePasses ==
  ASSUME TypeOK, TimeInv, NEW c, c = poll.cursor, NEW o, o = poll.offset,
         NEW page, page = Page(c, o), config.strategy # "snapshot" => Dug(o),
         NEW v \in There, ~Known(c, v), v \notin newRows(c, page)
  PROVE  ~Known(advanceCursor(c, page), v)
<1> DEFINE W == watchQuery(c)
           n == advanceCursor(c, page)
<1>1. /\ SourceType /\ config \in Cases /\ c \in Cursors /\ o \in Nat /\ PageLimit \in Nat \ {0} /\ Lookback \in Nat
      /\ config.strategy \in {"increment", "timestamp", "snapshot"}
  BY TypeParts, PollFields, ConfigOK, WatchAssumption
<1>2. /\ W \subseteq Versions /\ IsFiniteSet(W) /\ page \subseteq W /\ page \subseteq Versions /\ W \subseteq There
      /\ \A u \in W : u \in page <=> Rank(W, u) \in o .. (o + PageLimit - 1)
  BY <1>1, WindowOK DEF Page
<1>3. InQuery(c, v) /\ (config.strategy # "increment" => v \notin c.keys) /\ v \in W
  BY DEF Known, watchQuery
<1>4. v \notin page
  BY <1>3 DEF newRows
<1>5. config.strategy # "increment" => v \notin n.keys
  BY <1>1, <1>2, <1>3, <1>4, AdvanceOf
<1>6. InQuery(n, v)
  <2>1. n.ts = c.ts \/ \E u \in page : n.ts = u[2]
    BY <1>1, <1>2, AdvanceOf
  <2>2. CASE n.ts = c.ts
    BY <1>3, <2>2 DEF InQuery
  <2>3. CASE config.strategy = "snapshot"
    BY <2>3 DEF InQuery
  <2>4. ASSUME config.strategy # "snapshot", NEW u \in page, n.ts = u[2] PROVE InQuery(n, v)
    <3>1. PICK S \in SUBSET W :
            /\ Cardinality(S) = o
            /\ \A s \in S : Known(c, s)
            /\ \A s \in S, w \in W : Precedes(w, s) => w \in S
      BY <2>4 DEF Dug
    <3>2. v \notin S
      BY <3>1
    <3>3. ~(Rank(W, v) < o) /\ Rank(W, v) \in Nat /\ Rank(W, u) \in Nat
      BY <1>2, <1>3, <2>4, <3>1, <3>2, RankWithin, RankOrder
    <3>4. Rank(W, u) <= o + PageLimit - 1 /\ ~(Rank(W, v) \in o .. (o + PageLimit - 1))
      BY <1>1, <1>2, <1>3, <1>4, <2>4
    <3>5. Rank(W, u) < Rank(W, v)
      BY <1>1, <3>3, <3>4
    <3>6. ~Precedes(v, u) /\ u # v
      <4>1. Precedes(v, u) => Rank(W, v) < Rank(W, u)
        BY <1>2, <1>3, <2>4, RankOrder
      <4> QED BY <1>4, <2>4, <3>3, <3>5, <4>1
    <3>7. u \in Versions /\ v \in Versions /\ u \in There
      BY <1>2, <1>3, <2>4
    <3>8. u[2] <= v[2] /\ (u[2] = v[2] => u[1] # v[1]) /\ u[2] \in Nat /\ v[2] \in Nat
      BY <2>4, <3>6, <3>7, RowOrder, VersionOK
    <3>9. CASE config.strategy = "timestamp"
      BY <1>1, <2>4, <3>8, <3>9 DEF InQuery
    <3>10. CASE config.strategy = "increment"
      <4>1. /\ u[1] \in Keys /\ u[2] = table[u[1]] /\ table[u[1]] # 0
            /\ v[1] \in Keys /\ v[2] = table[v[1]] /\ table[v[1]] # 0
        BY <1>1, <3>7, WindowOK
      <4>2. u[2] # v[2]
        BY <3>8, <3>10, <4>1 DEF TimeInv
      <4> QED BY <2>4, <3>8, <3>10, <4>2 DEF InQuery
    <3> QED BY <1>1, <2>4, <3>9, <3>10
  <2> QED BY <2>1, <2>2, <2>3, <2>4
<1> QED BY <1>5, <1>6 DEF Known

(* A page leaves behind it only rows of the page, and settled ones. *)
LEMMA FetchFirm ==
  ASSUME TypeOK, PlaceInv, TimeInv, DugInv, FirmInv, Fetch
  PROVE  FirmInv'
<1>1. PICK c, o, page : c = poll.cursor /\ o = poll.offset /\ page = Page(poll.cursor, poll.offset)
  OBVIOUS
<1>2. PICK n : n = advanceCursor(c, page)
  OBVIOUS
<1>3. /\ poll.pc = "fetch" /\ poll'.pc = "row" /\ poll'.rows = newRows(c, page) /\ poll'.next = n
      /\ UNCHANGED <<config, sourceVars, job, outVars, ghost>>
  BY <1>1, <1>2, FetchEffect
<1>4. c = job.cursor /\ job.status # "none" /\ c \in Cursors /\ config \in Cases /\ page \subseteq Versions
  BY <1>1, <1>3, TypeParts, PollFields, WindowOK DEF PlaceInv, AtWork
<1>5. \A v : Firm(v)' <=> Firm(v)
  BY <1>3, FirmSame DEF outVars
<1>6. There' = There
  BY <1>3 DEF There, sourceVars
<1>7. ASSUME NEW v \in n.keys PROVE Firm(v) \/ v \in newRows(c, page)
  <2>1. v \in c.keys \/ (v \in page /\ config.strategy # "increment")
    BY <1>2, <1>4, <1>7, AdvanceOf
  <2>2. v \in c.keys => Firm(v)
    BY <1>4 DEF FirmInv
  <2> QED BY <2>1, <2>2 DEF newRows
<1>8. ASSUME ~ghost.shifted, NEW v \in There PROVE Firm(v) \/ v \in newRows(c, page) \/ ~Known(n, v)
  <2>1. Firm(v) \/ ~Known(c, v)
    BY <1>4, <1>8 DEF FirmInv
  <2>2. config.strategy # "snapshot" => Dug(o)
    BY <1>1, <1>3, <1>8 DEF DugInv
  <2> QED BY <1>1, <1>2, <2>1, <2>2, PagePasses
<1>9. config.strategy = "snapshot" => n.ts = 0
  BY <1>2, <1>4, AdvanceOf DEF FirmInv
<1>10. (job.status # "none" => \A v \in job.cursor.keys : Firm(v))'
  BY <1>3, <1>5 DEF FirmInv
<1>11. (job.status # "none" /\ ~ghost.shifted => \A v \in There : Firm(v) \/ ~Known(job.cursor, v))'
  BY <1>3, <1>5, <1>6 DEF FirmInv, Known, InQuery
<1>12. (InPage => \A v \in poll.next.keys : Firm(v) \/ v \in poll.rows)'
  BY <1>3, <1>5, <1>7
<1>13. (InPage /\ ~ghost.shifted => \A v \in There : Firm(v) \/ v \in poll.rows \/ ~Known(poll.next, v))'
  BY <1>3, <1>5, <1>6, <1>8 DEF Known, InQuery
<1>14. HandFirm' /\ poll'.pc # "seed" /\ (config.strategy = "snapshot" => job.cursor.ts = 0 /\ poll.next.ts = 0)'
  BY <1>3, <1>9 DEF HandFirm, FirmInv
<1> QED BY <1>10, <1>11, <1>12, <1>13, <1>14 DEF FirmInv

(* What is settled and ahead stays while the table, the cursors and what is
   settled stay, and no page is begun. *)
LEMMA FirmStays ==
  ASSUME FirmInv, UNCHANGED <<config, table>>, \A v : Firm(v) => Firm(v)', ghost.before \subseteq ghost'.before,
         job'.cursor = job.cursor, job.status # "none" \/ job'.status = "none", ghost'.shifted = ghost.shifted,
         InPage' => InPage /\ poll'.rows = poll.rows /\ poll'.next = poll.next /\ HandFirm',
         poll'.pc = "seed" => poll.pc = "seed" /\ poll'.cursor = poll.cursor,
         config.strategy = "snapshot" => poll'.next.ts = 0
  PROVE  FirmInv'
<1>1. There' = There
  BY DEF There
<1>2. (job.status # "none" => \A v \in job.cursor.keys : Firm(v))'
  BY DEF FirmInv
<1>3. (job.status # "none" /\ ~ghost.shifted => \A v \in There : Firm(v) \/ ~Known(job.cursor, v))'
  BY <1>1 DEF FirmInv, Known, InQuery
<1>4. (InPage => \A v \in poll.next.keys : Firm(v) \/ v \in poll.rows)'
  <2>1. CASE InPage'
    <3>1. InPage /\ poll'.rows = poll.rows /\ poll'.next = poll.next
      BY <2>1
    <3>2. \A v \in poll.next.keys : Firm(v) \/ v \in poll.rows
      BY <3>1 DEF FirmInv
    <3> QED BY <3>1, <3>2
  <2> QED BY <2>1
<1>5. (InPage /\ ~ghost.shifted => \A v \in There : Firm(v) \/ v \in poll.rows \/ ~Known(poll.next, v))'
  <2>1. CASE InPage' /\ ~ghost'.shifted
    <3>1. InPage /\ poll'.rows = poll.rows /\ poll'.next = poll.next /\ ~ghost.shifted
      BY <2>1
    <3>2. \A v \in There : Firm(v) \/ v \in poll.rows \/ ~Known(poll.next, v)
      BY <3>1 DEF FirmInv
    <3> QED BY <1>1, <3>1, <3>2 DEF Known, InQuery
  <2> QED BY <2>1
<1>6. (InPage => HandFirm)'
  OBVIOUS
<1>7. (poll.pc = "seed" => \A v \in There : v \in ghost.before \/ InQuery(poll.cursor, v))'
  BY <1>1 DEF FirmInv, InQuery
<1>8. (config.strategy = "snapshot" => job.cursor.ts = 0 /\ poll.next.ts = 0)'
  BY DEF FirmInv
<1> QED BY <1>2, <1>3, <1>4, <1>5, <1>6, <1>7, <1>8 DEF FirmInv

(* A bridge begins from the beginning, or with what is there noted. *)
LEMMA StartFirm ==
  ASSUME TypeOK, PlaceInv, FirmInv, Start \/ Seed
  PROVE  FirmInv'
<1>0. SourceType /\ There \subseteq Versions /\ Lookback \in Nat /\ config.strategy \in {"increment", "timestamp", "snapshot"}
  BY TypeParts, WindowOK, ConfigOK, WatchAssumption
<1>1. CASE Start
  <2>1. /\ job.status = "none" /\ poll.pc = "idle" /\ UNCHANGED <<config, sourceVars, outVars>> /\ job'.cursor = job.cursor
        /\ \/ job'.status = "running" /\ poll' = poll
           \/ job' = job /\ poll'.pc = "seed" /\ poll'.next = NoCursor /\ ghost'.before = There
    BY <1>1, StartEffect
  <2>2. job.cursor = NoCursor /\ There' = There /\ poll'.pc \in {"idle", "seed"}
    BY <2>1 DEF PlaceInv, There, sourceVars
  <2>3. ASSUME NEW v \in There PROVE ~Known(NoCursor, v)
    <3>1. v[2] > 0 /\ v[2] \in Nat
      BY <1>0, VersionOK
    <3> QED BY <1>0, <3>1, IdleFields DEF Known, InQuery
  <2>4. (\A v \in There : ~Known(job.cursor, v))'
    BY <2>1, <2>2, <2>3 DEF Known, InQuery
  <2>5. job'.cursor.keys = {} /\ job'.cursor.ts = 0 /\ ~InPage'
    BY <2>1, <2>2, IdleFields DEF InPage
  <2>6. config.strategy = "snapshot" => poll'.next.ts = 0
    BY <2>1, IdleFields DEF FirmInv
  <2>7. poll'.pc = "seed" => \A v \in There' : v \in ghost'.before
    BY <2>1, <2>2
  <2>8. config' = config
    BY <2>1
  <2> QED BY <2>4, <2>5, <2>6, <2>7, <2>8 DEF FirmInv
<1>2. CASE Seed
  <2>1. /\ poll.pc = "seed" /\ poll' = Idle /\ UNCHANGED <<config, sourceVars, outVars>>
        /\ job'.cursor.ts = (IF config.strategy = "snapshot" THEN 0 ELSE poll.cursor.ts)
        /\ config.strategy = "snapshot" => job'.cursor.keys = There
        /\ ghost'.before = ghost.before \union job'.cursor.keys
    BY <1>2, SeedEffect
  <2>2. There' = There /\ poll'.pc = "idle" /\ poll'.next.ts = 0 /\ ~InPage' /\ config' = config
    BY <2>1, IdleFields DEF There, sourceVars, InPage
  <2>3. \A v \in job'.cursor.keys : Firm(v)'
    BY <2>1 DEF Firm
  <2>4. ASSUME NEW v \in There PROVE Firm(v)' \/ ~Known(job.cursor, v)'
    <3>1. CASE v \in ghost.before \/ v \in job'.cursor.keys
      BY <2>1, <3>1 DEF Firm
    <3>2. CASE v \notin ghost.before /\ v \notin job'.cursor.keys
      <4>1. InQuery(poll.cursor, v) /\ config.strategy # "snapshot"
        BY <2>1, <3>2 DEF FirmInv
      <4>2. job'.cursor.ts = poll.cursor.ts
        BY <2>1, <4>1
      <4> QED BY <2>2, <3>2, <4>1, <4>2 DEF Known, InQuery
    <3> QED BY <3>1, <3>2
  <2>5. config.strategy = "snapshot" => job'.cursor.ts = 0
    BY <2>1
  <2> QED BY <2>2, <2>3, <2>4, <2>5 DEF FirmInv
<1> QED BY <1>1, <1>2

(* Every step passes only what is settled. *)
LEMMA NextFirm ==
  ASSUME TypeOK, PlaceInv, TimeInv, InTime, DugInv, FirmInv, [Next]_vars
  PROVE  FirmInv'
<1>0. job.offset \in Nat /\ poll.seq \in Nat /\ (config.strategy = "snapshot" => poll.next.ts = 0 /\ NoCursor.ts = 0)
      /\ \A p \in parked : p.seq \in Nat
  BY TypeParts, PollFields, IdleFields DEF JobType, FirmInv, OutType
<1>1. CASE UNCHANGED vars
  <2>1. /\ UNCHANGED <<config, table, job, poll, ghost, landed, parked>> /\ \A v : Firm(v) => Firm(v)'
    BY <1>1, FirmSame DEF vars
  <2>2. InPage' => InPage /\ HandFirm'
    BY <2>1 DEF InPage, HandFirm, FirmInv, First, Precedes
  <2> QED BY <1>0, <2>1, <2>2, FirmStays
<1>2. CASE Tick \/ \E k \in Keys : Begin(k) \/ Commit(k) \/ Delete(k)
  BY <1>2, SourceFirm
<1>3. CASE Start \/ Seed
  BY <1>3, StartFirm
<1>4. CASE Restart \/ Stop
  <2>1. /\ UNCHANGED <<config, table, ghost, landed, parked>> /\ job.status # "none"
        /\ job'.cursor = job.cursor /\ job'.offset = job.offset
        /\ poll'.pc = poll.pc /\ poll'.rows = poll.rows /\ poll'.next = poll.next /\ poll'.cursor = poll.cursor
        /\ poll'.ok = poll.ok /\ poll'.seq = poll.seq
    BY <1>4, PauseEffect DEF sourceVars, outVars
  <2>2. \A v : Firm(v) => Firm(v)'
    BY <2>1, FirmSame
  <2>3. InPage' => InPage /\ HandFirm'
    BY <2>1 DEF InPage, HandFirm, FirmInv, First, Precedes
  <2> QED BY <1>0, <2>1, <2>2, <2>3, FirmStays
<1>5. CASE PollBegin
  <2>1. /\ UNCHANGED <<config, table, job, ghost, landed, parked>> /\ poll'.pc = "fetch" /\ poll'.next = NoCursor
    BY <1>5, BeginEffect DEF sourceVars, outVars
  <2>2. \A v : Firm(v) => Firm(v)'
    BY <2>1, FirmSame
  <2>3. ~InPage'
    BY <2>1 DEF InPage
  <2> QED BY <1>0, <2>1, <2>2, <2>3, FirmStays
<1>6. CASE Fetch
  BY <1>6, FetchFirm
<1>7. ASSUME NEW ok \in BOOLEAN, Deliver(ok) PROVE FirmInv'
  <2>1. PICK w : w = First(poll.rows)
    OBVIOUS
  <2>2. /\ poll.pc = "row" /\ poll'.pc = "record" /\ poll'.ok = ok /\ poll'.next = poll.next /\ poll'.rows = poll.rows
        /\ landed' = (IF ok THEN landed \union {w} ELSE landed)
        /\ ghost'.before = ghost.before /\ ghost'.shifted = ghost.shifted
        /\ UNCHANGED <<config, sourceVars, job, parked>>
    BY <1>7, <2>1, DeliverEffect
  <2>3. \A v : Firm(v) => Firm(v)'
    BY <2>2, FirmOn
  <2>4. First(poll.rows)' = w
    BY <2>1, <2>2 DEF First, Precedes
  <2>5. HandFirm' /\ InPage
    BY <2>2, <2>4 DEF HandFirm, InPage
  <2> QED BY <1>0, <2>2, <2>3, <2>5, FirmStays DEF sourceVars
<1>8. CASE Record
  <2>1. /\ poll.pc = "record" /\ poll'.pc = (IF poll.ok THEN "seq" ELSE "failed") /\ poll'.ok = poll.ok
        /\ poll'.next = poll.next /\ poll'.rows = poll.rows
        /\ UNCHANGED <<config, sourceVars, job, parked, landed, ghost>>
    BY <1>8, RecordEffect
  <2>2. \A v : Firm(v) => Firm(v)'
    BY <2>1, FirmSame
  <2>3. First(poll.rows)' = First(poll.rows)
    BY <2>1 DEF First, Precedes
  <2>4. HandFirm' /\ InPage
    BY <2>1, <2>3 DEF HandFirm, InPage, FirmInv
  <2> QED BY <1>0, <2>1, <2>2, <2>4, FirmStays DEF sourceVars
<1>9. CASE Park
  <2>1. PICK w : w = First(poll.rows)
    OBVIOUS
  <2>2. /\ poll.pc = "failed" /\ poll'.pc = "seq" /\ poll'.ok = poll.ok /\ poll'.next = poll.next
        /\ poll'.rows = poll.rows /\ poll'.seq = poll.seq
        /\ parked' = {p \in parked : p.seq < poll.seq} \union {[seq |-> poll.seq, row |-> w]}
        /\ UNCHANGED <<config, sourceVars, job, landed, ghost>>
    BY <1>9, <2>1, ParkEffect
  <2>3. poll.seq = job.offset /\ ~poll.ok /\ InPage
    BY <2>2 DEF PlaceInv, AtWork, InPage
  <2>4. \A v : Firm(v) => Firm(v)'
    BY <2>2, <2>3, FirmOn
  <2>5. First(poll.rows)' = w
    BY <2>1, <2>2 DEF First, Precedes
  <2>6. [seq |-> poll.seq, row |-> w] \in parked' /\ [seq |-> poll.seq, row |-> w].row = w
        /\ [seq |-> poll.seq, row |-> w].seq = poll'.seq
    BY <2>2
  <2>7. HandFirm'
    BY <2>2, <2>3, <2>5, <2>6 DEF HandFirm
  <2> QED BY <1>0, <2>2, <2>3, <2>4, <2>7, FirmStays DEF sourceVars
<1>10. CASE SaveSeq
  <2>1. PICK w : w = First(poll.rows)
    OBVIOUS
  <2>2. /\ poll.pc = "seq" /\ poll'.pc = "row" /\ poll'.next = poll.next /\ poll'.rows = poll.rows \ {w}
        /\ job'.cursor = job.cursor /\ job'.status = job.status /\ job'.offset = poll.seq + 1
        /\ UNCHANGED <<config, sourceVars, landed, parked, ghost>>
    BY <1>10, <2>1, SaveSeqEffect DEF outVars
  <2>3. poll.seq = job.offset /\ InPage /\ There' = There /\ InPage' /\ poll.ok \in BOOLEAN
    BY <2>2, TypeParts, PollFields DEF PlaceInv, AtWork, InPage, There, sourceVars
  <2>4. \A v : Firm(v) => Firm(v)'
    BY <1>0, <2>2, <2>3, FirmOn
  <2>5. Firm(w)'
    <3>1. HandFirm
      BY <2>3 DEF FirmInv
    <3>2. CASE w \in landed
      BY <2>2, <3>2 DEF Firm
    <3>3. ASSUME NEW p \in parked, p.row = w, p.seq = poll.seq PROVE Firm(w)'
      BY <1>0, <2>2, <3>3 DEF Firm
    <3> QED BY <2>1, <2>2, <3>1, <3>2, <3>3 DEF HandFirm
  <2>6. (InPage => \A v \in poll.next.keys : Firm(v) \/ v \in poll.rows)'
    BY <2>2, <2>3, <2>4, <2>5 DEF FirmInv
  <2>7. (InPage /\ ~ghost.shifted => \A v \in There : Firm(v) \/ v \in poll.rows \/ ~Known(poll.next, v))'
    <3>1. ASSUME ~ghost.shifted, NEW v \in There PROVE Firm(v)' \/ v \in poll'.rows \/ ~Known(poll.next, v)
      <4>1. Firm(v) \/ v \in poll.rows \/ ~Known(poll.next, v)
        BY <2>3, <3>1 DEF FirmInv
      <4> QED BY <2>2, <2>4, <2>5, <4>1
    <3> QED BY <2>2, <2>3, <3>1 DEF Known, InQuery
  <2>8. (job.status # "none" => \A v \in job.cursor.keys : Firm(v))'
    BY <2>2, <2>4 DEF FirmInv
  <2>9. (job.status # "none" /\ ~ghost.shifted => \A v \in There : Firm(v) \/ ~Known(job.cursor, v))'
    BY <2>2, <2>3, <2>4 DEF FirmInv, Known, InQuery
  <2>10. HandFirm' /\ poll'.pc # "seed" /\ (config.strategy = "snapshot" => job.cursor.ts = 0 /\ poll.next.ts = 0)'
    BY <2>2 DEF HandFirm, FirmInv
  <2> QED BY <2>6, <2>7, <2>8, <2>9, <2>10 DEF FirmInv
<1>11. CASE SavePage
  <2>1. /\ poll.pc = "row" /\ poll.rows = {} /\ job'.cursor = poll.next /\ job'.status = job.status
        /\ job'.offset = poll.seq /\ ghost'.before = ghost.before /\ ghost'.shifted = ghost.shifted
        /\ UNCHANGED <<config, sourceVars, landed, parked>>
        /\ poll'.pc \in {"idle", "fetch"} /\ poll'.next \in {NoCursor, poll.next}
    BY <1>11, SavePageEffect, IdleFields DEF outVars
  <2>2. poll.seq = job.offset /\ InPage /\ There' = There /\ ~InPage'
    BY <2>1 DEF PlaceInv, AtWork, InPage, There, sourceVars
  <2>3. \A v : Firm(v)' <=> Firm(v)
    BY <2>1, <2>2, FirmSame
  <2>4. \A v \in poll.next.keys : Firm(v)
    BY <2>1, <2>2 DEF FirmInv
  <2>5. ~ghost.shifted => \A v \in There : Firm(v) \/ ~Known(poll.next, v)
    BY <2>1, <2>2 DEF FirmInv
  <2>6. (job.status # "none" => \A v \in job.cursor.keys : Firm(v))'
    BY <2>1, <2>3, <2>4
  <2>7. (job.status # "none" /\ ~ghost.shifted => \A v \in There : Firm(v) \/ ~Known(job.cursor, v))'
    BY <2>1, <2>2, <2>3, <2>5 DEF Known, InQuery
  <2>8. (config.strategy = "snapshot" => job.cursor.ts = 0 /\ poll.next.ts = 0)'
    BY <1>0, <2>1
  <2> QED BY <2>1, <2>2, <2>6, <2>7, <2>8 DEF FirmInv
<1>12. CASE PollEnd \/ Pause \/ Drift \/ Crash
  <2>1. /\ poll' = Idle /\ UNCHANGED <<config, table, landed, parked>>
        /\ job'.cursor = job.cursor /\ job'.offset = job.offset /\ (job'.status = "none" <=> job.status = "none")
        /\ ghost'.before = ghost.before /\ ghost'.shifted = ghost.shifted
    BY <1>12, EndEffect DEF sourceVars, outVars
  <2>2. \A v : Firm(v) => Firm(v)'
    BY <2>1, FirmSame
  <2>3. ~InPage' /\ poll'.pc # "seed" /\ poll'.next = NoCursor
    BY <2>1, IdleFields DEF InPage
  <2> QED BY <1>0, <2>1, <2>2, <2>3, FirmStays
<1> QED BY <1>1, <1>2, <1>3, <1>4, <1>5, <1>6, <1>7, <1>8, <1>9, <1>10, <1>11, <1>12, NextCases

(* A row that is there has been delivered or set aside, or the saved cursor
   still asks for it: if numbers become visible in their order and no
   transaction takes longer than the lookback, and as long as no row leaves its
   place while a poll pages by offset through a window of known rows. *)
THEOREM WatchSkipsNothing ==
  ASSUME InTime
  PROVE  Spec => []SkipsNothing
<1> DEFINE Inv == TypeOK /\ PlaceInv /\ TimeInv /\ DugInv /\ FirmInv
<1>1. Init => Inv
  <2> SUFFICES ASSUME Init PROVE Inv
    OBVIOUS
  <2>1. TypeOK /\ PlaceInv
    BY InitTypes, InitInvs
  <2>2. /\ clock = 1 /\ open = [k \in Keys |-> 0] /\ table = [k \in Keys |-> 0] /\ poll = Idle
        /\ job.status = "none" /\ job.cursor = NoCursor
    BY DEF Init
  <2>3. \A k \in Keys : open[k] = 0 /\ table[k] = 0
    BY <2>2
  <2>4. job.cursor.ts = 0 /\ poll.cursor.ts = 0 /\ poll.next.ts = 0 /\ poll.pc = "idle"
    BY <2>2, IdleFields
  <2>5. TimeInv
    BY <2>2, <2>3, <2>4 DEF TimeInv, Reach
  <2>6. DugInv /\ FirmInv
    BY <2>2, <2>4 DEF DugInv, FirmInv, Fruitless, InPage
  <2> QED BY <2>1, <2>5, <2>6
<1>2. Inv /\ [Next]_vars => Inv'
  BY NextTypes, NextPlace, NextTime, NextDug, NextFirm
<1>3. Inv => SkipsNothing
  <2> SUFFICES ASSUME Inv, ~ghost.shifted, job.status # "none", NEW v \in There
               PROVE  Settled(v) \/ StillAhead(v)
    BY DEF SkipsNothing, NothingSkipped
  <2>1. Firm(v) \/ ~Known(job.cursor, v)
    BY DEF FirmInv
  <2>2. Firm(v) => Settled(v)
    BY DEF Firm, Settled
  <2>3. ~Known(job.cursor, v) => StillAhead(v)
    BY DEF Known, StillAhead
  <2> QED BY <2>1, <2>2, <2>3
<1> HIDE DEF Inv
<1> QED BY <1>1, <1>2, <1>3, PTL DEF Spec
=============================================================================
