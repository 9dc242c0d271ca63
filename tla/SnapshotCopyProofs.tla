------------------------- MODULE SnapshotCopyProofs -------------------------
(***************************************************************************)
(* Proofs about SnapshotCopy, for every table, every page size, every       *)
(* history of changes and every number of crashes and failed reads: the     *)
(* types, that the checkpoint never runs ahead of the destination, and that *)
(* a bridge that has caught up has the destination equal to the source.     *)
(*                                                                          *)
(* For the engines with a log the argument goes from cursor to cursor: what *)
(* is in the pipeline forms a chain from the checkpoint to the place of the *)
(* stream, and each link of it says what lies between two cursors.  For an  *)
(* engine without one it goes from key to key: whatever a key has become is *)
(* held, in the pipeline, written, yet to be copied or yet to be heard.     *)
(***************************************************************************)
EXTENDS SnapshotCopy, TLAPS

-----------------------------------------------------------------------------
(* sequences *)

(* A queue that gets one more item keeps the others in their places. *)
LEMMA AppendFacts ==
  ASSUME NEW T, NEW s \in Seq(T), NEW x \in T
  PROVE  /\ Append(s, x) \in Seq(T) /\ Len(s) \in Nat
         /\ Len(Append(s, x)) = Len(s) + 1 /\ Append(s, x) # <<>>
         /\ DOMAIN s = 1 .. Len(s) /\ DOMAIN Append(s, x) = 1 .. Len(s) + 1
         /\ \A i \in DOMAIN s : i \in DOMAIN Append(s, x) /\ Append(s, x)[i] = s[i]
         /\ Append(s, x)[Len(s) + 1] = x
         /\ \A i \in DOMAIN Append(s, x) : i \in DOMAIN s \/ i = Len(s) + 1
OBVIOUS

(* A queue whose head is taken moves the others up by one. *)
LEMMA TailFacts ==
  ASSUME NEW T, NEW s \in Seq(T), s # <<>>
  PROVE  /\ Tail(s) \in Seq(T) /\ Len(s) \in Nat /\ Len(s) >= 1
         /\ Len(Tail(s)) = Len(s) - 1
         /\ Head(s) = s[1] /\ 1 \in DOMAIN s /\ Head(s) \in T
         /\ DOMAIN s = 1 .. Len(s) /\ DOMAIN Tail(s) = 1 .. Len(s) - 1
         /\ \A i \in DOMAIN Tail(s) : i \in Nat /\ i + 1 \in DOMAIN s /\ Tail(s)[i] = s[i + 1]
<1>1. Len(s) \in Nat /\ Len(s) >= 1 /\ DOMAIN s = 1 .. Len(s)
  OBVIOUS
<1>2. Tail(s) \in Seq(T) /\ Len(Tail(s)) = Len(s) - 1 /\ Head(s) = s[1] /\ Head(s) \in T
  OBVIOUS
<1>3. DOMAIN Tail(s) = 1 .. Len(s) - 1
  BY <1>1, <1>2
<1>4. \A i \in 1 .. Len(s) - 1 : i + 1 \in DOMAIN s /\ Tail(s)[i] = s[i + 1]
  BY <1>1
<1> QED BY <1>1, <1>2, <1>3, <1>4

-----------------------------------------------------------------------------
(* types, in parts that steps leave alone together *)

(* a change *)
ChangeType == [key : Keys, del : BOOLEAN]
(* a row of a page *)
RowType == [key : Keys, ver : 1 .. MaxLog + 1]

(* the source *)
SourceType ==
  /\ engine \in {"slot", "log", "none"}
  /\ src \in [Keys -> 0 .. MaxLog + 1] /\ log \in Seq(ChangeType) /\ Len(log) <= MaxLog
  /\ extra \subseteq Keys
(* the destination and the checkpoint *)
TargetType == dest \in [Keys -> 0 .. MaxLog + 1] /\ saved \in Cursors
(* the stream *)
StreamType ==
  /\ phase \in {"off", "copy", "open", "hand", "follow", "fatal"}
  /\ page \subseteq RowType /\ ended \in BOOLEAN
  /\ next \in Nat /\ after \in {0} \union Keys
  /\ from \in 0 .. Len(log) /\ pos \in 0 .. Len(log)
  /\ held \subseteq Items
(* the pipeline *)
PipeType == pipe \in Seq(Items) /\ wrote \in BOOLEAN
(* what has gone wrong *)
FaultType == crashes \in 0 .. Crashes /\ errors \in 0 .. ReadErrors + 1

(* all of them *)
Types == SourceType /\ TargetType /\ StreamType /\ PipeType /\ FaultType

(* The parts are the type invariant. *)
LEMMA TypesMeanTypeOK == Types => TypeOK
<1> SUFFICES ASSUME Types PROVE TypeOK
  OBVIOUS
<1>1. {from, pos} \subseteq 0 .. Len(log)
  BY DEF Types, StreamType
<1> QED BY <1>1 DEF Types, TypeOK, SourceType, TargetType, StreamType, PipeType, FaultType, ChangeType, RowType

(* The constants are numbers. *)
LEMMA ConstFacts ==
  /\ KeyCount \in Nat /\ PageSize \in Nat /\ HoldMax \in Nat /\ MaxLog \in Nat
  /\ Crashes \in Nat /\ ReadErrors \in Nat
  /\ 0 \notin Keys /\ Keys \subseteq Nat
<1>1. /\ KeyCount \in Nat /\ PageSize \in Nat /\ HoldMax \in Nat /\ MaxLog \in Nat
      /\ Crashes \in Nat /\ ReadErrors \in Nat
  BY CopyAssumption
<1> QED BY <1>1 DEF Keys

(* The cursors a stream hands out are cursors, and tell what they are. *)
LEMMA CursorTypes ==
  ASSUME NEW i \in Nat, NEW f \in Nat
  PROVE  /\ NoCursor \in Cursors /\ DoneCursor(i, f) \in Cursors /\ LogCursor(i) \in Cursors
         /\ \A k \in Keys : RowCursor(i, k, f) \in Cursors
         /\ NoCursor.kind = "none" /\ NoCursor.key = 0 /\ NoCursor.from = 0
         /\ \A k : /\ RowCursor(i, k, f).kind = "row" /\ RowCursor(i, k, f).at = i
                   /\ RowCursor(i, k, f).key = k /\ RowCursor(i, k, f).from = f
         /\ DoneCursor(i, f).kind = "done" /\ DoneCursor(i, f).at = i /\ DoneCursor(i, f).from = f
         /\ LogCursor(i).kind = "log" /\ LogCursor(i).at = i /\ LogCursor(i).from = 0
BY DEF Cursors, NoCursor, RowCursor, DoneCursor, LogCursor

(* What is made into an item has these fields. *)
LEMMA ItemFields ==
  ASSUME NEW k, NEW v, NEW c
  PROVE  Item(k, v, c).key = k /\ Item(k, v, c).ver = v /\ Item(k, v, c).cursor = c
BY DEF Item

(* An item of a key or a notice, a version and a cursor. *)
LEMMA ItemType ==
  ASSUME NEW k \in {0} \union Keys, NEW v \in 0 .. MaxLog + 1, NEW c \in Cursors
  PROVE  Item(k, v, c) \in Items
BY DEF Item, Items

(* What is heard of a change is an item. *)
LEMMA HeardType ==
  ASSUME SourceType, NEW n \in 1 .. Len(log)
  PROVE  /\ Heard(n) \in Items
         /\ Heard(n).key = log[n].key /\ log[n] \in ChangeType /\ Heard(n).key \in Keys
         /\ Heard(n).cursor = LogCursor(n)
<1>1. log[n] \in ChangeType /\ Len(log) \in Nat /\ n \in Nat /\ n <= MaxLog
  BY ConstFacts DEF SourceType
<1>2. log[n].key \in Keys
  BY <1>1 DEF ChangeType
<1>3. PICK v : v = IF log[n].del THEN 0
                   ELSE IF ~hasLog /\ src[log[n].key] # 0 THEN src[log[n].key] ELSE n + 1
  OBVIOUS
<1>4. v \in 0 .. MaxLog + 1
  <2>1. n + 1 \in 0 .. MaxLog + 1 /\ 0 \in 0 .. MaxLog + 1
    BY <1>1, ConstFacts
  <2>2. src[log[n].key] \in 0 .. MaxLog + 1
    BY <1>2 DEF SourceType
  <2> QED BY <1>3, <2>1, <2>2
<1>5. Heard(n) = Item(log[n].key, v, LogCursor(n))
  BY <1>3 DEF Heard
<1>6. LogCursor(n) \in Cursors
  BY <1>1, CursorTypes
<1>7. Heard(n) \in Items
  BY <1>2, <1>4, <1>5, <1>6, ItemType, Zenon
<1>8. Heard(n).key = log[n].key /\ Heard(n).cursor = LogCursor(n)
  BY <1>5 DEF Item
<1> QED BY <1>1, <1>2, <1>7, <1>8

(* What is accepted goes to the end of the queue. *)
LEMMA AcceptedType ==
  ASSUME PipeType, NEW x \in Items
  PROVE  Accepted(x) \in Seq(Items) /\ (Accepted(x) = pipe \/ Accepted(x) = Append(pipe, x))
BY AppendFacts DEF PipeType, Accepted

(* At first every variable has its type. *)
LEMMA TypeInit == Init => Types
<1> SUFFICES ASSUME Init PROVE Types
  OBVIOUS
<1>1. NoCursor \in Cursors
  BY CursorTypes
<1>2. <<>> \in Seq(ChangeType) /\ Len(<<>>) = 0 /\ <<>> \in Seq(Items)
  OBVIOUS
<1>3. {0, 1} \subseteq 0 .. MaxLog + 1
  BY ConstFacts
<1>4. SourceType
  BY <1>2, <1>3, ConstFacts DEF Init, SourceType
<1>5. TargetType
  BY <1>1, <1>3 DEF Init, TargetType
<1>6. StreamType /\ PipeType
  <2>1. 0 \in 0 .. Len(<<>>)
    BY <1>2
  <2>2. log = <<>> /\ from = 0 /\ pos = 0
    BY DEF Init
  <2>3. from \in 0 .. Len(log) /\ pos \in 0 .. Len(log)
    BY <2>1, <2>2, Zenon
  <2> QED BY <1>2, <2>3 DEF Init, StreamType, PipeType
<1>7. FaultType
  BY ConstFacts DEF Init, FaultType
<1> QED BY <1>4, <1>5, <1>6, <1>7 DEF Types

(* the place in the log that a stream started from a cursor begins at *)
Base(c) == IF c.kind = "log" THEN c.at ELSE c.from

(* No cursor is ahead of the log, and what was written is in the queue. *)
PlaceInv ==
  /\ Base(saved) <= Len(log)
  /\ \A i \in DOMAIN pipe : Base(pipe[i].cursor) <= Len(log)
  /\ \A h \in held : Base(h.cursor) <= Len(log)
  /\ wrote => pipe # <<>>

(* Every step keeps the types. *)
LEMMA TypeNext == Types /\ PlaceInv /\ [Next]_vars => Types'
<1> SUFFICES ASSUME Types, PlaceInv, [Next]_vars PROVE Types'
  OBVIOUS
<1>0. /\ engine \in {"slot", "log", "none"} /\ src \in [Keys -> 0 .. MaxLog + 1]
      /\ log \in Seq(ChangeType) /\ Len(log) \in Nat /\ Len(log) <= MaxLog /\ extra \subseteq Keys
      /\ dest \in [Keys -> 0 .. MaxLog + 1] /\ saved \in Cursors
      /\ page \subseteq RowType /\ next \in Nat /\ after \in {0} \union Keys
      /\ from \in 0 .. Len(log) /\ pos \in 0 .. Len(log) /\ held \subseteq Items
      /\ pipe \in Seq(Items) /\ wrote \in BOOLEAN /\ crashes \in 0 .. Crashes /\ errors \in 0 .. ReadErrors + 1
      /\ phase \in {"off", "copy", "open", "hand", "follow", "fatal"} /\ ended \in BOOLEAN
  BY DEF Types, SourceType, TargetType, StreamType, PipeType, FaultType
<1>s. saved.kind \in {"none", "row", "done", "log"} /\ saved.at \in Nat /\ saved.from \in Nat
      /\ saved.key \in {0} \union Keys
  BY <1>0 DEF Cursors
<1>a. ASSUME engine' = engine, src' = src, log' = log, extra' = extra PROVE SourceType'
  BY <1>0, <1>a DEF SourceType
<1>b. ASSUME dest' = dest, saved' = saved PROVE TargetType'
  BY <1>0, <1>b DEF TargetType
<1>c. ASSUME pipe' = pipe, wrote' = wrote PROVE PipeType'
  BY <1>0, <1>c DEF PipeType
<1>d. ASSUME crashes' = crashes, errors' = errors PROVE FaultType'
  BY <1>0, <1>d DEF FaultType
<1>e. ASSUME log' = log, phase' \in {"off", "copy", "open", "hand", "follow", "fatal"},
             page' = page, ended' = ended, next' = next, after' = after, from' = from, pos' = pos, held' = held
      PROVE  StreamType'
  BY <1>0, <1>e DEF StreamType
<1>f. ASSUME NEW x \in Items, pipe' = Accepted(x), wrote' = wrote PROVE PipeType'
  <2>1. Accepted(x) \in Seq(Items)
    BY <1>f, AcceptedType DEF Types
  <2> QED BY <1>0, <1>f, <2>1 DEF PipeType
<1>g. ASSUME pipe' = <<>>, wrote' = FALSE PROVE PipeType'
  <2>1. <<>> \in Seq(Items) /\ FALSE \in BOOLEAN
    OBVIOUS
  <2> QED BY <1>g, <2>1 DEF PipeType
<1>1. ASSUME NEW k \in Keys, NEW del \in BOOLEAN, Change(k, del) PROVE Types'
  <2>1. /\ Len(log) < MaxLog /\ log' = Append(log, [key |-> k, del |-> del])
        /\ src' = [src EXCEPT ![k] = IF del THEN 0 ELSE Len(log) + 2]
        /\ extra' = extra \ {k} /\ engine' = engine
    BY <1>1 DEF Change
  <2>2. [key |-> k, del |-> del] \in ChangeType
    BY DEF ChangeType
  <2>3. log' \in Seq(ChangeType) /\ Len(log') = Len(log) + 1
    BY <1>0, <2>1, <2>2, AppendFacts
  <2>4. (IF del THEN 0 ELSE Len(log) + 2) \in 0 .. MaxLog + 1
    BY <1>0, <2>1, ConstFacts
  <2>5. src' \in [Keys -> 0 .. MaxLog + 1]
    BY <1>0, <2>1, <2>4
  <2>6. SourceType'
    BY <1>0, <2>1, <2>3, <2>5, ConstFacts DEF SourceType
  <2>7. /\ dest' = dest /\ saved' = saved /\ pipe' = pipe /\ wrote' = wrote /\ crashes' = crashes
        /\ errors' = errors /\ phase' = phase /\ page' = page /\ ended' = ended /\ next' = next
        /\ after' = after /\ from' = from /\ pos' = pos /\ held' = held
    BY <1>1 DEF Change, copyVars
  <2>8. from \in 0 .. Len(log') /\ pos \in 0 .. Len(log')
    BY <1>0, <2>3
  <2>9. StreamType'
    BY <1>0, <2>7, <2>8 DEF StreamType
  <2> QED BY <1>b, <1>c, <1>d, <2>6, <2>7, <2>9 DEF Types
<1>2. CASE Write
  <2>1. /\ pipe # <<>> /\ wrote' = TRUE
        /\ dest' = IF Head(pipe).key = Notice THEN dest ELSE [dest EXCEPT ![Head(pipe).key] = Head(pipe).ver]
    BY <1>2 DEF Write
  <2>2. /\ engine' = engine /\ src' = src /\ log' = log /\ extra' = extra /\ saved' = saved /\ pipe' = pipe
        /\ crashes' = crashes /\ errors' = errors /\ phase' = phase /\ page' = page /\ ended' = ended
        /\ next' = next /\ after' = after /\ from' = from /\ pos' = pos /\ held' = held
    BY <1>2 DEF Write, sourceVars, copyVars
  <2>3. Head(pipe) \in Items
    BY <1>0, <2>1, TailFacts
  <2>4. Head(pipe).ver \in 0 .. MaxLog + 1
    BY <2>3 DEF Items
  <2>5. dest' \in [Keys -> 0 .. MaxLog + 1]
    BY <1>0, <2>1, <2>4
  <2>6. TargetType' /\ PipeType'
    BY <1>0, <2>1, <2>2, <2>5 DEF TargetType, PipeType
  <2> QED BY <1>0, <1>a, <1>d, <1>e, <2>2, <2>6 DEF Types
<1>3. CASE Checkpoint
  <2>1. wrote /\ saved' = Head(pipe).cursor /\ pipe' = Tail(pipe) /\ wrote' = FALSE
    BY <1>3 DEF Checkpoint
  <2>2. /\ engine' = engine /\ src' = src /\ log' = log /\ extra' = extra /\ dest' = dest
        /\ crashes' = crashes /\ errors' = errors /\ phase' = phase /\ page' = page /\ ended' = ended
        /\ next' = next /\ after' = after /\ from' = from /\ pos' = pos /\ held' = held
    BY <1>3 DEF Checkpoint, sourceVars, copyVars
  <2>3. pipe # <<>>
    BY <2>1 DEF PlaceInv
  <2>4. Head(pipe) \in Items /\ Tail(pipe) \in Seq(Items)
    BY <1>0, <2>3, TailFacts
  <2>5. Head(pipe).cursor \in Cursors
    BY <2>4 DEF Items
  <2>6. TargetType' /\ PipeType'
    BY <1>0, <2>1, <2>2, <2>4, <2>5 DEF TargetType, PipeType
  <2> QED BY <1>0, <1>a, <1>d, <1>e, <2>2, <2>6 DEF Types
<1>4. CASE StartCopy
  <2>1. /\ engine' = engine /\ src' = src /\ log' = log /\ dest' = dest /\ saved' = saved
        /\ pipe' = pipe /\ wrote' = wrote /\ crashes' = crashes /\ errors' = errors /\ held' = held
        /\ phase' = "copy" /\ page' = {} /\ ended' = FALSE
    BY <1>4 DEF StartCopy, Fresh, sourceVars
  <2>2. extra' \subseteq Keys
    BY <1>0, <1>4 DEF StartCopy
  <2>3. next' \in Nat /\ after' \in {0} \union Keys /\ from' \in 0 .. Len(log)
    <3>1. CASE saved.kind = "row"
      <4>1. saved.from \in 0 .. Len(log)
        BY <1>0, <1>s, <3>1 DEF PlaceInv, Base
      <4> QED BY <1>s, <1>4, <3>1, <4>1 DEF StartCopy, Fresh
    <3>2. CASE saved.kind # "row"
      BY <1>0, <1>4, <3>2 DEF StartCopy, Fresh, Captured
    <3> QED BY <3>1, <3>2
  <2>4. pos' \in 0 .. Len(log)
    BY <1>0, <1>4 DEF StartCopy
  <2>5. SourceType' /\ StreamType'
    BY <1>0, <2>1, <2>2, <2>3, <2>4 DEF SourceType, StreamType
  <2> QED BY <1>b, <1>c, <1>d, <2>1, <2>5 DEF Types
<1>5. CASE StartFollow
  <2>1. /\ engine' = engine /\ src' = src /\ log' = log /\ dest' = dest /\ saved' = saved /\ extra' = extra
        /\ pipe' = pipe /\ wrote' = wrote /\ crashes' = crashes /\ errors' = errors /\ held' = held
        /\ phase' = "follow" /\ page' = page /\ ended' = ended /\ next' = next /\ after' = after
        /\ from' = from /\ pos' = Place(IF saved.kind = "done" THEN saved.from ELSE saved.at)
    BY <1>5 DEF StartFollow, sourceVars, copyVars
  <2>2. saved.kind \in {"done", "log"}
    BY <1>5 DEF StartFollow
  <2>3. (IF saved.kind = "done" THEN saved.from ELSE saved.at) \in 0 .. Len(log)
    BY <1>0, <1>s, <2>2 DEF PlaceInv, Base
  <2>4. pos' \in 0 .. Len(log)
    BY <1>0, <2>1, <2>3 DEF Place
  <2>5. StreamType'
    BY <1>0, <2>1, <2>4 DEF StreamType
  <2> QED BY <1>a, <1>b, <1>c, <1>d, <2>1, <2>5 DEF Types
<1>6. CASE ReadPage
  <2>1. PICK S \in SUBSET RowsAfter(after) :
           page' = {[key |-> i, ver |-> src[i]] : i \in S} /\ ended' = (S = RowsAfter(after))
    BY <1>6 DEF ReadPage
  <2>2. /\ engine' = engine /\ src' = src /\ log' = log /\ dest' = dest /\ saved' = saved /\ extra' = extra
        /\ pipe' = pipe /\ wrote' = wrote /\ crashes' = crashes /\ errors' = errors /\ held' = held
        /\ phase' = phase /\ next' = next /\ after' = after /\ from' = from /\ pos' = pos
    BY <1>6 DEF ReadPage, sourceVars
  <2>3. \A i \in S : i \in Keys /\ src[i] \in 1 .. MaxLog + 1
    <3>1. \A i \in S : i \in Keys /\ src[i] # 0
      BY <2>1 DEF RowsAfter
    <3> QED BY <1>0, <3>1, ConstFacts, SMTT(60)
  <2>4. page' \subseteq RowType
    BY <2>1, <2>3 DEF RowType
  <2>5. StreamType'
    BY <1>0, <2>1, <2>2, <2>4 DEF StreamType
  <2> QED BY <1>a, <1>b, <1>c, <1>d, <2>2, <2>5 DEF Types
<1>7. CASE HandRow
  <2>1. PICK r \in page :
           /\ pipe' = Accepted(Item(r.key, r.ver, RowCursor(next, r.key, from)))
           /\ after' = r.key /\ page' = page \ {r}
    BY <1>7 DEF HandRow
  <2>2. /\ engine' = engine /\ src' = src /\ log' = log /\ dest' = dest /\ saved' = saved /\ extra' = extra
        /\ wrote' = wrote /\ crashes' = crashes /\ errors' = errors /\ held' = held
        /\ phase' = phase /\ next' = next + 1 /\ ended' = ended /\ from' = from /\ pos' = pos
    BY <1>7 DEF HandRow, sourceVars
  <2>3. r.key \in Keys /\ r.ver \in 0 .. MaxLog + 1
    BY <1>0, ConstFacts DEF RowType
  <2>4. RowCursor(next, r.key, from) \in Cursors
    BY <1>0, <2>3, CursorTypes
  <2>5. Item(r.key, r.ver, RowCursor(next, r.key, from)) \in Items
    BY <2>3, <2>4, ItemType
  <2>6. StreamType'
    BY <1>0, <2>1, <2>2, <2>3 DEF StreamType
  <2>7. PipeType'
    BY <1>f, <2>1, <2>2, <2>5
  <2> QED BY <1>a, <1>b, <1>d, <2>2, <2>6, <2>7 DEF Types
<1>8. CASE Copied
  <2>1. /\ pipe' = Accepted(Item(Notice, 0, DoneCursor(next, from)))
        /\ engine' = engine /\ src' = src /\ log' = log /\ dest' = dest /\ saved' = saved /\ extra' = extra
        /\ wrote' = wrote /\ crashes' = crashes /\ errors' = errors /\ held' = held
        /\ phase' \in {"open", "hand"} /\ page' = page /\ next' = next /\ after' = after /\ ended' = ended
        /\ from' = from /\ pos' = pos
    BY <1>8 DEF Copied, sourceVars, copyVars
  <2>2. DoneCursor(next, from) \in Cursors
    BY <1>0, CursorTypes
  <2>3. Notice \in {0} \union Keys /\ 0 \in 0 .. MaxLog + 1
    BY ConstFacts DEF Notice
  <2>4. Item(Notice, 0, DoneCursor(next, from)) \in Items
    BY <2>2, <2>3, ItemType
  <2> QED BY <1>a, <1>b, <1>d, <1>e, <1>f, <2>1, <2>4 DEF Types
<1>9. CASE Open
  <2>1. /\ engine' = engine /\ src' = src /\ log' = log /\ dest' = dest /\ saved' = saved /\ extra' = extra
        /\ pipe' = pipe /\ wrote' = wrote /\ crashes' = crashes /\ errors' = errors /\ held' = held
        /\ phase' = "follow" /\ page' = page /\ ended' = ended /\ next' = next /\ after' = after
        /\ from' = from /\ pos' = from
    BY <1>9 DEF Open, sourceVars, copyVars
  <2>2. StreamType'
    BY <1>0, <2>1 DEF StreamType
  <2> QED BY <1>a, <1>b, <1>c, <1>d, <2>1, <2>2 DEF Types
<1>h. pos < Len(log) => /\ pos + 1 \in 1 .. Len(log) /\ pos + 1 \in 0 .. Len(log)
                        /\ Heard(pos + 1) \in Items
  BY <1>0, HeardType DEF Types
<1>10. CASE Follow
  <2>1. /\ engine' = engine /\ src' = src /\ log' = log /\ dest' = dest /\ saved' = saved /\ extra' = extra
        /\ wrote' = wrote /\ crashes' = crashes /\ errors' = errors /\ held' = held
        /\ phase' = phase /\ page' = page /\ ended' = ended /\ next' = next /\ after' = after
        /\ from' = from /\ pos' = pos + 1 /\ pos < Len(log) /\ pipe' = Accepted(Heard(pos + 1))
    BY <1>10 DEF Follow, sourceVars, copyVars
  <2>2. StreamType'
    BY <1>0, <1>h, <2>1 DEF StreamType
  <2> QED BY <1>a, <1>b, <1>d, <1>f, <1>h, <2>1, <2>2 DEF Types
<1>11. CASE Hold
  <2>1. /\ engine' = engine /\ src' = src /\ log' = log /\ dest' = dest /\ saved' = saved /\ extra' = extra
        /\ pipe' = pipe /\ wrote' = wrote /\ crashes' = crashes /\ errors' = errors
        /\ phase' = phase /\ page' = page /\ ended' = ended /\ next' = next /\ after' = after
        /\ from' = from /\ pos' = pos + 1 /\ pos < Len(log) /\ held' = HeldWith(Heard(pos + 1))
    BY <1>11 DEF Hold, sourceVars, copyVars
  <2>2. held' \subseteq Items
    BY <1>0, <1>h, <2>1 DEF HeldWith
  <2>3. StreamType'
    BY <1>0, <1>h, <2>1, <2>2 DEF StreamType
  <2> QED BY <1>a, <1>b, <1>c, <1>d, <2>1, <2>3 DEF Types
<1>i. ASSUME engine' = engine, src' = src, log' = log, dest' = dest, saved' = saved, extra' = extra,
             ended' = ended, next' = next, after' = after, from' = from, pos' = pos,
             Dropped, phase' \in {"off", "fatal"}, FaultType'
      PROVE  Types'
  <2>1. StreamType'
    BY <1>0, <1>i DEF StreamType, Dropped
  <2> QED BY <1>a, <1>b, <1>g, <1>i, <2>1 DEF Types, Dropped
<1>12. CASE Overflow
  <2>1. /\ engine' = engine /\ src' = src /\ log' = log /\ dest' = dest /\ saved' = saved /\ extra' = extra
        /\ ended' = ended /\ next' = next /\ after' = after /\ from' = from /\ pos' = pos
        /\ Dropped /\ phase' = "fatal" /\ crashes' = crashes /\ errors' = errors
    BY <1>12 DEF Overflow, sourceVars
  <2> QED BY <1>d, <1>i, <2>1
<1>13. CASE HandHeld
  <2>1. /\ engine' = engine /\ src' = src /\ log' = log /\ dest' = dest /\ saved' = saved /\ extra' = extra
        /\ wrote' = wrote /\ crashes' = crashes /\ errors' = errors
        /\ page' = page /\ ended' = ended /\ next' = next /\ after' = after /\ from' = from /\ pos' = pos
        /\ phase = "hand"
    BY <1>13 DEF HandHeld, sourceVars, copyVars
  <2>2. CASE phase' = "follow" /\ held' = held /\ pipe' = pipe
    BY <1>a, <1>b, <1>c, <1>d, <1>e, <2>1, <2>2 DEF Types
  <2>3. CASE ~(phase' = "follow" /\ held' = held /\ pipe' = pipe)
    <3>1. PICK h \in held : pipe' = Accepted(h) /\ held' = held \ {h} /\ phase' = phase
      BY <1>13, <2>3 DEF HandHeld
    <3>2. h \in Items /\ held' \subseteq Items
      BY <1>0, <3>1
    <3>3. StreamType'
      BY <1>0, <2>1, <3>1, <3>2 DEF StreamType
    <3> QED BY <1>a, <1>b, <1>d, <1>f, <2>1, <3>1, <3>2, <3>3 DEF Types
  <2> QED BY <2>2, <2>3
<1>14. CASE ReadFails
  <2>1. /\ engine' = engine /\ src' = src /\ log' = log /\ dest' = dest /\ saved' = saved /\ extra' = extra
        /\ pipe' = pipe /\ wrote' = wrote /\ crashes' = crashes /\ errors' = errors + 1 /\ errors < ReadErrors
        /\ phase' = phase /\ page' = {} /\ ended' = FALSE /\ next' = next /\ after' = after
        /\ from' = from /\ pos' = pos /\ held' = held
    BY <1>14 DEF ReadFails, sourceVars
  <2>2. FaultType'
    BY <1>0, <2>1, ConstFacts DEF FaultType
  <2>3. StreamType'
    BY <1>0, <2>1 DEF StreamType
  <2> QED BY <1>a, <1>b, <1>c, <2>1, <2>2, <2>3 DEF Types
<1>15. CASE GivesUp
  <2>1. /\ engine' = engine /\ src' = src /\ log' = log /\ dest' = dest /\ saved' = saved /\ extra' = extra
        /\ ended' = ended /\ next' = next /\ after' = after /\ from' = from /\ pos' = pos
        /\ Dropped /\ phase' = "fatal" /\ crashes' = crashes /\ errors' = errors + 1 /\ errors = ReadErrors
    BY <1>15 DEF GivesUp, sourceVars
  <2>2. FaultType'
    BY <1>0, <2>1, ConstFacts DEF FaultType
  <2> QED BY <1>i, <2>1, <2>2
<1>16. CASE Crash
  <2>1. /\ engine' = engine /\ src' = src /\ log' = log /\ dest' = dest /\ saved' = saved /\ extra' = extra
        /\ ended' = ended /\ next' = next /\ after' = after /\ from' = from /\ pos' = pos
        /\ Dropped /\ phase' = "off" /\ crashes' = crashes + 1 /\ errors' = errors /\ crashes < Crashes
    BY <1>16 DEF Crash, sourceVars
  <2>2. FaultType'
    BY <1>0, <2>1, ConstFacts DEF FaultType
  <2> QED BY <1>i, <2>1, <2>2
<1>17. CASE UNCHANGED vars
  <2>1. /\ engine' = engine /\ src' = src /\ log' = log /\ dest' = dest /\ saved' = saved /\ extra' = extra
        /\ pipe' = pipe /\ wrote' = wrote /\ crashes' = crashes /\ errors' = errors
        /\ phase' = phase /\ page' = page /\ ended' = ended /\ next' = next /\ after' = after
        /\ from' = from /\ pos' = pos /\ held' = held
    BY <1>17 DEF vars, sourceVars, copyVars
  <2> QED BY <1>0, <1>a, <1>b, <1>c, <1>d, <1>e, <2>1 DEF Types
<1> QED BY <1>1, <1>2, <1>3, <1>4, <1>5, <1>6, <1>7, <1>8, <1>9, <1>10, <1>11, <1>12, <1>13, <1>14,
           <1>15, <1>16, <1>17 DEF Next, Works

-----------------------------------------------------------------------------
(* places, and what is at rest *)

(* What the source does to itself in a step of the bridge: nothing. *)
LEMMA BridgeLeaves ==
  ASSUME Types, Works \/ ReadFails \/ GivesUp \/ Crash \/ UNCHANGED vars
  PROVE  engine' = engine /\ src' = src /\ log' = log
<1>1. CASE Write \/ Checkpoint \/ StartCopy \/ StartFollow \/ ReadPage \/ HandRow \/ Copied
  BY <1>1 DEF Write, Checkpoint, StartCopy, StartFollow, ReadPage, HandRow, Copied, sourceVars
<1>2. CASE Open \/ Follow \/ Hold \/ Overflow \/ HandHeld
  BY <1>2 DEF Open, Follow, Hold, Overflow, HandHeld, sourceVars
<1>3. CASE ReadFails \/ GivesUp \/ Crash \/ UNCHANGED vars
  BY <1>3 DEF ReadFails, GivesUp, Crash, vars, sourceVars
<1> QED BY <1>1, <1>2, <1>3 DEF Works

(* What a change leaves of the bridge: everything. *)
LEMMA ChangeLeaves ==
  ASSUME Types, NEW k \in Keys, NEW del \in BOOLEAN, Change(k, del)
  PROVE  /\ engine' = engine /\ dest' = dest /\ saved' = saved /\ pipe' = pipe /\ wrote' = wrote
         /\ phase' = phase /\ page' = page /\ ended' = ended /\ next' = next /\ after' = after
         /\ from' = from /\ pos' = pos /\ held' = held /\ crashes' = crashes /\ errors' = errors
         /\ extra' = extra \ {k}
         /\ Len(log) \in Nat /\ Len(log') = Len(log) + 1
         /\ DOMAIN log = 1 .. Len(log) /\ DOMAIN log' = 1 .. Len(log) + 1
         /\ \A n \in DOMAIN log : n \in DOMAIN log' /\ log'[n] = log[n]
         /\ log'[Len(log) + 1] = [key |-> k, del |-> del]
         /\ src'[k] = (IF del THEN 0 ELSE Len(log) + 2) /\ \A j \in Keys \ {k} : src'[j] = src[j]
<1>1. /\ log' = Append(log, [key |-> k, del |-> del])
      /\ src' = [src EXCEPT ![k] = IF del THEN 0 ELSE Len(log) + 2]
      /\ log \in Seq(ChangeType) /\ src \in [Keys -> 0 .. MaxLog + 1]
      /\ [key |-> k, del |-> del] \in ChangeType
  BY DEF Change, Types, SourceType, ChangeType
<1>2. /\ Len(log) \in Nat /\ Len(log') = Len(log) + 1
      /\ DOMAIN log = 1 .. Len(log) /\ DOMAIN log' = 1 .. Len(log) + 1
      /\ \A n \in DOMAIN log : n \in DOMAIN log' /\ log'[n] = log[n]
      /\ log'[Len(log) + 1] = [key |-> k, del |-> del]
  BY <1>1, AppendFacts
<1>3. src'[k] = (IF del THEN 0 ELSE Len(log) + 2) /\ \A j \in Keys \ {k} : src'[j] = src[j]
  BY <1>1
<1> QED BY <1>2, <1>3 DEF Change, copyVars

(* At first there is nothing to be ahead of anything. *)
LEMMA PlaceInit == Init => PlaceInv
<1> SUFFICES ASSUME Init PROVE PlaceInv
  OBVIOUS
<1>1. saved = NoCursor /\ pipe = <<>> /\ held = {} /\ ~wrote /\ Len(log) = 0
  BY DEF Init
<1> QED BY <1>1 DEF PlaceInv, Base, NoCursor

(* Every step keeps the cursors behind the end of the log. *)
LEMMA PlaceNext == Types /\ PlaceInv /\ [Next]_vars => PlaceInv'
<1> SUFFICES ASSUME Types, PlaceInv, [Next]_vars PROVE PlaceInv'
  OBVIOUS
<1>0. /\ pipe \in Seq(Items) /\ Len(log) \in Nat /\ from \in 0 .. Len(log) /\ pos \in 0 .. Len(log)
      /\ next \in Nat
  BY DEF Types, SourceType, StreamType, PipeType
<1>1. ASSUME NEW k \in Keys, NEW del \in BOOLEAN, Change(k, del) PROVE PlaceInv'
  <2>1. saved' = saved /\ pipe' = pipe /\ held' = held /\ wrote' = wrote /\ Len(log') = Len(log) + 1
    BY <1>1, ChangeLeaves
  <2>2. saved \in Cursors /\ held \subseteq Items
    BY DEF Types, TargetType, StreamType
  <2>3. \A c \in Cursors : Base(c) \in Nat
    BY DEF Cursors, Base
  <2>4. \A x \in Items : x.cursor \in Cursors
    BY DEF Items
  <2>5. Base(saved) \in Nat /\ (\A i \in DOMAIN pipe : Base(pipe[i].cursor) \in Nat)
        /\ \A h \in held : Base(h.cursor) \in Nat
    BY <1>0, <2>2, <2>3, <2>4
  <2>6. \A n \in Nat : n <= Len(log) => n <= Len(log')
    BY <1>0, <2>1
  <2> QED BY <2>1, <2>5, <2>6 DEF PlaceInv
<1>a. ASSUME log' = log, saved' = saved, pipe' = pipe, wrote' = wrote,
             \A h \in held' : h \in held \/ Base(h.cursor) <= Len(log)
      PROVE  PlaceInv'
  BY <1>a DEF PlaceInv
<1>b. ASSUME log' = log, saved' = saved, wrote' = wrote, held' \subseteq held,
             NEW x \in Items, pipe' = Accepted(x), Base(x.cursor) <= Len(log)
      PROVE  PlaceInv'
  <2>1. pipe' = pipe \/ pipe' = Append(pipe, x)
    BY <1>b, AcceptedType DEF Types
  <2>2. CASE pipe' = pipe
    BY <1>a, <1>b, <2>2
  <2>3. CASE pipe' = Append(pipe, x)
    <3>1. pipe' # <<>> /\ \A i \in DOMAIN pipe' : (i \in DOMAIN pipe /\ pipe'[i] = pipe[i]) \/ pipe'[i] = x
      BY <1>0, <2>3, AppendFacts
    <3> QED BY <1>b, <3>1 DEF PlaceInv
  <2> QED BY <2>1, <2>2, <2>3
<1>c. ASSUME log' = log, saved' = saved, Dropped PROVE PlaceInv'
  BY <1>c DEF PlaceInv, Dropped
<1>2. CASE Write
  <2>1. log' = log /\ saved' = saved /\ pipe' = pipe /\ held' = held /\ pipe # <<>>
    BY <1>2 DEF Write, sourceVars
  <2> QED BY <2>1 DEF PlaceInv
<1>3. CASE Checkpoint
  <2>1. /\ log' = log /\ saved' = Head(pipe).cursor /\ pipe' = Tail(pipe) /\ ~wrote' /\ held' = held
        /\ pipe # <<>>
    BY <1>3 DEF Checkpoint, sourceVars, PlaceInv
  <2>2. /\ Head(pipe) = pipe[1] /\ 1 \in DOMAIN pipe
        /\ \A i \in DOMAIN Tail(pipe) : i + 1 \in DOMAIN pipe /\ Tail(pipe)[i] = pipe[i + 1]
    BY <1>0, <2>1, TailFacts
  <2>3. Base(saved') <= Len(log) /\ \A i \in DOMAIN pipe' : Base(pipe'[i].cursor) <= Len(log)
    BY <2>1, <2>2 DEF PlaceInv
  <2> QED BY <2>1, <2>3 DEF PlaceInv
<1>4. CASE StartCopy \/ StartFollow \/ ReadPage \/ Open \/ ReadFails \/ UNCHANGED vars
  <2>1. log' = log /\ saved' = saved /\ pipe' = pipe /\ held' = held /\ wrote' = wrote
    <3>1. CASE StartCopy \/ StartFollow \/ ReadPage
      BY <3>1 DEF StartCopy, StartFollow, ReadPage, sourceVars
    <3>2. CASE Open \/ ReadFails \/ UNCHANGED vars
      BY <3>2 DEF Open, ReadFails, vars, sourceVars
    <3> QED BY <1>4, <3>1, <3>2
  <2> QED BY <1>a, <2>1
<1>5. CASE HandRow
  <2>1. PICK r \in page : pipe' = Accepted(Item(r.key, r.ver, RowCursor(next, r.key, from)))
    BY <1>5 DEF HandRow
  <2>2. log' = log /\ saved' = saved /\ wrote' = wrote /\ held' = held
    BY <1>5 DEF HandRow, sourceVars
  <2>3. r.key \in Keys /\ r.ver \in 0 .. MaxLog + 1
    BY ConstFacts DEF RowType, Types, StreamType
  <2>4. PICK c : c = RowCursor(next, r.key, from)
    OBVIOUS
  <2>5. c \in Cursors /\ c.kind = "row" /\ c.from = from
    BY <1>0, <2>3, <2>4, CursorTypes
  <2>6. PICK x : x = Item(r.key, r.ver, c)
    OBVIOUS
  <2>7. x \in Items /\ x.cursor = c
    <3>1. x \in Items
      BY <2>3, <2>5, <2>6, ItemType, Zenon
    <3>2. x.cursor = c
      BY <2>6 DEF Item
    <3> QED BY <3>1, <3>2
  <2>8. Base(x.cursor) <= Len(log)
    BY <1>0, <2>5, <2>7 DEF Base
  <2>9. pipe' = Accepted(x)
    BY <2>1, <2>4, <2>6
  <2> QED BY <1>b, <2>2, <2>7, <2>8, <2>9
<1>6. CASE Copied
  <2>1. pipe' = Accepted(Item(Notice, 0, DoneCursor(next, from)))
        /\ log' = log /\ saved' = saved /\ wrote' = wrote /\ held' = held
    BY <1>6 DEF Copied, sourceVars
  <2>3. Notice \in {0} \union Keys /\ 0 \in 0 .. MaxLog + 1
    BY ConstFacts DEF Notice
  <2>4. PICK c : c = DoneCursor(next, from)
    OBVIOUS
  <2>5. c \in Cursors /\ c.kind = "done" /\ c.from = from
    BY <1>0, <2>4, CursorTypes
  <2>6. PICK x : x = Item(Notice, 0, c)
    OBVIOUS
  <2>7. x \in Items /\ x.cursor = c
    <3>1. x \in Items
      BY <2>3, <2>5, <2>6, ItemType, Zenon
    <3>2. x.cursor = c
      BY <2>6 DEF Item
    <3> QED BY <3>1, <3>2
  <2>8. Base(x.cursor) <= Len(log)
    BY <1>0, <2>5, <2>7 DEF Base
  <2>9. pipe' = Accepted(x)
    BY <2>1, <2>4, <2>6
  <2> QED BY <1>b, <2>1, <2>7, <2>8, <2>9
<1>h. ASSUME pos < Len(log) PROVE Heard(pos + 1) \in Items /\ Base(Heard(pos + 1).cursor) <= Len(log)
  <2>1. pos + 1 \in 1 .. Len(log)
    BY <1>0, <1>h
  <2>2. Heard(pos + 1) \in Items /\ Heard(pos + 1).cursor = LogCursor(pos + 1)
    BY <2>1, HeardType DEF Types
  <2>3. LogCursor(pos + 1).kind = "log" /\ LogCursor(pos + 1).at = pos + 1
    BY <2>1, CursorTypes
  <2> QED BY <2>1, <2>2, <2>3 DEF Base
<1>7. CASE Follow
  <2>1. log' = log /\ saved' = saved /\ wrote' = wrote /\ held' = held /\ pipe' = Accepted(Heard(pos + 1))
        /\ pos < Len(log)
    BY <1>7 DEF Follow, sourceVars
  <2> QED BY <1>b, <1>h, <2>1
<1>8. CASE Hold
  <2>1. log' = log /\ saved' = saved /\ wrote' = wrote /\ pipe' = pipe /\ held' = HeldWith(Heard(pos + 1))
        /\ pos < Len(log)
    BY <1>8 DEF Hold, sourceVars
  <2> QED BY <1>a, <1>h, <2>1 DEF HeldWith
<1>9. CASE Overflow \/ GivesUp \/ Crash
  BY <1>9, <1>c DEF Overflow, GivesUp, Crash, sourceVars
<1>10. CASE HandHeld
  <2>1. log' = log /\ saved' = saved /\ wrote' = wrote
    BY <1>10 DEF HandHeld, sourceVars
  <2>2. CASE held' = held /\ pipe' = pipe
    BY <1>a, <2>1, <2>2
  <2>3. CASE ~(held' = held /\ pipe' = pipe)
    <3>1. PICK h \in held : pipe' = Accepted(h) /\ held' = held \ {h}
      BY <1>10, <2>3 DEF HandHeld
    <3>2. h \in Items /\ Base(h.cursor) <= Len(log)
      BY <3>1 DEF Types, StreamType, PlaceInv
    <3> QED BY <1>b, <2>1, <3>1, <3>2
  <2> QED BY <2>2, <2>3
<1> QED BY <1>1, <1>2, <1>3, <1>4, <1>5, <1>6, <1>7, <1>8, <1>9, <1>10 DEF Next, Works

(* Without a stream nothing is in flight; an engine with a log holds nothing *)
(* back, one without opens nothing; what was written is in the destination.  *)
RestInv ==
  /\ phase \in {"off", "fatal"} => pipe = <<>> /\ ~wrote /\ page = {} /\ held = {}
  /\ phase = "hand" => ~hasLog
  /\ phase = "open" => hasLog
  /\ hasLog => held = {}
  /\ wrote /\ Head(pipe).key # Notice => dest[Head(pipe).key] = Head(pipe).ver

(* At first nothing is in flight. *)
LEMMA RestInit == Init => RestInv
BY DEF Init, RestInv

(* Every step keeps what is at rest, and what was written. *)
LEMMA RestNext == Types /\ PlaceInv /\ RestInv /\ [Next]_vars => RestInv'
<1> SUFFICES ASSUME Types, PlaceInv, RestInv, [Next]_vars PROVE RestInv'
  OBVIOUS
<1>0. pipe \in Seq(Items) /\ dest \in [Keys -> 0 .. MaxLog + 1]
  BY DEF Types, PipeType, TargetType
<1>a. ASSUME engine' = engine, phase' \notin {"off", "fatal"},
             phase' = "hand" => ~hasLog, phase' = "open" => hasLog, hasLog => held' = {},
             wrote' = wrote, dest' = dest, pipe' = pipe
      PROVE  RestInv'
  BY <1>a DEF RestInv, hasLog
<1>b. ASSUME engine' = engine, phase' \notin {"off", "fatal"},
             phase' = "hand" => ~hasLog, phase' = "open" => hasLog, hasLog => held' = {},
             wrote' = wrote, dest' = dest, NEW x \in Items, pipe' = Accepted(x)
      PROVE  RestInv'
  <2>1. pipe' = pipe \/ pipe' = Append(pipe, x)
    BY <1>b, AcceptedType DEF Types
  <2>2. wrote => Head(pipe') = Head(pipe)
    BY <1>0, <2>1 DEF PlaceInv
  <2> QED BY <1>b, <2>2 DEF RestInv, hasLog
<1>c. ASSUME engine' = engine, Dropped, phase' \in {"off", "fatal"} PROVE RestInv'
  BY <1>c DEF RestInv, Dropped, hasLog
<1>d. ASSUME engine' = engine, phase' = phase, page' = page, held' = held, wrote' = wrote, dest' = dest, pipe' = pipe
      PROVE  RestInv'
  BY <1>d DEF RestInv, hasLog
<1>1. ASSUME NEW k \in Keys, NEW del \in BOOLEAN, Change(k, del) PROVE RestInv'
  BY <1>1, <1>d, ChangeLeaves
<1>2. CASE Write
  <2>1. /\ pipe # <<>> /\ wrote' = TRUE /\ pipe' = pipe /\ phase' = phase /\ engine' = engine
        /\ dest' = IF Head(pipe).key = Notice THEN dest ELSE [dest EXCEPT ![Head(pipe).key] = Head(pipe).ver]
        /\ held' = held
    BY <1>2 DEF Write, sourceVars
  <2>2. Head(pipe).key \in {0} \union Keys
    <3>1. Head(pipe) \in Items
      BY <1>0, <2>1, TailFacts
    <3> QED BY <3>1 DEF Items
  <2>3. Head(pipe).key # Notice => dest'[Head(pipe).key] = Head(pipe).ver
    BY <1>0, <2>1, <2>2 DEF Notice
  <2> QED BY <2>1, <2>3 DEF RestInv, hasLog
<1>3. CASE Checkpoint
  <2>1. wrote /\ ~wrote' /\ phase' = phase /\ engine' = engine /\ held' = held
    BY <1>3 DEF Checkpoint, sourceVars
  <2> QED BY <2>1 DEF RestInv, hasLog
<1>4. CASE StartCopy \/ StartFollow
  <2>1. /\ engine' = engine /\ phase' \in {"copy", "follow"} /\ held' = held /\ wrote' = wrote
        /\ dest' = dest /\ pipe' = pipe
    BY <1>4 DEF StartCopy, StartFollow, sourceVars
  <2> QED BY <1>a, <2>1 DEF RestInv
<1>5. CASE ReadPage \/ ReadFails
  <2>1. /\ engine' = engine /\ phase' = phase /\ phase \in {"copy"} /\ held' = held
        /\ wrote' = wrote /\ dest' = dest /\ pipe' = pipe
    BY <1>5 DEF ReadPage, ReadFails, sourceVars
  <2> QED BY <1>a, <2>1 DEF RestInv
<1>6. CASE HandRow
  <2>1. PICK r \in page : pipe' = Accepted(Item(r.key, r.ver, RowCursor(next, r.key, from)))
    BY <1>6 DEF HandRow
  <2>2. engine' = engine /\ phase' = phase /\ phase = "copy" /\ wrote' = wrote /\ held' = held /\ dest' = dest
    BY <1>6 DEF HandRow, sourceVars
  <2>3. r.key \in Keys /\ r.ver \in 0 .. MaxLog + 1 /\ next \in Nat /\ from \in Nat
    BY ConstFacts DEF RowType, Types, StreamType, SourceType
  <2>4. Item(r.key, r.ver, RowCursor(next, r.key, from)) \in Items
    BY <2>3, CursorTypes, ItemType
  <2> QED BY <1>b, <2>1, <2>2, <2>4 DEF RestInv
<1>7. CASE Copied
  <2>1. /\ pipe' = Accepted(Item(Notice, 0, DoneCursor(next, from))) /\ engine' = engine
        /\ phase' = (IF hasLog THEN "open" ELSE "hand") /\ wrote' = wrote /\ held' = held /\ dest' = dest
    BY <1>7 DEF Copied, sourceVars
  <2>2. Notice \in {0} \union Keys /\ 0 \in 0 .. MaxLog + 1 /\ next \in Nat /\ from \in Nat
    BY ConstFacts DEF Notice, Types, StreamType, SourceType
  <2>3. Item(Notice, 0, DoneCursor(next, from)) \in Items
    BY <2>2, CursorTypes, ItemType
  <2> QED BY <1>b, <2>1, <2>3 DEF RestInv
<1>8. CASE Open
  <2>1. /\ engine' = engine /\ phase' = "follow" /\ held' = held
        /\ wrote' = wrote /\ dest' = dest /\ pipe' = pipe
    BY <1>8 DEF Open, sourceVars
  <2> QED BY <1>a, <2>1 DEF RestInv
<1>9. CASE Follow
  <2>1. /\ engine' = engine /\ phase' = "follow" /\ held' = held /\ wrote' = wrote /\ dest' = dest
        /\ pipe' = Accepted(Heard(pos + 1)) /\ pos < Len(log)
    BY <1>9 DEF Follow, sourceVars
  <2>2. Heard(pos + 1) \in Items
    <3>1. pos + 1 \in 1 .. Len(log)
      BY <2>1 DEF Types, StreamType, SourceType
    <3> QED BY <3>1, HeardType DEF Types
  <2> QED BY <1>b, <2>1, <2>2 DEF RestInv
<1>10. CASE Hold
  <2>1. /\ engine' = engine /\ phase' = phase /\ phase \in {"copy", "hand"} /\ ~hasLog /\ wrote' = wrote
        /\ dest' = dest /\ pipe' = pipe
    BY <1>10 DEF Hold, sourceVars
  <2> QED BY <1>a, <2>1 DEF RestInv
<1>11. CASE HandHeld
  <2>1. engine' = engine /\ phase = "hand" /\ wrote' = wrote /\ dest' = dest
    BY <1>11 DEF HandHeld, sourceVars
  <2>2. CASE phase' = "follow" /\ held' = held /\ pipe' = pipe
    BY <1>a, <2>1, <2>2 DEF RestInv
  <2>3. CASE ~(phase' = "follow" /\ held' = held /\ pipe' = pipe)
    <3>1. PICK h \in held : pipe' = Accepted(h) /\ phase' = phase
      BY <1>11, <2>3 DEF HandHeld
    <3>2. h \in Items
      BY <3>1 DEF Types, StreamType
    <3> QED BY <1>b, <2>1, <3>1, <3>2 DEF RestInv
  <2> QED BY <2>2, <2>3
<1>12. CASE Overflow \/ GivesUp \/ Crash
  BY <1>12, <1>c DEF Overflow, GivesUp, Crash, sourceVars
<1>13. CASE UNCHANGED vars
  <2>1. engine' = engine /\ phase' = phase /\ page' = page /\ held' = held /\ wrote' = wrote /\ dest' = dest /\ pipe' = pipe
    BY <1>13 DEF vars, copyVars
  <2> QED BY <1>d, <2>1
<1> QED BY <1>1, <1>2, <1>3, <1>4, <1>5, <1>6, <1>7, <1>8, <1>9, <1>10, <1>11, <1>12, <1>13 DEF Next, Works

-----------------------------------------------------------------------------
(* what the source has become of a key *)

(* the key changes after the place p *)
Ch(k, p) == \E n \in DOMAIN log : log[n].key = k /\ n > p
(* the version is the key's, or a change after p makes up for it *)
Ok(k, v, p) == v = src[k] \/ Ch(k, p)
(* the key has no row, or a change after p makes up for it *)
Gone(k, p) == src[k] = 0 \/ Ch(k, p)

(* The last change of a key says what its row is. *)
SrcInv ==
  \A n \in DOMAIN log :
    (\A m \in DOMAIN log : m > n => log[m].key # log[n].key)
      => src[log[n].key] = IF log[n].del THEN 0 ELSE n + 1

(* A change after a place stays after it. *)
LEMMA ChStays ==
  ASSUME Types, [Next]_vars, NEW k, NEW p, Ch(k, p)
  PROVE  Ch(k, p)'
<1>1. CASE \E j \in Keys, del \in BOOLEAN : Change(j, del)
  <2>1. \A n \in DOMAIN log : n \in DOMAIN log' /\ log'[n] = log[n]
    BY <1>1, ChangeLeaves
  <2> QED BY <2>1 DEF Ch
<1>2. CASE Works \/ ReadFails \/ GivesUp \/ Crash \/ UNCHANGED vars
  <2>1. log' = log
    BY <1>2, BridgeLeaves
  <2> QED BY <2>1 DEF Ch
<1> QED BY <1>1, <1>2 DEF Next

(* A change is after every place there has been. *)
LEMMA ChNew ==
  ASSUME Types, NEW k \in Keys, NEW del \in BOOLEAN, Change(k, del), NEW p \in Nat, p <= Len(log)
  PROVE  Ch(k, p)'
<1>1. /\ Len(log) \in Nat /\ DOMAIN log' = 1 .. Len(log) + 1
      /\ log'[Len(log) + 1] = [key |-> k, del |-> del]
  BY ChangeLeaves
<1>2. Len(log) + 1 \in DOMAIN log' /\ Len(log) + 1 > p /\ log'[Len(log) + 1].key = k
  BY <1>1
<1> QED BY <1>2 DEF Ch

(* A version that is right, or made up for, stays so. *)
LEMMA OkStays ==
  ASSUME Types, [Next]_vars, NEW k \in Keys, NEW p \in Nat, p <= Len(log), NEW v
  PROVE  (Ok(k, v, p) => Ok(k, v, p)') /\ (Gone(k, p) => Gone(k, p)')
<1>1. Ch(k, p) => Ch(k, p)'
  BY ChStays
<1>2. src'[k] = src[k] \/ Ch(k, p)'
  <2>1. CASE \E j \in Keys, del \in BOOLEAN : Change(j, del)
    <3>1. PICK j \in Keys, del \in BOOLEAN : Change(j, del)
      BY <2>1
    <3>2. CASE j = k
      BY <3>1, <3>2, ChNew
    <3>3. CASE j # k
      BY <3>1, <3>3, ChangeLeaves
    <3> QED BY <3>2, <3>3
  <2>2. CASE Works \/ ReadFails \/ GivesUp \/ Crash \/ UNCHANGED vars
    BY <2>2, BridgeLeaves
  <2> QED BY <2>1, <2>2 DEF Next
<1> QED BY <1>1, <1>2 DEF Ok, Gone

(* At first nothing has changed. *)
LEMMA SrcInit == Init => SrcInv
BY DEF Init, SrcInv

(* Every step keeps the row what the last change made it. *)
LEMMA SrcNext == Types /\ SrcInv /\ [Next]_vars => SrcInv'
<1> SUFFICES ASSUME Types, SrcInv, [Next]_vars PROVE SrcInv'
  OBVIOUS
<1>0. log \in Seq(ChangeType)
  BY DEF Types, SourceType
<1>1. ASSUME NEW k \in Keys, NEW del \in BOOLEAN, Change(k, del) PROVE SrcInv'
  <2>1. /\ Len(log) \in Nat /\ DOMAIN log = 1 .. Len(log) /\ DOMAIN log' = 1 .. Len(log) + 1
        /\ \A n \in DOMAIN log : n \in DOMAIN log' /\ log'[n] = log[n]
        /\ log'[Len(log) + 1] = [key |-> k, del |-> del]
        /\ src'[k] = (IF del THEN 0 ELSE Len(log) + 2) /\ \A j \in Keys \ {k} : src'[j] = src[j]
    BY <1>1, ChangeLeaves
  <2> SUFFICES ASSUME NEW n \in DOMAIN log', \A m \in DOMAIN log' : m > n => log'[m].key # log'[n].key
               PROVE  src'[log'[n].key] = IF log'[n].del THEN 0 ELSE n + 1
    BY DEF SrcInv
  <2>2. CASE n = Len(log) + 1
    <3>1. log'[n].key = k /\ log'[n].del = del
      BY <2>1, <2>2
    <3>2. n + 1 = Len(log) + 2
      BY <2>1, <2>2
    <3> QED BY <2>1, <3>1, <3>2
  <2>3. CASE n # Len(log) + 1
    <3>1. n \in DOMAIN log /\ log'[n] = log[n] /\ Len(log) + 1 \in DOMAIN log' /\ Len(log) + 1 > n
      BY <2>1, <2>3
    <3>2. log[n].key # k
      BY <2>1, <3>1
    <3>3. log[n].key \in Keys
      <4>1. log[n] \in ChangeType
        BY <1>0, <3>1
      <4> QED BY <4>1 DEF ChangeType
    <3>4. src'[log[n].key] = src[log[n].key]
      BY <2>1, <3>2, <3>3
    <3>5. \A m \in DOMAIN log : m > n => log[m].key # log[n].key
      BY <2>1, <3>1
    <3>6. src[log[n].key] = IF log[n].del THEN 0 ELSE n + 1
      BY <3>1, <3>5 DEF SrcInv
    <3> QED BY <3>1, <3>4, <3>6
  <2> QED BY <2>2, <2>3
<1>2. CASE Works \/ ReadFails \/ GivesUp \/ Crash \/ UNCHANGED vars
  <2>1. log' = log /\ src' = src
    BY <1>2, BridgeLeaves
  <2> QED BY <2>1 DEF SrcInv
<1> QED BY <1>1, <1>2 DEF Next

(* What an engine with a log reads of a change is what the key has become, *)
(* or the key changes again.                                               *)
LEMMA HeardOk ==
  ASSUME Types, SrcInv, hasLog, NEW n \in 1 .. Len(log)
  PROVE  Ok(Heard(n).key, Heard(n).ver, n)
<1>1. DOMAIN log = 1 .. Len(log)
  BY DEF Types, SourceType
<1>2. Heard(n).key = log[n].key /\ Heard(n).ver = IF log[n].del THEN 0 ELSE n + 1
  BY DEF Heard, Item
<1>3. CASE \E m \in DOMAIN log : m > n /\ log[m].key = log[n].key
  BY <1>2, <1>3 DEF Ok, Ch
<1>4. CASE \A m \in DOMAIN log : m > n => log[m].key # log[n].key
  <2>1. src[log[n].key] = IF log[n].del THEN 0 ELSE n + 1
    BY <1>1, <1>4 DEF SrcInv
  <2> QED BY <1>2, <2>1 DEF Ok
<1> QED BY <1>3, <1>4

-----------------------------------------------------------------------------
(* engines with a log: the chain of cursors *)

(* the cursor before item i of the queue *)
Before(i) == IF i = 1 THEN saved ELSE pipe[i - 1].cursor
(* the cursor of the last item of the queue, or the saved one *)
LastC == IF pipe = <<>> THEN saved ELSE pipe[Len(pipe)].cursor

(* A row follows the row before it in the table: between them there is none *)
RowLink(c, x) ==
  /\ x.cursor.kind = "row" /\ x.key = x.cursor.key /\ c.kind \in {"none", "row"}
  /\ c.key < x.key /\ (c.kind = "row" => c.from = x.cursor.from)
  /\ \A k \in Keys : c.key < k /\ k < x.key => Gone(k, x.cursor.from)
(* the end of the copy follows its last row *)
DoneLink(c, x) ==
  /\ x.cursor.kind = "done" /\ x.key = Notice /\ c.kind \in {"none", "row"}
  /\ (c.kind = "row" => c.from = x.cursor.from)
  /\ \A k \in Keys : c.key < k => Gone(k, x.cursor.from)
(* and a change follows the one before it in the log. *)
LogLink(c, x) ==
  /\ x.cursor.kind = "log" /\ c.kind \in {"done", "log"} /\ x.cursor.at = Base(c) + 1
  /\ x.cursor.at \in DOMAIN log /\ log[x.cursor.at].key = x.key

(* an item in its place after a cursor, its version right or made up for *)
Follows(c, x) ==
  /\ RowLink(c, x) \/ DoneLink(c, x) \/ LogLink(c, x)
  /\ x.key # Notice => Ok(x.key, x.ver, Base(x.cursor))

(* The queue is a chain from the checkpoint on. *)
Chain == \A i \in DOMAIN pipe : Follows(Before(i), pipe[i])

(* A cursor and an item say where they are. *)
LEMMA CursorFacts ==
  /\ \A c \in Cursors : c.kind \in {"none", "row", "done", "log"} /\ c.at \in Nat /\ c.key \in {0} \union Keys
                        /\ c.from \in Nat /\ Base(c) \in Nat
  /\ \A x \in Items : x.key \in {0} \union Keys /\ x.ver \in 0 .. MaxLog + 1 /\ x.cursor \in Cursors
<1>1. \A c \in Cursors : c.kind \in {"none", "row", "done", "log"} /\ c.at \in Nat /\ c.key \in {0} \union Keys
                         /\ c.from \in Nat
  BY DEF Cursors
<1>2. \A x \in Items : x.key \in {0} \union Keys /\ x.ver \in 0 .. MaxLog + 1 /\ x.cursor \in Cursors
  BY DEF Items
<1> QED BY <1>1, <1>2 DEF Base

(* What is in place stays in place. *)
LEMMA FollowsStays ==
  ASSUME Types, [Next]_vars, NEW c, NEW x \in Items, Base(x.cursor) <= Len(log), Follows(c, x)
  PROVE  Follows(c, x)'
<1>1. x.key \in {0} \union Keys /\ x.cursor \in Cursors /\ x.cursor.from \in Nat /\ Base(x.cursor) \in Nat
  BY CursorFacts
<1>2. x.key # Notice => Ok(x.key, x.ver, Base(x.cursor))'
  <2>1. CASE x.key = Notice
    BY <2>1
  <2>2. CASE x.key # Notice
    <3>1. x.key \in Keys /\ Ok(x.key, x.ver, Base(x.cursor))
      BY <1>1, <2>2 DEF Follows, Notice
    <3> QED BY <1>1, <3>1, OkStays
  <2> QED BY <2>1, <2>2
<1>3. ASSUME x.cursor.kind # "log", NEW k \in Keys, Gone(k, x.cursor.from)
      PROVE  Gone(k, x.cursor.from)'
  <2>1. x.cursor.from <= Len(log)
    BY <1>3 DEF Base
  <2> QED BY <1>1, <1>3, <2>1, OkStays
<1>4. ASSUME RowLink(c, x) PROVE RowLink(c, x)'
  <2>1. x.cursor.kind # "log" /\ \A k \in Keys : c.key < k /\ k < x.key => Gone(k, x.cursor.from)
    BY <1>4 DEF RowLink
  <2>2. \A k \in Keys : c.key < k /\ k < x.key => Gone(k, x.cursor.from)'
    BY <1>3, <2>1
  <2> QED BY <1>4, <2>2 DEF RowLink
<1>5. ASSUME DoneLink(c, x) PROVE DoneLink(c, x)'
  <2>1. x.cursor.kind # "log" /\ \A k \in Keys : c.key < k => Gone(k, x.cursor.from)
    BY <1>5 DEF DoneLink
  <2>2. \A k \in Keys : c.key < k => Gone(k, x.cursor.from)'
    BY <1>3, <2>1
  <2> QED BY <1>5, <2>2 DEF DoneLink
<1>6. ASSUME LogLink(c, x) PROVE LogLink(c, x)'
  <2>1. CASE \E j \in Keys, del \in BOOLEAN : Change(j, del)
    <3>1. \A n \in DOMAIN log : n \in DOMAIN log' /\ log'[n] = log[n]
      BY <2>1, ChangeLeaves
    <3> QED BY <1>6, <3>1 DEF LogLink
  <2>2. CASE Works \/ ReadFails \/ GivesUp \/ Crash \/ UNCHANGED vars
    <3>1. log' = log
      BY <2>2, BridgeLeaves
    <3> QED BY <1>6, <3>1 DEF LogLink
  <2> QED BY <2>1, <2>2 DEF Next
<1> QED BY <1>2, <1>4, <1>5, <1>6 DEF Follows

(* A chain that the step leaves alone stays one. *)
LEMMA ChainSame ==
  ASSUME Types, PlaceInv, Chain, [Next]_vars, pipe' = pipe, saved' = saved
  PROVE  Chain'
<1> SUFFICES ASSUME NEW i \in DOMAIN pipe PROVE Follows(Before(i), pipe[i])'
  BY DEF Chain
<1>1. PICK c : c = Before(i)
  OBVIOUS
<1>2. PICK x : x = pipe[i]
  OBVIOUS
<1>3. x \in Items /\ Base(x.cursor) <= Len(log) /\ Follows(c, x)
  BY <1>1, <1>2 DEF Types, PipeType, PlaceInv, Chain
<1>4. Follows(c, x)'
  BY <1>3, FollowsStays
<1>5. Before(i)' = c /\ pipe'[i] = x
  BY <1>1, <1>2 DEF Before
<1>6. Follows(Before(i), pipe[i])' <=> Follows(c, x)'
  BY <1>5
<1> QED BY <1>4, <1>6

(* An item in place after the last one makes the chain longer. *)
LEMMA ChainMore ==
  ASSUME Types, PlaceInv, Chain, [Next]_vars, NEW x \in Items, pipe' = Append(pipe, x), saved' = saved,
         Follows(LastC, x), Base(x.cursor) <= Len(log)
  PROVE  Chain'
<1>0. /\ pipe \in Seq(Items) /\ Len(pipe) \in Nat /\ DOMAIN pipe = 1 .. Len(pipe)
      /\ pipe' # <<>> /\ DOMAIN pipe' = 1 .. Len(pipe) + 1
      /\ \A i \in DOMAIN pipe : pipe'[i] = pipe[i]
      /\ pipe'[Len(pipe) + 1] = x
  BY AppendFacts DEF Types, PipeType
<1> SUFFICES ASSUME NEW i \in DOMAIN pipe' PROVE Follows(Before(i), pipe[i])'
  BY DEF Chain
<1>1. CASE i \in DOMAIN pipe
  <2>1. PICK c : c = Before(i)
    OBVIOUS
  <2>2. PICK y : y = pipe[i]
    OBVIOUS
  <2>3. y \in Items /\ Base(y.cursor) <= Len(log) /\ Follows(c, y)
    BY <1>0, <1>1, <2>1, <2>2 DEF PlaceInv, Chain
  <2>4. Follows(c, y)'
    BY <2>3, FollowsStays
  <2>5. i = 1 \/ i - 1 \in DOMAIN pipe
    BY <1>0, <1>1
  <2>6. Before(i)' = c /\ pipe'[i] = y
    BY <1>0, <1>1, <2>1, <2>2, <2>5 DEF Before
  <2>7. Follows(Before(i), pipe[i])' <=> Follows(c, y)'
    BY <2>6
  <2> QED BY <2>4, <2>7
<1>2. CASE i = Len(pipe) + 1
  <2>1. PICK c : c = LastC
    OBVIOUS
  <2>2. Follows(c, x)'
    BY <2>1, FollowsStays
  <2>3. Before(i)' = c
    <3>1. CASE pipe = <<>>
      BY <1>0, <1>2, <2>1, <3>1 DEF Before, LastC
    <3>2. CASE pipe # <<>>
      <4>1. Len(pipe) >= 1 /\ i # 1 /\ i - 1 = Len(pipe) /\ Len(pipe) \in DOMAIN pipe
        BY <1>0, <1>2, <3>2
      <4> QED BY <1>0, <2>1, <3>2, <4>1 DEF Before, LastC
    <3> QED BY <3>1, <3>2
  <2>4. pipe'[i] = x
    BY <1>0, <1>2
  <2>5. Follows(Before(i), pipe[i])' <=> Follows(c, x)'
    BY <2>3, <2>4
  <2> QED BY <2>2, <2>5
<1> QED BY <1>0, <1>1, <1>2

(* A chain whose first item is checkpointed goes on from there. *)
LEMMA ChainLess ==
  ASSUME Types, PlaceInv, Chain, [Next]_vars, pipe # <<>>, pipe' = Tail(pipe), saved' = Head(pipe).cursor
  PROVE  Chain'
<1>0. /\ Len(pipe) \in Nat /\ Len(pipe) >= 1 /\ Head(pipe) = pipe[1] /\ DOMAIN pipe = 1 .. Len(pipe)
      /\ DOMAIN pipe' = 1 .. Len(pipe) - 1
      /\ \A i \in DOMAIN pipe' : i \in Nat /\ i + 1 \in DOMAIN pipe /\ pipe'[i] = pipe[i + 1]
  BY TailFacts DEF Types, PipeType
<1> SUFFICES ASSUME NEW i \in DOMAIN pipe' PROVE Follows(Before(i), pipe[i])'
  BY DEF Chain
<1>1. PICK c : c = Before(i + 1)
  OBVIOUS
<1>2. PICK x : x = pipe[i + 1]
  OBVIOUS
<1>3. x \in Items /\ Base(x.cursor) <= Len(log) /\ Follows(c, x)
  BY <1>0, <1>1, <1>2 DEF Types, PipeType, PlaceInv, Chain
<1>4. Follows(c, x)'
  BY <1>3, FollowsStays
<1>5. Before(i)' = c /\ pipe'[i] = x
  <2>1. c = pipe[i].cursor
    <3>1. i + 1 # 1 /\ (i + 1) - 1 = i
      BY <1>0
    <3> QED BY <1>1, <3>1 DEF Before
  <2>2. CASE i = 1
    BY <1>0, <1>2, <2>1, <2>2 DEF Before
  <2>3. CASE i # 1
    <3>1. i - 1 \in DOMAIN pipe' /\ (i - 1) + 1 = i
      BY <1>0, <2>3
    <3>2. pipe'[i - 1] = pipe[i]
      BY <1>0, <3>1
    <3> QED BY <1>0, <1>2, <2>1, <2>3, <3>2 DEF Before
  <2> QED BY <2>2, <2>3
<1>6. Follows(Before(i), pipe[i])' <=> Follows(c, x)'
  BY <1>5
<1> QED BY <1>4, <1>6

(* The end of the chain: a new item's cursor, and what a checkpoint leaves. *)
LEMMA LastFacts ==
  ASSUME Types
  PROVE  /\ pipe' = pipe /\ saved' = saved => LastC' = LastC
         /\ \A x \in Items : pipe' = Append(pipe, x) => LastC' = x.cursor
         /\ pipe # <<>> /\ pipe' = Tail(pipe) /\ saved' = Head(pipe).cursor => LastC' = LastC
         /\ pipe = <<>> => LastC = saved
         /\ pipe # <<>> => Len(pipe) \in DOMAIN pipe /\ LastC = pipe[Len(pipe)].cursor
         /\ LastC \in Cursors
<1>0. pipe \in Seq(Items) /\ saved \in Cursors
  BY DEF Types, PipeType, TargetType
<1>1. pipe' = pipe /\ saved' = saved => LastC' = LastC
  BY DEF LastC
<1>2. ASSUME NEW x \in Items, pipe' = Append(pipe, x) PROVE LastC' = x.cursor
  <2>1. pipe' # <<>> /\ Len(pipe') = Len(pipe) + 1 /\ pipe'[Len(pipe) + 1] = x
    BY <1>0, <1>2, AppendFacts
  <2> QED BY <2>1 DEF LastC
<1>3. ASSUME pipe # <<>>, pipe' = Tail(pipe), saved' = Head(pipe).cursor PROVE LastC' = LastC
  <2>1. /\ Len(pipe) \in Nat /\ Len(pipe) >= 1 /\ Head(pipe) = pipe[1] /\ Len(pipe') = Len(pipe) - 1
        /\ DOMAIN pipe' = 1 .. Len(pipe) - 1 /\ pipe' \in Seq(Items)
        /\ \A i \in DOMAIN pipe' : pipe'[i] = pipe[i + 1]
    BY <1>0, <1>3, TailFacts
  <2>2. CASE Len(pipe) = 1
    <3>1. pipe' = <<>>
      BY <2>1, <2>2
    <3> QED BY <1>3, <2>1, <2>2, <3>1 DEF LastC
  <2>3. CASE Len(pipe) # 1
    <3>1. pipe' # <<>> /\ Len(pipe') \in DOMAIN pipe' /\ Len(pipe') + 1 = Len(pipe)
      BY <2>1, <2>3
    <3>2. pipe'[Len(pipe')] = pipe[Len(pipe)]
      BY <2>1, <3>1
    <3> QED BY <1>3, <3>1, <3>2 DEF LastC
  <2> QED BY <2>2, <2>3
<1>4. pipe # <<>> => Len(pipe) \in DOMAIN pipe
  BY <1>0
<1>5. LastC \in Cursors
  BY <1>0, <1>4, CursorFacts DEF LastC
<1> QED BY <1>1, <1>2, <1>3, <1>4, <1>5 DEF LastC

-----------------------------------------------------------------------------
(* engines with a log: the queue, the copy and the stream *)

(* No place in the queue is behind one before it, the copy comes first in  *)
(* it, and the copy in it is the one that was started last.                *)
QueueInv ==
  /\ \A i, j \in DOMAIN pipe :
       i < j => Base(pipe[i].cursor) <= Base(pipe[j].cursor) /\ (Copies(pipe[j].cursor) => pipe[i].cursor.kind = "row")
  /\ \A i \in DOMAIN pipe :
       /\ saved.kind # "none" => Base(saved) <= Base(pipe[i].cursor)
       /\ Copies(pipe[i].cursor) => pipe[i].cursor.from = from
       /\ phase = "copy" => pipe[i].cursor.kind = "row" /\ pipe[i].cursor.at < next
  /\ saved.kind = "none" => saved.key = 0
  /\ phase = "copy" => saved.kind \in {"none", "row"} /\ (saved.kind = "row" => saved.from = from /\ saved.at < next)
  /\ engine = "slot" => from = 0 /\ (Copies(saved) => saved.from = 0)

(* The copy goes on from the last row of the queue: the rows of the page are  *)
(* what comes next in the table, and what they leave out has no row.          *)
CopyInv ==
  phase = "copy" =>
    /\ LastC.kind \in {"none", "row"} /\ after = LastC.key /\ (LastC.kind = "row" => LastC.from = from)
    /\ \A r \in page : r.key > after /\ Ok(r.key, r.ver, from)
    /\ \A r, s \in page : r.key = s.key => r = s
    /\ \A k \in Keys : k > after /\ (\A r \in page : r.key # k) /\ (ended \/ \E r \in page : k < r.key)
         => Gone(k, from)

(* The stream is opened where the copy says, and reads on from the end of the *)
(* queue, or is still behind a checkpoint that it takes up again.             *)
FollowInv ==
  /\ phase = "open" => LastC.kind = "done" /\ LastC.from = from
  /\ phase = "follow" => /\ LastC.kind \in {"done", "log"} /\ pos <= Base(LastC)
                         /\ pos < Base(LastC) => pipe = <<>> /\ saved.kind = "log"

(* What the checkpoint has behind it is right in the destination. *)
SavedInv ==
  saved.kind # "none" =>
    \A k \in Keys : Right(k) \/ (saved.kind = "row" /\ k > saved.key) \/ Ch(k, Base(saved))

(* a row of the destination that the source has not, was gone when the copy *)
(* began, or goes again after the place it is followed from                 *)
Phantom(f) == \A k \in Keys : dest[k] # 0 /\ src[k] = 0 => k \in extra \/ Ch(k, f)
(* The copy leaves no row behind that its stream would not delete. *)
PhantomInv ==
  /\ Phantom(0)
  /\ saved.kind = "row" => Phantom(saved.from)
  /\ phase = "copy" \/ (\E i \in DOMAIN pipe : Copies(pipe[i].cursor)) => Phantom(from)

(* all of it *)
LogInv == hasLog => Chain /\ QueueInv /\ CopyInv /\ FollowInv /\ SavedInv /\ PhantomInv

(* The steps of an engine with a log, by what they do to the queue. *)
LEMMA QueueSteps ==
  ASSUME Types, RestInv, hasLog, [Next]_vars
  PROVE  /\ engine' = engine
         /\ \/ /\ pipe' = pipe /\ saved' = saved
               /\ \/ \E k \in Keys, del \in BOOLEAN : Change(k, del)
                  \/ Write \/ StartCopy \/ StartFollow \/ ReadPage \/ ReadFails \/ Open \/ UNCHANGED vars
            \/ Checkpoint \/ HandRow \/ Copied \/ Follow
            \/ (GivesUp \/ Crash) /\ pipe' = <<>> /\ saved' = saved
<1>1. CASE \E k \in Keys, del \in BOOLEAN : Change(k, del)
  BY <1>1, ChangeLeaves
<1>2. ASSUME Works \/ ReadFails \/ GivesUp \/ Crash \/ UNCHANGED vars PROVE engine' = engine
  BY <1>2, BridgeLeaves
<1>3. CASE Write \/ StartCopy \/ StartFollow
  BY <1>2, <1>3 DEF Write, StartCopy, StartFollow, Works
<1>4. CASE ReadPage \/ ReadFails \/ Open \/ UNCHANGED vars
  BY <1>2, <1>4 DEF ReadPage, ReadFails, Open, vars, Works
<1>5. CASE GivesUp \/ Crash
  BY <1>2, <1>5 DEF GivesUp, Crash, Dropped
<1>6. CASE Hold \/ Overflow \/ HandHeld
  BY <1>6 DEF Hold, Overflow, HandHeld, RestInv
<1>7. CASE Checkpoint \/ HandRow \/ Copied \/ Follow
  BY <1>2, <1>7 DEF Works
<1> QED BY <1>1, <1>3, <1>4, <1>5, <1>6, <1>7 DEF Next, Works

(* The rows of a page are rows. *)
LEMMA PageFacts ==
  ASSUME Types
  PROVE  /\ after \in Nat
         /\ \A r \in page : /\ r.key \in Keys /\ r.key \in {0} \union Keys /\ r.key \in Nat /\ r.key # Notice
                            /\ r.ver \in 0 .. MaxLog + 1
<1>1. /\ page \subseteq RowType /\ after \in {0} \union Keys
      /\ 0 \notin Keys /\ Keys \subseteq Nat /\ MaxLog \in Nat
  BY ConstFacts DEF Types, StreamType
<1>2. \A r \in RowType : r.key \in Keys /\ r.ver \in 1 .. MaxLog + 1
  BY DEF RowType
<1>3. \A v \in 1 .. MaxLog + 1 : v \in 0 .. MaxLog + 1
  BY <1>1
<1>4. after \in Nat
  BY <1>1
<1>5. \A k \in Keys : k \in {0} \union Keys /\ k \in Nat /\ k # Notice
  BY <1>1 DEF Notice
<1> QED BY <1>1, <1>2, <1>3, <1>4, <1>5

(* A row is handed over after the last one, and its cursor is accepted. *)
LEMMA RowAppends ==
  ASSUME Types, PlaceInv, QueueInv, CopyInv, HandRow
  PROVE  \E x \in Items, r \in page :
           /\ pipe' = Append(pipe, x) /\ Follows(LastC, x) /\ Base(x.cursor) = from /\ from <= Len(log)
           /\ x.cursor.kind = "row" /\ x.cursor.from = from /\ x.cursor.at = next
           /\ x.cursor.key = r.key /\ after' = r.key /\ page' = page \ {r}
           /\ \A s \in page : r.key <= s.key
<1>1. PICK r \in page :
         /\ \A s \in page : r.key <= s.key
         /\ pipe' = Accepted(Item(r.key, r.ver, RowCursor(next, r.key, from)))
         /\ after' = r.key /\ page' = page \ {r}
  BY DEF HandRow
<1>2. /\ next \in Nat /\ from \in Nat /\ Len(log) \in Nat /\ from <= Len(log) /\ saved \in Cursors
      /\ pipe \in Seq(Items) /\ page \subseteq RowType
  BY DEF Types, SourceType, TargetType, StreamType, PipeType
<1>3. r.key \in Keys /\ r.key \in {0} \union Keys /\ r.ver \in 0 .. MaxLog + 1 /\ r.key # Notice /\ r.key \in Nat
  BY PageFacts
<1>4. PICK c : c = RowCursor(next, r.key, from)
  OBVIOUS
<1>5. c \in Cursors /\ c.kind = "row" /\ c.at = next /\ c.key = r.key /\ c.from = from
  BY <1>2, <1>3, <1>4, CursorTypes, SMTT(60)
<1>6. PICK x : x = Item(r.key, r.ver, c)
  OBVIOUS
<1>7. x \in Items
  BY <1>3, <1>5, <1>6, ItemType, Zenon
<1>8. x.key = r.key /\ x.ver = r.ver /\ x.cursor = c
  BY <1>6 DEF Item
<1>9. phase = "copy"
  BY DEF HandRow
<1>10. CursorAfter(c, saved)
  <2>1. saved.kind \in {"none", "row"} /\ (saved.kind = "row" => saved.at < next)
    BY <1>9 DEF QueueInv
  <2>2. saved.at \in Nat
    BY <1>2, CursorFacts
  <2> QED BY <1>2, <1>5, <2>1, <2>2 DEF CursorAfter, Copies
<1>11. pipe' = Append(pipe, x)
  BY <1>1, <1>4, <1>6, <1>8, <1>10 DEF Accepted
<1>12. RowLink(LastC, x)
  <2>1. /\ LastC.kind \in {"none", "row"} /\ after = LastC.key /\ (LastC.kind = "row" => LastC.from = from)
        /\ r.key > after
        /\ \A k \in Keys : k > after /\ (\A s \in page : s.key # k) /\ (ended \/ \E s \in page : k < s.key)
             => Gone(k, from)
    BY <1>9 DEF CopyInv
  <2>2. after \in Nat /\ \A s \in page : s.key \in Nat
    BY PageFacts
  <2>3. ASSUME NEW k \in Keys, after < k, k < r.key PROVE Gone(k, from)
    <3>1. k \in Nat
      BY ConstFacts
    <3>2. \A s \in page : s.key # k
      BY <1>1, <1>3, <2>2, <2>3, <3>1
    <3> QED BY <2>1, <2>2, <2>3, <3>1, <3>2
  <2> QED BY <1>3, <1>5, <1>8, <2>1, <2>2, <2>3 DEF RowLink
<1>13. Base(x.cursor) = from
  BY <1>5, <1>8 DEF Base
<1>14. Ok(x.key, x.ver, Base(x.cursor))
  BY <1>8, <1>9, <1>13 DEF CopyInv
<1>15. Follows(LastC, x)
  BY <1>12, <1>14 DEF Follows
<1> QED BY <1>1, <1>2, <1>5, <1>7, <1>8, <1>11, <1>13, <1>15

(* The end of the copy goes after its last row. *)
LEMMA DoneAppends ==
  ASSUME Types, PlaceInv, QueueInv, CopyInv, Copied
  PROVE  \E x \in Items :
           /\ pipe' = Append(pipe, x) /\ Follows(LastC, x) /\ Base(x.cursor) = from /\ from <= Len(log)
           /\ x.cursor.kind = "done" /\ x.cursor.from = from
<1>1. pipe' = Accepted(Item(Notice, 0, DoneCursor(next, from))) /\ phase = "copy" /\ page = {} /\ ended
  BY DEF Copied
<1>2. /\ next \in Nat /\ from \in Nat /\ Len(log) \in Nat /\ from <= Len(log) /\ saved \in Cursors
      /\ pipe \in Seq(Items) /\ after \in {0} \union Keys
  BY DEF Types, SourceType, TargetType, StreamType, PipeType
<1>3. Notice \in {0} \union Keys /\ 0 \in 0 .. MaxLog + 1
  BY ConstFacts DEF Notice
<1>4. PICK c : c = DoneCursor(next, from)
  OBVIOUS
<1>5. c \in Cursors /\ c.kind = "done" /\ c.at = next /\ c.from = from
  BY <1>2, <1>4, CursorTypes
<1>6. PICK x : x = Item(Notice, 0, c)
  OBVIOUS
<1>7. x \in Items
  BY <1>3, <1>5, <1>6, ItemType, Zenon
<1>8. x.key = Notice /\ x.cursor = c
  BY <1>6 DEF Item
<1>10. CursorAfter(c, saved)
  <2>1. saved.kind \in {"none", "row"} /\ (saved.kind = "row" => saved.at < next)
    BY <1>1 DEF QueueInv
  <2>2. saved.at \in Nat
    BY <1>2, CursorFacts
  <2> QED BY <1>2, <1>5, <2>1, <2>2 DEF CursorAfter, Copies
<1>11. pipe' = Append(pipe, x)
  BY <1>1, <1>4, <1>6, <1>8, <1>10 DEF Accepted
<1>12. DoneLink(LastC, x)
  <2>1. /\ LastC.kind \in {"none", "row"} /\ after = LastC.key /\ (LastC.kind = "row" => LastC.from = from)
        /\ \A k \in Keys : k > after => Gone(k, from)
    BY <1>1 DEF CopyInv
  <2>2. \A k \in Keys : after < k => k > after
    BY <1>2, ConstFacts
  <2> QED BY <1>5, <1>8, <2>1, <2>2 DEF DoneLink
<1>13. Base(x.cursor) = from
  BY <1>5, <1>8 DEF Base
<1>15. Follows(LastC, x)
  BY <1>8, <1>12 DEF Follows
<1> QED BY <1>2, <1>5, <1>7, <1>8, <1>11, <1>13, <1>15

(* A change is put in its place, or was delivered before the checkpoint. *)
LEMMA LogAppends ==
  ASSUME Types, PlaceInv, SrcInv, hasLog, QueueInv, FollowInv, Follow
  PROVE  /\ pos < Len(log) /\ pos' = pos + 1
         /\ \/ pipe' = pipe /\ pipe = <<>> /\ saved.kind = "log" /\ pos < Base(saved)
            \/ \E x \in Items :
                 /\ pipe' = Append(pipe, x) /\ Follows(LastC, x) /\ Base(x.cursor) = pos + 1
                 /\ x.cursor.kind = "log" /\ Base(LastC) = pos
<1>1. /\ pos < Len(log) /\ pos' = pos + 1 /\ pipe' = Accepted(Heard(pos + 1)) /\ phase = "follow"
  BY DEF Follow
<1>2. /\ pos \in Nat /\ Len(log) \in Nat /\ saved \in Cursors /\ pipe \in Seq(Items)
      /\ DOMAIN log = 1 .. Len(log) /\ pos + 1 \in 1 .. Len(log)
  BY <1>1 DEF Types, SourceType, TargetType, StreamType, PipeType
<1>3. PICK x : x = Heard(pos + 1)
  OBVIOUS
<1>4. x \in Items /\ x.key \in Keys /\ x.key = log[pos + 1].key /\ x.cursor = LogCursor(pos + 1)
  BY <1>2, <1>3, HeardType DEF Types
<1>5. x.cursor.kind = "log" /\ x.cursor.at = pos + 1 /\ Base(x.cursor) = pos + 1
  BY <1>2, <1>4, CursorTypes DEF Base
<1>6. LastC.kind \in {"done", "log"} /\ pos <= Base(LastC) /\ Base(LastC) \in Nat
      /\ (pos < Base(LastC) => pipe = <<>> /\ saved.kind = "log")
  BY <1>1, LastFacts, CursorFacts DEF FollowInv
<1>7. saved.kind \in {"none", "row", "done", "log"} /\ saved.at \in Nat
  BY <1>2, CursorFacts
<1>8. CASE pos < Base(LastC)
  <2>1. pipe = <<>> /\ saved.kind = "log" /\ LastC = saved
    BY <1>6, <1>8, LastFacts
  <2>2. ~(pos + 1 > saved.at)
    BY <1>2, <1>7, <1>8, <2>1 DEF Base
  <2>3. ~CursorAfter(x.cursor, saved)
    BY <1>5, <2>1, <2>2 DEF CursorAfter, Copies
  <2>4. pipe' = pipe
    BY <1>1, <1>3, <2>3 DEF Accepted
  <2> QED BY <1>1, <1>8, <2>1, <2>4
<1>9. CASE ~(pos < Base(LastC))
  <2>1. Base(LastC) = pos
    BY <1>2, <1>6, <1>9
  <2>2. saved.kind = "log" => pos + 1 > saved.at
    <3>1. CASE pipe = <<>>
      BY <1>2, <1>7, <2>1, <3>1, LastFacts DEF Base
    <3>2. CASE pipe # <<>>
      <4>1. Len(pipe) \in DOMAIN pipe /\ LastC = pipe[Len(pipe)].cursor
        BY <3>2, LastFacts
      <4>2. saved.kind = "log" => Base(saved) <= pos
        BY <2>1, <4>1 DEF QueueInv
      <4> QED BY <1>2, <1>7, <4>2 DEF Base
    <3> QED BY <3>1, <3>2
  <2>3. CursorAfter(x.cursor, saved)
    BY <1>5, <1>7, <2>2 DEF CursorAfter, Copies
  <2>4. pipe' = Append(pipe, x)
    BY <1>1, <1>3, <2>3 DEF Accepted
  <2>5. LogLink(LastC, x)
    BY <1>2, <1>4, <1>5, <1>6, <2>1 DEF LogLink
  <2>6. Ok(x.key, x.ver, Base(x.cursor))
    BY <1>2, <1>3, <1>5, HeardOk
  <2>7. Follows(LastC, x)
    BY <2>5, <2>6 DEF Follows
  <2> QED BY <1>1, <1>4, <1>5, <2>1, <2>4, <2>7
<1> QED BY <1>8, <1>9

(* Every step keeps the chain. *)
LEMMA ChainNext ==
  ASSUME Types, PlaceInv, RestInv, SrcInv, hasLog, Chain, QueueInv, CopyInv, FollowInv, [Next]_vars
  PROVE  Chain'
<1>1. CASE pipe' = pipe /\ saved' = saved
  BY <1>1, ChainSame
<1>2. CASE Checkpoint
  <2>1. pipe # <<>> /\ pipe' = Tail(pipe) /\ saved' = Head(pipe).cursor
    BY <1>2 DEF Checkpoint, PlaceInv
  <2> QED BY <2>1, ChainLess
<1>3. CASE HandRow
  <2>1. PICK x \in Items : pipe' = Append(pipe, x) /\ Follows(LastC, x) /\ Base(x.cursor) <= Len(log)
    BY <1>3, RowAppends
  <2>2. saved' = saved
    BY <1>3 DEF HandRow
  <2> QED BY <2>1, <2>2, ChainMore
<1>4. CASE Copied
  <2>1. PICK x \in Items : pipe' = Append(pipe, x) /\ Follows(LastC, x) /\ Base(x.cursor) <= Len(log)
    BY <1>4, DoneAppends
  <2>2. saved' = saved
    BY <1>4 DEF Copied
  <2> QED BY <2>1, <2>2, ChainMore
<1>5. CASE Follow
  <2>1. saved' = saved
    BY <1>5 DEF Follow
  <2>2. CASE pipe' = pipe
    BY <1>1, <2>1, <2>2
  <2>3. CASE pipe' # pipe
    <3>1. PICK x \in Items : pipe' = Append(pipe, x) /\ Follows(LastC, x) /\ Base(x.cursor) = pos + 1
      BY <1>5, <2>3, LogAppends
    <3>2. pos + 1 <= Len(log)
      BY <1>5 DEF Follow, Types, SourceType, StreamType
    <3> QED BY <2>1, <3>1, <3>2, ChainMore
  <2> QED BY <2>2, <2>3
<1>6. CASE pipe' = <<>>
  BY <1>6 DEF Chain
<1> QED BY <1>1, <1>2, <1>3, <1>4, <1>5, <1>6, QueueSteps

(* What the queue's facts need of a step that leaves it, adds to it, takes *)
(* its head or empties it.                                                 *)
LEMMA QueueFrame ==
  ASSUME Types, QueueInv, engine' = engine
  PROVE  /\ /\ pipe' = pipe /\ saved' = saved /\ from' = from /\ next' = next /\ (phase' = "copy" => phase = "copy")
            => QueueInv'
         /\ \A x \in Items :
              /\ pipe' = Append(pipe, x) /\ saved' = saved /\ from' = from
              /\ saved.kind # "none" => Base(saved) <= Base(x.cursor)
              /\ \A i \in DOMAIN pipe : Base(pipe[i].cursor) <= Base(x.cursor)
              /\ Copies(x.cursor) => x.cursor.from = from /\ \A i \in DOMAIN pipe : pipe[i].cursor.kind = "row"
              /\ phase' = "copy" => phase = "copy" /\ x.cursor.kind = "row" /\ next' = next + 1 /\ x.cursor.at = next
              => QueueInv'
         /\ /\ pipe # <<>> /\ pipe' = Tail(pipe) /\ saved' = Head(pipe).cursor /\ from' = from /\ next' = next
            /\ phase' = phase /\ saved'.kind # "none"
            => QueueInv'
<1>0. /\ pipe \in Seq(Items) /\ next \in Nat /\ saved \in Cursors /\ saved.at \in Nat
      /\ \A i \in DOMAIN pipe : pipe[i].cursor.at \in Nat
  <2>1. pipe \in Seq(Items) /\ next \in Nat /\ saved \in Cursors
    BY DEF Types, TargetType, StreamType, PipeType
  <2>2. \A i \in DOMAIN pipe : pipe[i] \in Items
    BY <2>1
  <2> QED BY <2>1, <2>2, CursorFacts
<1>1. ASSUME pipe' = pipe, saved' = saved, from' = from, next' = next, phase' = "copy" => phase = "copy"
      PROVE  QueueInv'
  BY <1>1 DEF QueueInv
<1>2. ASSUME NEW x \in Items, pipe' = Append(pipe, x), saved' = saved, from' = from,
             saved.kind # "none" => Base(saved) <= Base(x.cursor),
             \A i \in DOMAIN pipe : Base(pipe[i].cursor) <= Base(x.cursor),
             Copies(x.cursor) => x.cursor.from = from /\ \A i \in DOMAIN pipe : pipe[i].cursor.kind = "row",
             phase' = "copy" => phase = "copy" /\ x.cursor.kind = "row" /\ next' = next + 1 /\ x.cursor.at = next
      PROVE  QueueInv'
  <2>1. /\ Len(pipe) \in Nat /\ DOMAIN pipe = 1 .. Len(pipe) /\ DOMAIN pipe' = 1 .. Len(pipe) + 1
        /\ \A i \in DOMAIN pipe : pipe'[i] = pipe[i]
        /\ pipe'[Len(pipe) + 1] = x
    BY <1>0, <1>2, AppendFacts
  <2>2. ASSUME NEW i \in DOMAIN pipe', NEW j \in DOMAIN pipe', i < j
        PROVE  Base(pipe'[i].cursor) <= Base(pipe'[j].cursor) /\ (Copies(pipe'[j].cursor) => pipe'[i].cursor.kind = "row")
    <3>1. i \in DOMAIN pipe /\ pipe'[i] = pipe[i]
      BY <2>1, <2>2
    <3>2. CASE j \in DOMAIN pipe
      BY <2>1, <2>2, <3>1, <3>2 DEF QueueInv
    <3>3. CASE j \notin DOMAIN pipe
      <4>1. pipe'[j] = x
        BY <2>1, <3>3
      <4> QED BY <1>2, <3>1, <4>1
    <3> QED BY <3>2, <3>3
  <2>3. ASSUME NEW i \in DOMAIN pipe'
        PROVE  /\ saved.kind # "none" => Base(saved) <= Base(pipe'[i].cursor)
               /\ Copies(pipe'[i].cursor) => pipe'[i].cursor.from = from
               /\ phase' = "copy" => pipe'[i].cursor.kind = "row" /\ pipe'[i].cursor.at < next'
    <3>1. CASE i \in DOMAIN pipe
      <4>1. /\ pipe'[i] = pipe[i] /\ pipe[i].cursor.at \in Nat
            /\ saved.kind # "none" => Base(saved) <= Base(pipe[i].cursor)
            /\ Copies(pipe[i].cursor) => pipe[i].cursor.from = from
            /\ phase = "copy" => pipe[i].cursor.kind = "row" /\ pipe[i].cursor.at < next
        BY <1>0, <2>1, <3>1 DEF QueueInv
      <4>2. phase' = "copy" => pipe[i].cursor.at < next'
        BY <1>0, <1>2, <4>1
      <4> QED BY <1>2, <4>1, <4>2
    <3>2. CASE i \notin DOMAIN pipe
      <4>1. pipe'[i] = x
        BY <2>1, <3>2
      <4>2. phase' = "copy" => x.cursor.at < next'
        BY <1>0, <1>2
      <4> QED BY <1>2, <4>1, <4>2
    <3> QED BY <3>1, <3>2
  <2>4. phase' = "copy" => saved.kind \in {"none", "row"} /\ (saved.kind = "row" => saved.from = from /\ saved.at < next')
    <3>1. phase' = "copy" => saved.kind \in {"none", "row"} /\ (saved.kind = "row" => saved.from = from /\ saved.at < next)
      BY <1>2 DEF QueueInv
    <3> QED BY <1>0, <1>2, <3>1
  <2>5. (saved.kind = "none" => saved.key = 0) /\ (engine = "slot" => from = 0 /\ (Copies(saved) => saved.from = 0))
    BY DEF QueueInv
  <2>6. saved' = saved /\ from' = from
    BY <1>2
  <2> QED BY <2>2, <2>3, <2>4, <2>5, <2>6 DEF QueueInv
<1>3. ASSUME pipe # <<>>, pipe' = Tail(pipe), saved' = Head(pipe).cursor, from' = from, next' = next,
             phase' = phase, saved'.kind # "none"
      PROVE  QueueInv'
  <2>1. /\ Head(pipe) = pipe[1] /\ 1 \in DOMAIN pipe /\ Len(pipe) \in Nat
        /\ DOMAIN pipe = 1 .. Len(pipe) /\ DOMAIN pipe' = 1 .. Len(pipe) - 1
        /\ \A i \in DOMAIN pipe' : i \in Nat /\ i + 1 \in DOMAIN pipe /\ pipe'[i] = pipe[i + 1]
    BY <1>0, <1>3, TailFacts
  <2>2. ASSUME NEW i \in DOMAIN pipe', NEW j \in DOMAIN pipe', i < j
        PROVE  Base(pipe'[i].cursor) <= Base(pipe'[j].cursor) /\ (Copies(pipe'[j].cursor) => pipe'[i].cursor.kind = "row")
    <3>1. i + 1 \in DOMAIN pipe /\ j + 1 \in DOMAIN pipe /\ i + 1 < j + 1 /\ pipe'[i] = pipe[i + 1] /\ pipe'[j] = pipe[j + 1]
      BY <2>1, <2>2
    <3> QED BY <3>1 DEF QueueInv
  <2>3. ASSUME NEW i \in DOMAIN pipe'
        PROVE  /\ saved'.kind # "none" => Base(saved') <= Base(pipe'[i].cursor)
               /\ Copies(pipe'[i].cursor) => pipe'[i].cursor.from = from
               /\ phase = "copy" => pipe'[i].cursor.kind = "row" /\ pipe'[i].cursor.at < next
    <3>1. i + 1 \in DOMAIN pipe /\ 1 < i + 1 /\ pipe'[i] = pipe[i + 1]
      <4>1. i \in 1 .. Len(pipe) - 1
        BY <2>1
      <4> QED BY <2>1, <4>1
    <3>2. Base(pipe[1].cursor) <= Base(pipe[i + 1].cursor)
      BY <2>1, <3>1 DEF QueueInv
    <3>3. Base(saved') <= Base(pipe'[i].cursor)
      BY <1>3, <2>1, <3>1, <3>2
    <3> QED BY <3>1, <3>3 DEF QueueInv
  <2>4. phase = "copy" => saved'.kind \in {"none", "row"} /\ (saved'.kind = "row" => saved'.from = from /\ saved'.at < next)
    BY <1>3, <2>1 DEF QueueInv, Copies
  <2>5. engine = "slot" => from = 0 /\ (Copies(saved') => saved'.from = 0)
    BY <1>3, <2>1 DEF QueueInv
  <2>6. saved'.kind # "none" /\ phase' = phase /\ from' = from /\ next' = next
    BY <1>3
  <2> QED BY <2>2, <2>3, <2>4, <2>5, <2>6 DEF QueueInv
<1> QED BY <1>1, <1>2, <1>3

(* Every step keeps what the queue says of its places. *)
LEMMA QueueNext ==
  ASSUME Types, PlaceInv, RestInv, SrcInv, hasLog, Chain, QueueInv, CopyInv, FollowInv, [Next]_vars
  PROVE  QueueInv'
<1>0. engine' = engine /\ pipe \in Seq(Items) /\ from \in Nat /\ saved \in Cursors
  BY QueueSteps DEF Types, SourceType, TargetType, StreamType, PipeType
<1>1. CASE \E k \in Keys, del \in BOOLEAN : Change(k, del)
  <2>1. pipe' = pipe /\ saved' = saved /\ from' = from /\ next' = next /\ phase' = phase
    BY <1>1, ChangeLeaves
  <2> QED BY <1>0, <2>1, QueueFrame
<1>2. CASE Write \/ StartFollow \/ ReadPage \/ ReadFails
  <2>1. pipe' = pipe /\ saved' = saved /\ from' = from /\ next' = next /\ (phase' = "copy" => phase = "copy")
    <3>1. CASE Write \/ StartFollow
      BY <3>1 DEF Write, StartFollow, copyVars
    <3>2. CASE ReadPage \/ ReadFails
      BY <3>2 DEF ReadPage, ReadFails
    <3> QED BY <1>2, <3>1, <3>2
  <2> QED BY <1>0, <2>1, QueueFrame
<1>3. CASE Open \/ UNCHANGED vars
  <2>1. pipe' = pipe /\ saved' = saved /\ from' = from /\ next' = next /\ (phase' = "copy" => phase = "copy")
    BY <1>3 DEF Open, vars, copyVars
  <2> QED BY <1>0, <2>1, QueueFrame
<1>4. CASE StartCopy
  <2>1. pipe' = <<>> /\ saved' = saved /\ phase' = "copy" /\ saved.kind \in {"none", "row"}
    BY <1>4 DEF StartCopy, RestInv
  <2>2. saved.kind = "row" => from' = saved.from /\ next' = saved.at + 1
    BY <1>4 DEF StartCopy, Fresh
  <2>3. saved.kind # "row" => from' = Captured
    BY <1>4 DEF StartCopy, Fresh
  <2>4. engine = "slot" => from' = 0
    <3>1. engine = "slot" => Captured = 0
      BY DEF Captured
    <3>2. engine = "slot" /\ saved.kind = "row" => saved.from = 0
      BY DEF QueueInv, Copies
    <3> QED BY <2>2, <2>3, <3>1, <3>2
  <2>5. saved.at < saved.at + 1
    BY <1>0, CursorFacts
  <2> QED BY <1>0, <2>1, <2>2, <2>4, <2>5 DEF QueueInv
<1>5. CASE Checkpoint
  <2>1. /\ pipe # <<>> /\ pipe' = Tail(pipe) /\ saved' = Head(pipe).cursor /\ from' = from /\ next' = next
        /\ phase' = phase
    BY <1>5 DEF Checkpoint, PlaceInv, copyVars
  <2>2. Head(pipe) = pipe[1] /\ 1 \in DOMAIN pipe
    BY <1>0, <2>1, TailFacts
  <2>3. Head(pipe).cursor.kind # "none"
    <3>1. Follows(Before(1), pipe[1])
      BY <2>2 DEF Chain
    <3> QED BY <2>2, <3>1 DEF Follows, RowLink, DoneLink, LogLink
  <2> QED BY <1>0, <2>1, <2>3, QueueFrame
<1>6. CASE HandRow \/ Copied
  <2>1. PICK x \in Items :
           /\ pipe' = Append(pipe, x) /\ Base(x.cursor) = from /\ x.cursor.from = from
           /\ HandRow => x.cursor.kind = "row" /\ x.cursor.at = next
    <3>1. CASE HandRow
      BY <3>1, RowAppends
    <3>2. CASE ~HandRow
      BY <1>6, <3>2, DoneAppends
    <3> QED BY <3>1, <3>2
  <2>2. phase = "copy" /\ saved' = saved /\ from' = from /\ (phase' = "copy" => HandRow /\ next' = next + 1)
    BY <1>6 DEF HandRow, Copied, copyVars
  <2>3. \A i \in DOMAIN pipe : pipe[i].cursor.kind = "row" /\ Base(pipe[i].cursor) = from
    BY <2>2 DEF QueueInv, Copies, Base
  <2>4. saved.kind # "none" => Base(saved) = from
    BY <2>2 DEF QueueInv, Base
  <2>5. \A i \in DOMAIN pipe : Base(pipe[i].cursor) <= Base(x.cursor)
    BY <1>0, <2>1, <2>3
  <2>6. saved.kind # "none" => Base(saved) <= Base(x.cursor)
    BY <1>0, <2>1, <2>4
  <2> QED BY <1>0, <2>1, <2>2, <2>3, <2>5, <2>6, QueueFrame
<1>7. CASE Follow
  <2>1. saved' = saved /\ from' = from /\ next' = next /\ phase' = phase /\ phase = "follow"
    BY <1>7 DEF Follow, copyVars
  <2>2. CASE pipe' = pipe
    BY <1>0, <2>1, <2>2, QueueFrame
  <2>3. CASE pipe' # pipe
    <3>1. PICK x \in Items :
             /\ pipe' = Append(pipe, x) /\ Base(x.cursor) = pos + 1 /\ x.cursor.kind = "log" /\ Base(LastC) = pos
      BY <1>7, <2>3, LogAppends
    <3>2. pos \in Nat /\ pos <= pos + 1
      BY DEF Types, StreamType, SourceType
    <3>3. \A i \in DOMAIN pipe : Base(pipe[i].cursor) <= pos
      <4> SUFFICES ASSUME NEW i \in DOMAIN pipe PROVE Base(pipe[i].cursor) <= pos
        OBVIOUS
      <4>1. pipe # <<>> /\ DOMAIN pipe = 1 .. Len(pipe) /\ Len(pipe) \in Nat
        BY <1>0
      <4>2. Len(pipe) \in DOMAIN pipe /\ LastC = pipe[Len(pipe)].cursor
        BY <4>1, LastFacts
      <4>3. CASE i = Len(pipe)
        BY <3>1, <3>2, <4>2, <4>3
      <4>4. CASE i # Len(pipe)
        <5>1. i < Len(pipe)
          BY <4>1, <4>4
        <5>2. Base(pipe[i].cursor) <= Base(pipe[Len(pipe)].cursor)
          BY <4>2, <5>1 DEF QueueInv
        <5> QED BY <3>1, <4>2, <5>2
      <4> QED BY <4>3, <4>4
    <3>4. saved.kind # "none" => Base(saved) <= pos
      <4>1. CASE pipe = <<>>
        BY <3>1, <3>2, <4>1, LastFacts
      <4>2. CASE pipe # <<>>
        <5>1. Len(pipe) \in DOMAIN pipe /\ LastC = pipe[Len(pipe)].cursor
          BY <4>2, LastFacts
        <5> QED BY <3>1, <5>1 DEF QueueInv
      <4> QED BY <4>1, <4>2
    <3>5. Base(saved) \in Nat /\ \A i \in DOMAIN pipe : Base(pipe[i].cursor) \in Nat
      <4>1. \A i \in DOMAIN pipe : pipe[i] \in Items
        BY <1>0
      <4> QED BY <1>0, <4>1, CursorFacts
    <3>6. \A i \in DOMAIN pipe : Base(pipe[i].cursor) <= Base(x.cursor)
      BY <3>1, <3>2, <3>3, <3>5
    <3>7. saved.kind # "none" => Base(saved) <= Base(x.cursor)
      BY <3>1, <3>2, <3>4, <3>5
    <3> QED BY <1>0, <2>1, <3>1, <3>6, <3>7, QueueFrame DEF Copies
  <2> QED BY <2>2, <2>3
<1>8. CASE GivesUp \/ Crash
  <2>1. pipe' = <<>> /\ saved' = saved /\ from' = from /\ phase' # "copy"
    BY <1>8 DEF GivesUp, Crash, Dropped
  <2> QED BY <1>0, <2>1 DEF QueueInv
<1> QED BY <1>1, <1>2, <1>3, <1>4, <1>5, <1>6, <1>7, <1>8, QueueSteps

(* Every step of the copy keeps its place in the table. *)
LEMMA CopyNext ==
  ASSUME Types, PlaceInv, RestInv, SrcInv, hasLog, Chain, QueueInv, CopyInv, FollowInv, [Next]_vars
  PROVE  CopyInv'
<1>0. from \in Nat /\ from <= Len(log) /\ next \in Nat /\ src \in [Keys -> 0 .. MaxLog + 1]
  BY DEF Types, SourceType, StreamType
<1>b. ASSUME NEW f, f = from, NEW k \in Keys
      PROVE  /\ Gone(k, f) => Gone(k, f)'
             /\ \A v : Ok(k, v, f) => Ok(k, v, f)'
  BY <1>0, <1>b, OkStays
<1>c. ASSUME phase' = "copy" => phase = "copy",
             LastC' = LastC, after' = after, from' = from, page' = page, ended' = ended
      PROVE  CopyInv'
  <2> SUFFICES ASSUME phase = "copy"
               PROVE /\ LastC.kind \in {"none", "row"} /\ after = LastC.key /\ (LastC.kind = "row" => LastC.from = from)
                     /\ \A r \in page : r.key > after /\ Ok(r.key, r.ver, from)'
                     /\ \A r, s \in page : r.key = s.key => r = s
                     /\ \A k \in Keys : k > after /\ (\A r \in page : r.key # k) /\ (ended \/ \E r \in page : k < r.key)
                          => Gone(k, from)'
    BY <1>c DEF CopyInv
  <2>1. PICK f : f = from
    OBVIOUS
  <2>2. ASSUME NEW r \in page PROVE r.key > after /\ Ok(r.key, r.ver, from)'
    <3>1. r.key \in Keys /\ r.key > after /\ Ok(r.key, r.ver, f)
      BY <2>1, PageFacts DEF CopyInv
    <3>2. Ok(r.key, r.ver, f)'
      BY <1>b, <2>1, <3>1
    <3> QED BY <1>c, <2>1, <3>1, <3>2
  <2>3. ASSUME NEW k \in Keys, k > after, \A r \in page : r.key # k, ended \/ \E r \in page : k < r.key
        PROVE  Gone(k, from)'
    <3>1. Gone(k, f)
      BY <2>1, <2>3 DEF CopyInv
    <3>2. Gone(k, f)'
      BY <1>b, <2>1, <3>1
    <3> QED BY <1>c, <2>1, <3>2
  <2> QED BY <2>2, <2>3 DEF CopyInv
<1>1. CASE \E k \in Keys, del \in BOOLEAN : Change(k, del)
  <2>1. /\ phase' = phase /\ after' = after /\ from' = from /\ page' = page /\ ended' = ended
        /\ pipe' = pipe /\ saved' = saved
    BY <1>1, ChangeLeaves
  <2> QED BY <1>c, <2>1, LastFacts
<1>2. CASE Write \/ UNCHANGED vars
  <2>1. /\ phase' = phase /\ after' = after /\ from' = from /\ page' = page /\ ended' = ended
        /\ pipe' = pipe /\ saved' = saved
    BY <1>2 DEF Write, vars, copyVars
  <2> QED BY <1>c, <2>1, LastFacts
<1>3. CASE Checkpoint
  <2>1. /\ phase' = phase /\ after' = after /\ from' = from /\ page' = page /\ ended' = ended
        /\ pipe # <<>> /\ pipe' = Tail(pipe) /\ saved' = Head(pipe).cursor
    BY <1>3 DEF Checkpoint, PlaceInv, copyVars
  <2> QED BY <1>c, <2>1, LastFacts
<1>4. CASE StartCopy
  <2>1. pipe = <<>> /\ pipe' = pipe /\ saved' = saved /\ page' = {} /\ ~ended' /\ saved.kind \in {"none", "row"}
    BY <1>4 DEF StartCopy, RestInv, Fresh
  <2>2. LastC' = saved
    BY <2>1, LastFacts
  <2>3. saved.kind = "row" => from' = saved.from /\ after' = saved.key
    BY <1>4 DEF StartCopy, Fresh
  <2>4. saved.kind = "none" => after' = 0 /\ saved.key = 0
    BY <1>4 DEF StartCopy, Fresh, QueueInv
  <2> QED BY <2>1, <2>2, <2>3, <2>4 DEF CopyInv
<1>5. CASE ReadPage
  <2>1. PICK S \in SUBSET RowsAfter(after) :
           /\ \A i \in S : \A j \in RowsAfter(after) \ S : i < j
           /\ page' = {[key |-> i, ver |-> src[i]] : i \in S}
           /\ ended' = (S = RowsAfter(after))
    BY <1>5 DEF ReadPage
  <2>2. /\ phase = "copy" /\ phase' = phase /\ after' = after /\ from' = from /\ pipe' = pipe /\ saved' = saved
        /\ src' = src /\ log' = log
    BY <1>5 DEF ReadPage, sourceVars
  <2>3. LastC' = LastC
    BY <2>2, LastFacts
  <2>4. \A r \in page' : r.key \in S /\ r.key > after /\ r.ver = src[r.key] /\ r = [key |-> r.key, ver |-> src[r.key]]
    BY <2>1 DEF RowsAfter
  <2>5. \A r \in page' : Ok(r.key, r.ver, from)'
    BY <2>2, <2>4 DEF Ok
  <2>6. \A r, s \in page' : r.key = s.key => r = s
    BY <2>4
  <2>7. ASSUME NEW k \in Keys, k > after, \A r \in page' : r.key # k, ended' \/ \E r \in page' : k < r.key
        PROVE  Gone(k, from)'
    <3>1. k \notin S
      <4>1. ASSUME k \in S PROVE FALSE
        <5>1. [key |-> k, ver |-> src[k]] \in page'
          BY <2>1, <4>1
        <5> QED BY <2>7, <5>1
      <4> QED BY <4>1
    <3>2. k \notin RowsAfter(after)
      <4>1. CASE ended'
        BY <2>1, <3>1, <4>1
      <4>2. CASE \E r \in page' : k < r.key
        <5>1. PICK i \in S : k < i
          BY <2>4, <4>2
        <5>2. k \in RowsAfter(after) => i < k
          BY <2>1, <3>1
        <5>3. i \in Nat /\ k \in Nat
          BY ConstFacts DEF RowsAfter
        <5> QED BY <5>1, <5>2, <5>3
      <4> QED BY <2>7, <4>1, <4>2
    <3>3. src[k] = 0
      BY <2>7, <3>2 DEF RowsAfter
    <3> QED BY <2>2, <3>3 DEF Gone
  <2>8. LastC.kind \in {"none", "row"} /\ after = LastC.key /\ (LastC.kind = "row" => LastC.from = from)
    BY <2>2 DEF CopyInv
  <2>9. \A r \in page' : r.key > after'
    BY <2>2, <2>4
  <2>10. \A k \in Keys : k > after' /\ (\A r \in page' : r.key # k) /\ (ended' \/ \E r \in page' : k < r.key)
           => Gone(k, from)'
    BY <2>2, <2>7
  <2>11. LastC'.kind \in {"none", "row"} /\ after' = LastC'.key /\ (LastC'.kind = "row" => LastC'.from = from')
    BY <2>2, <2>3, <2>8
  <2> QED BY <2>5, <2>6, <2>9, <2>10, <2>11 DEF CopyInv
<1>6. CASE HandRow
  <2>1. PICK x \in Items, r \in page :
           /\ pipe' = Append(pipe, x) /\ x.cursor.kind = "row" /\ x.cursor.from = from /\ x.cursor.key = r.key
           /\ after' = r.key /\ page' = page \ {r}
           /\ \A s \in page : r.key <= s.key
    BY <1>6, RowAppends
  <2>2. phase = "copy" /\ from' = from /\ ended' = ended /\ src' = src /\ log' = log
    BY <1>6 DEF HandRow, sourceVars
  <2>3. LastC' = x.cursor
    BY <2>1, LastFacts
  <2>4. \A s \in page : s.key \in Nat /\ s.key > after /\ Ok(s.key, s.ver, from)
    BY <2>2, PageFacts DEF CopyInv
  <2>5. \A s \in page' : s.key > r.key /\ Ok(s.key, s.ver, from)'
    <3> SUFFICES ASSUME NEW s \in page' PROVE s.key > r.key /\ Ok(s.key, s.ver, from)'
      OBVIOUS
    <3>1. s \in page /\ s # r
      BY <2>1
    <3>2. s.key # r.key /\ r.key <= s.key
      BY <2>1, <2>2, <3>1 DEF CopyInv
    <3>3. s.key > r.key
      BY <2>4, <3>1, <3>2
    <3> QED BY <2>2, <2>4, <3>1, <3>3 DEF Ok, Ch
  <2>6. \A s, t \in page' : s.key = t.key => s = t
    BY <2>1, <2>2 DEF CopyInv
  <2>7. ASSUME NEW k \in Keys, k > r.key, \A s \in page' : s.key # k, ended \/ \E s \in page' : k < s.key
        PROVE  Gone(k, from)'
    <3>1. k \in Nat /\ after \in Nat
      BY ConstFacts, PageFacts
    <3>2. k > after /\ r.key # k
      BY <2>4, <2>7, <3>1
    <3>3. \A s \in page : s.key # k
      BY <2>1, <2>7, <3>2
    <3>4. ended \/ \E s \in page : k < s.key
      BY <2>1, <2>7
    <3>5. Gone(k, from)
      BY <2>2, <3>2, <3>3, <3>4 DEF CopyInv
    <3> QED BY <2>2, <3>5 DEF Gone, Ch
  <2> QED BY <2>1, <2>2, <2>3, <2>5, <2>6, <2>7 DEF CopyInv
<1>7. CASE ReadFails
  <2>1. /\ phase' = phase /\ phase = "copy" /\ after' = after /\ from' = from /\ page' = {} /\ ~ended'
        /\ pipe' = pipe /\ saved' = saved
    BY <1>7 DEF ReadFails
  <2>2. LastC' = LastC
    BY <2>1, LastFacts
  <2>3. LastC.kind \in {"none", "row"} /\ after = LastC.key /\ (LastC.kind = "row" => LastC.from = from)
    BY <2>1 DEF CopyInv
  <2> QED BY <2>1, <2>2, <2>3 DEF CopyInv
<1>8. CASE StartFollow \/ Open \/ Copied \/ Follow \/ GivesUp \/ Crash
  <2>1. phase' # "copy"
    BY <1>8 DEF StartFollow, Open, Copied, Follow, GivesUp, Crash, hasLog
  <2> QED BY <2>1 DEF CopyInv
<1> QED BY <1>1, <1>2, <1>3, <1>4, <1>5, <1>6, <1>7, <1>8, QueueSteps

(* Every step keeps the stream behind the end of the queue, and no further. *)
LEMMA FollowNext ==
  ASSUME Types, PlaceInv, RestInv, SrcInv, hasLog, Chain, QueueInv, CopyInv, FollowInv, [Next]_vars
  PROVE  FollowInv'
<1>0. /\ from \in Nat /\ pos \in Nat /\ Len(log) \in Nat /\ saved \in Cursors /\ pipe \in Seq(Items)
      /\ saved.kind \in {"none", "row", "done", "log"} /\ saved.at \in Nat /\ saved.from \in Nat /\ Base(LastC) \in Nat
  BY CursorFacts, LastFacts DEF Types, SourceType, TargetType, StreamType, PipeType
<1>c. ASSUME phase' = phase, LastC' = LastC, from' = from, pos' = pos,
             phase = "follow" /\ pos < Base(LastC) => pipe' = <<>> /\ saved'.kind = "log"
      PROVE  FollowInv'
  BY <1>c DEF FollowInv
<1>1. CASE \E k \in Keys, del \in BOOLEAN : Change(k, del)
  <2>1. phase' = phase /\ from' = from /\ pos' = pos /\ pipe' = pipe /\ saved' = saved
    BY <1>1, ChangeLeaves
  <2>2. LastC' = LastC
    BY <2>1, LastFacts
  <2> QED BY <1>c, <2>1, <2>2 DEF FollowInv
<1>2. CASE Write \/ ReadPage \/ ReadFails \/ UNCHANGED vars
  <2>1. phase' = phase /\ from' = from /\ pos' = pos /\ pipe' = pipe /\ saved' = saved
    <3>1. CASE Write \/ UNCHANGED vars
      BY <3>1 DEF Write, vars, copyVars
    <3>2. CASE ReadPage \/ ReadFails
      BY <3>2 DEF ReadPage, ReadFails
    <3> QED BY <1>2, <3>1, <3>2
  <2>2. LastC' = LastC
    BY <2>1, LastFacts
  <2> QED BY <1>c, <2>1, <2>2 DEF FollowInv
<1>3. CASE Checkpoint
  <2>1. /\ phase' = phase /\ from' = from /\ pos' = pos
        /\ pipe # <<>> /\ pipe' = Tail(pipe) /\ saved' = Head(pipe).cursor
    BY <1>3 DEF Checkpoint, PlaceInv, copyVars
  <2>2. LastC' = LastC
    BY <2>1, LastFacts
  <2> QED BY <1>c, <2>1, <2>2 DEF FollowInv
<1>4. CASE StartFollow
  <2>1. pipe = <<>> /\ pipe' = pipe /\ saved' = saved /\ phase' = "follow" /\ saved.kind \in {"done", "log"}
        /\ pos' = Place(IF saved.kind = "done" THEN saved.from ELSE saved.at)
    BY <1>4 DEF StartFollow, RestInv
  <2>2. LastC' = saved
    BY <2>1, LastFacts
  <2>3. pos' = Place(Base(saved)) /\ Base(saved) \in Nat
    BY <1>0, <2>1 DEF Base
  <2>4. engine \in {"slot", "log"}
    BY DEF Types, SourceType, hasLog
  <2>5. CASE engine = "log"
    <3>1. pos' = Base(saved)
      BY <2>3, <2>5 DEF Place
    <3> QED BY <2>1, <2>2, <2>3, <3>1 DEF FollowInv
  <2>6. CASE engine = "slot"
    <3>1. pos' = 0
      BY <2>3, <2>6 DEF Place
    <3>2. saved.kind = "done" => Base(saved) = 0
      BY <2>6 DEF QueueInv, Copies, Base
    <3>3. pos' <= Base(saved) /\ (pos' < Base(saved) => saved.kind = "log")
      BY <2>1, <2>3, <3>1, <3>2
    <3> QED BY <2>1, <2>2, <3>3 DEF FollowInv
  <2> QED BY <2>4, <2>5, <2>6
<1>5. CASE Copied
  <2>1. PICK x \in Items : pipe' = Append(pipe, x) /\ x.cursor.kind = "done" /\ x.cursor.from = from
    BY <1>5, DoneAppends
  <2>2. LastC' = x.cursor /\ phase' = "open" /\ from' = from
    BY <1>5, <2>1, LastFacts DEF Copied, copyVars
  <2> QED BY <2>1, <2>2 DEF FollowInv
<1>6. CASE Open
  <2>1. phase = "open" /\ phase' = "follow" /\ pos' = from /\ pipe' = pipe /\ saved' = saved
    BY <1>6 DEF Open
  <2>2. LastC' = LastC /\ LastC.kind = "done" /\ Base(LastC) = from
    BY <2>1, LastFacts DEF FollowInv, Base
  <2>3. LastC'.kind = "done" /\ Base(LastC') = from
    BY <2>2
  <2> QED BY <1>0, <2>1, <2>3 DEF FollowInv
<1>7. CASE Follow
  <2>1. phase = "follow" /\ phase' = phase /\ saved' = saved
    BY <1>7 DEF Follow
  <2>2. pos' = pos + 1
    BY <1>7, LogAppends
  <2>3. CASE pipe' = pipe /\ pipe = <<>> /\ saved.kind = "log" /\ pos < Base(saved)
    <3>1. LastC = saved /\ LastC' = LastC
      BY <2>1, <2>3, LastFacts
    <3>2. Base(LastC') = Base(saved) /\ LastC'.kind = "log" /\ Base(saved) \in Nat
      BY <1>0, <2>3, <3>1
    <3>3. pos' <= Base(saved)
      BY <1>0, <2>2, <2>3, <3>2
    <3> QED BY <2>1, <2>3, <3>2, <3>3 DEF FollowInv
  <2>4. CASE ~(pipe' = pipe /\ pipe = <<>> /\ saved.kind = "log" /\ pos < Base(saved))
    <3>1. PICK x \in Items : pipe' = Append(pipe, x) /\ Base(x.cursor) = pos + 1 /\ x.cursor.kind = "log"
      BY <1>7, <2>4, LogAppends
    <3>2. LastC' = x.cursor
      BY <3>1, LastFacts
    <3>3. LastC'.kind = "log" /\ Base(LastC') = pos'
      BY <2>2, <3>1, <3>2
    <3>4. pos' \in Nat
      BY <1>0, <2>2
    <3> QED BY <2>1, <3>3, <3>4 DEF FollowInv
  <2> QED BY <2>3, <2>4
<1>8. CASE StartCopy \/ HandRow \/ GivesUp \/ Crash
  <2>1. phase' \notin {"open", "follow"}
    BY <1>8 DEF StartCopy, HandRow, GivesUp, Crash
  <2> QED BY <2>1 DEF FollowInv
<1> QED BY <1>1, <1>2, <1>3, <1>4, <1>5, <1>6, <1>7, <1>8, QueueSteps

(* The steps that leave the destination alone, and the rows that were gone. *)
LEMMA TargetSteps ==
  ASSUME Types, RestInv, hasLog, [Next]_vars
  PROVE  \/ \E k \in Keys, del \in BOOLEAN : Change(k, del)
         \/ Write \/ Checkpoint \/ StartCopy
         \/ /\ dest' = dest /\ extra' = extra /\ saved' = saved /\ src' = src /\ log' = log /\ from' = from
            /\ phase' = "copy" => phase = "copy"
            /\ \/ pipe' = pipe \/ pipe' = <<>> \/ Follow
               \/ phase = "copy" /\ \E x \in Items : pipe' = Append(pipe, x)
<1>1. CASE StartFollow \/ ReadPage \/ ReadFails \/ Open \/ UNCHANGED vars
  <2>1. CASE StartFollow \/ Open
    BY <2>1 DEF StartFollow, Open, sourceVars, copyVars
  <2>2. CASE ReadPage \/ ReadFails
    BY <2>2 DEF ReadPage, ReadFails, sourceVars
  <2>3. CASE UNCHANGED vars
    BY <2>3 DEF vars, sourceVars, copyVars
  <2> QED BY <1>1, <2>1, <2>2, <2>3
<1>2. CASE Follow
  BY <1>2 DEF Follow, sourceVars, copyVars
<1>3. CASE GivesUp \/ Crash
  BY <1>3 DEF GivesUp, Crash, sourceVars, Dropped
<1>4. CASE HandRow
  <2>1. PICK r \in page : pipe' = Accepted(Item(r.key, r.ver, RowCursor(next, r.key, from)))
    BY <1>4 DEF HandRow
  <2>2. next \in Nat /\ from \in Nat
    BY DEF Types, SourceType, StreamType
  <2>3. PICK c : c = RowCursor(next, r.key, from)
    OBVIOUS
  <2>4. c \in Cursors
    BY <2>2, <2>3, CursorTypes, PageFacts
  <2>5. PICK x : x = Item(r.key, r.ver, c)
    OBVIOUS
  <2>6. x \in Items /\ pipe' = Accepted(x)
    BY <2>1, <2>3, <2>4, <2>5, PageFacts, ItemType, Zenon
  <2>7. pipe' = pipe \/ pipe' = Append(pipe, x)
    BY <2>6, AcceptedType DEF Types
  <2>8. dest' = dest /\ extra' = extra /\ saved' = saved /\ src' = src /\ log' = log /\ from' = from /\ phase = "copy"
    BY <1>4 DEF HandRow, sourceVars
  <2> QED BY <2>6, <2>7, <2>8
<1>5. CASE Copied
  <2>1. pipe' = Accepted(Item(Notice, 0, DoneCursor(next, from)))
    BY <1>5 DEF Copied
  <2>2. next \in Nat /\ from \in Nat
    BY DEF Types, SourceType, StreamType
  <2>3. PICK c : c = DoneCursor(next, from)
    OBVIOUS
  <2>4. c \in Cursors /\ Notice \in {0} \union Keys /\ 0 \in 0 .. MaxLog + 1
    BY <2>2, <2>3, CursorTypes, ConstFacts DEF Notice
  <2>5. PICK x : x = Item(Notice, 0, c)
    OBVIOUS
  <2>6. x \in Items /\ pipe' = Accepted(x)
    BY <2>1, <2>3, <2>4, <2>5, ItemType, Zenon
  <2>7. pipe' = pipe \/ pipe' = Append(pipe, x)
    BY <2>6, AcceptedType DEF Types
  <2>8. dest' = dest /\ extra' = extra /\ saved' = saved /\ src' = src /\ log' = log /\ from' = from /\ phase = "copy"
    BY <1>5 DEF Copied, sourceVars, copyVars
  <2> QED BY <2>6, <2>7, <2>8
<1> QED BY <1>1, <1>2, <1>3, <1>4, <1>5, QueueSteps

(* What the head of the queue is about to make of its key: the row, or *)
(* something that a later change makes up for.                         *)
LEMMA HeadFacts ==
  ASSUME Types, PlaceInv, Chain, pipe # <<>>
  PROVE  /\ Head(pipe) = pipe[1] /\ 1 \in DOMAIN pipe /\ Head(pipe) \in Items
         /\ Head(pipe).key \in {0} \union Keys /\ Head(pipe).cursor \in Cursors
         /\ Base(Head(pipe).cursor) \in Nat /\ Base(Head(pipe).cursor) <= Len(log)
         /\ Follows(saved, Head(pipe))
         /\ Head(pipe).key # Notice => Ok(Head(pipe).key, Head(pipe).ver, Base(Head(pipe).cursor))
<1>1. Head(pipe) = pipe[1] /\ 1 \in DOMAIN pipe /\ Head(pipe) \in Items
  BY TailFacts DEF Types, PipeType
<1>2. Follows(Before(1), pipe[1]) /\ Before(1) = saved
  BY <1>1 DEF Chain, Before
<1>3. Follows(saved, Head(pipe))
  BY <1>1, <1>2
<1>4. Base(Head(pipe).cursor) <= Len(log)
  BY <1>1 DEF PlaceInv
<1> QED BY <1>1, <1>3, <1>4, CursorFacts DEF Follows

(* A change that is after a place is after the places before it. *)
LEMMA ChEarlier ==
  ASSUME Types, NEW k, NEW p \in Nat, NEW q \in Nat, q <= p, Ch(k, p)
  PROVE  Ch(k, q)
<1>1. PICK n \in DOMAIN log : log[n].key = k /\ n > p
  BY DEF Ch
<1>2. n \in Nat
  BY DEF Types, SourceType
<1>3. n > q
  BY <1>1, <1>2
<1> QED BY <1>1, <1>3 DEF Ch

(* Every step keeps what the checkpoint has behind it. *)
LEMMA SavedNext ==
  ASSUME Types, PlaceInv, RestInv, SrcInv, hasLog, Chain, QueueInv, CopyInv, FollowInv, SavedInv, PhantomInv,
         [Next]_vars
  PROVE  SavedInv'
<1>0. /\ saved \in Cursors /\ Base(saved) \in Nat /\ Base(saved) <= Len(log) /\ dest \in [Keys -> 0 .. MaxLog + 1]
      /\ src \in [Keys -> 0 .. MaxLog + 1] /\ pipe \in Seq(Items) /\ Len(log) \in Nat
      /\ saved.kind \in {"none", "row", "done", "log"}
  BY CursorFacts DEF Types, SourceType, TargetType, PipeType, PlaceInv
<1>1. CASE \E k \in Keys, del \in BOOLEAN : Change(k, del)
  <2>1. PICK k \in Keys, del \in BOOLEAN : Change(k, del)
    BY <1>1
  <2>2. /\ saved' = saved /\ dest' = dest /\ extra' = extra \ {k} /\ \A j \in Keys \ {k} : src'[j] = src[j]
    BY <2>1, ChangeLeaves
  <2>3. PICK p : p = Base(saved)
    OBVIOUS
  <2>4. Ch(k, p)'
    BY <1>0, <2>1, <2>3, ChNew
  <2>5. \A j \in Keys : Ch(j, p) => Ch(j, p)'
    BY ChStays
  <2>6. Base(saved') = p
    BY <2>2, <2>3
  <2> SUFFICES ASSUME saved.kind # "none", NEW j \in Keys
               PROVE  Right(j)' \/ (saved'.kind = "row" /\ j > saved'.key) \/ Ch(j, Base(saved))'
    BY <2>2 DEF SavedInv
  <2>7. Right(j) \/ (saved.kind = "row" /\ j > saved.key) \/ Ch(j, p)
    BY <2>3 DEF SavedInv
  <2>8. CASE j = k
    BY <2>2, <2>3, <2>4, <2>8
  <2>9. CASE j # k
    <3>1. Right(j) => Right(j)'
      BY <2>2, <2>9 DEF Right
    <3> QED BY <2>2, <2>3, <2>5, <2>7, <3>1
  <2> QED BY <2>8, <2>9
<1>2. CASE Write
  <2>1. /\ pipe # <<>> /\ saved' = saved /\ src' = src /\ log' = log /\ extra' = extra
        /\ dest' = IF Head(pipe).key = Notice THEN dest ELSE [dest EXCEPT ![Head(pipe).key] = Head(pipe).ver]
    BY <1>2 DEF Write, sourceVars
  <2> SUFFICES ASSUME saved.kind # "none", NEW k \in Keys
               PROVE  Right(k)' \/ (saved.kind = "row" /\ k > saved.key) \/ Ch(k, Base(saved))
    BY <2>1 DEF SavedInv, Ch
  <2>2. Right(k) \/ (saved.kind = "row" /\ k > saved.key) \/ Ch(k, Base(saved))
    BY DEF SavedInv
  <2>3. CASE Head(pipe).key # k \/ Head(pipe).key = Notice
    <3>1. dest'[k] = dest[k]
      BY <1>0, <2>1, <2>3
    <3> QED BY <2>1, <2>2, <3>1 DEF Right
  <2>4. CASE Head(pipe).key = k /\ Head(pipe).key # Notice
    <3>1. dest'[k] = Head(pipe).ver
      BY <1>0, <2>1, <2>4
    <3>2. Ok(k, Head(pipe).ver, Base(Head(pipe).cursor))
      BY <2>1, <2>4, HeadFacts
    <3>3. CASE Head(pipe).ver = src[k]
      BY <2>1, <3>1, <3>3 DEF Right
    <3>4. CASE Ch(k, Base(Head(pipe).cursor))
      <4>1. Base(saved) <= Base(Head(pipe).cursor) /\ Base(Head(pipe).cursor) \in Nat
        BY <2>1, HeadFacts DEF QueueInv
      <4> QED BY <1>0, <3>4, <4>1, ChEarlier
    <3> QED BY <3>2, <3>3, <3>4 DEF Ok
  <2> QED BY <2>3, <2>4
<1>3. CASE Checkpoint
  <2>1. /\ wrote /\ pipe # <<>> /\ saved' = Head(pipe).cursor /\ src' = src /\ log' = log /\ extra' = extra /\ dest' = dest
    BY <1>3 DEF Checkpoint, PlaceInv, sourceVars
  <2>2. PICK x : x = Head(pipe)
    OBVIOUS
  <2>3. PICK d : d = x.cursor
    OBVIOUS
  <2>4. /\ x \in Items /\ d \in Cursors /\ Base(d) \in Nat /\ Follows(saved, x) /\ x = pipe[1] /\ 1 \in DOMAIN pipe
        /\ x.key # Notice => Ok(x.key, x.ver, Base(d)) /\ dest[x.key] = x.ver
    BY <2>1, <2>2, <2>3, HeadFacts DEF RestInv
  <2>5. saved' = d
    BY <2>1, <2>2, <2>3
  <2>6. Copies(d) => d.from = from /\ Phantom(from)
    BY <2>3, <2>4 DEF QueueInv, PhantomInv
  <2> SUFFICES ASSUME NEW k \in Keys
               PROVE  Right(k) \/ (d.kind = "row" /\ k > d.key) \/ Ch(k, Base(d))
    BY <2>1, <2>5 DEF SavedInv, Right, Ch
  <2>7. ASSUME Gone(k, d.from), Copies(d) PROVE Right(k) \/ Ch(k, Base(d))
    <3>1. Base(d) = d.from
      BY <2>7 DEF Base, Copies
    <3>2. CASE src[k] = 0
      <4>1. dest[k] # 0 => k \in extra \/ Ch(k, from)
        BY <2>6, <2>7, <3>2 DEF Phantom
      <4> QED BY <2>6, <2>7, <3>1, <3>2, <4>1 DEF Right
    <3> QED BY <2>7, <3>1, <3>2 DEF Gone
  <2>8. ASSUME x.key = k, x.key # Notice PROVE Right(k) \/ Ch(k, Base(d))
    BY <2>4, <2>8 DEF Ok, Right
  <2>9. ASSUME saved.kind = "row", saved.from = d.from, Copies(d), ~(k > saved.key) PROVE Right(k) \/ Ch(k, Base(d))
    <3>1. Base(saved) = Base(d)
      BY <2>9 DEF Base, Copies
    <3> QED BY <2>9, <3>1 DEF SavedInv
  <2>k. k \in Nat /\ saved.key \in Nat /\ d.key \in Nat /\ k # 0
    <3>1. saved.key \in {0} \union Keys /\ d.key \in {0} \union Keys
      BY <1>0, <2>4, CursorFacts
    <3>2. Keys \subseteq Nat /\ 0 \notin Keys /\ 0 \in Nat
      BY ConstFacts
    <3>3. \A j \in {0} \union Keys : j \in Nat
      BY <3>2
    <3>4. k \in Nat /\ k # 0
      BY <3>2
    <3> QED BY <3>1, <3>3, <3>4
  <2>10. CASE RowLink(saved, x)
    <3>1. /\ d.kind = "row" /\ x.key = d.key /\ saved.kind \in {"none", "row"} /\ (saved.kind = "row" => saved.from = d.from)
          /\ \A j \in Keys : saved.key < j /\ j < x.key => Gone(j, d.from)
      BY <2>3, <2>10 DEF RowLink
    <3>2. CASE k > d.key
      BY <3>1, <3>2
    <3>3. CASE k = d.key
      BY <2>8, <2>k, <3>1, <3>3 DEF Notice
    <3>4. CASE k < d.key /\ saved.key < k
      BY <2>7, <3>1, <3>4 DEF Copies
    <3>5. CASE ~(saved.key < k)
      <4>1. saved.kind = "row"
        BY <2>k, <3>1, <3>5 DEF QueueInv
      <4> QED BY <2>9, <2>k, <3>1, <3>5, <4>1 DEF Copies
    <3> QED BY <2>k, <3>2, <3>3, <3>4, <3>5
  <2>11. CASE DoneLink(saved, x)
    <3>1. /\ d.kind = "done" /\ saved.kind \in {"none", "row"} /\ (saved.kind = "row" => saved.from = d.from)
          /\ \A j \in Keys : saved.key < j => Gone(j, d.from)
      BY <2>3, <2>11 DEF DoneLink
    <3>2. CASE saved.key < k
      BY <2>7, <3>1, <3>2 DEF Copies
    <3>3. CASE ~(saved.key < k)
      <4>1. saved.kind = "row"
        BY <2>k, <3>1, <3>3 DEF QueueInv
      <4> QED BY <2>9, <2>k, <3>1, <3>3, <4>1 DEF Copies
    <3> QED BY <3>2, <3>3
  <2>12. CASE LogLink(saved, x)
    <3>1. /\ d.kind = "log" /\ saved.kind \in {"done", "log"} /\ d.at = Base(saved) + 1 /\ log[d.at].key = x.key
          /\ Base(d) = d.at
      BY <2>3, <2>12 DEF LogLink, Base
    <3>2. Right(k) \/ Ch(k, Base(saved))
      BY <3>1 DEF SavedInv
    <3>3. CASE Ch(k, Base(saved))
      <4>1. PICK n \in DOMAIN log : log[n].key = k /\ n > Base(saved)
        BY <3>3 DEF Ch
      <4>2. n \in Nat
        BY DEF Types, SourceType
      <4>3. CASE n > d.at
        BY <3>1, <4>1, <4>3 DEF Ch
      <4>4. CASE ~(n > d.at)
        <5>1. n = d.at
          BY <1>0, <3>1, <4>1, <4>2, <4>4
        <5> QED BY <2>8, <2>k, <3>1, <4>1, <5>1 DEF Notice
      <4> QED BY <4>3, <4>4
    <3> QED BY <3>2, <3>3
  <2> QED BY <2>4, <2>10, <2>11, <2>12 DEF Follows
<1>4. CASE StartCopy
  <2>1. saved' = saved /\ src' = src /\ log' = log /\ dest' = dest /\ saved.kind \in {"none", "row"}
        /\ (saved.kind = "row" => extra' = extra)
    BY <1>4 DEF StartCopy, sourceVars
  <2> QED BY <2>1 DEF SavedInv, Right, Ch
<1>5. CASE dest' = dest /\ extra' = extra /\ saved' = saved /\ src' = src /\ log' = log
  BY <1>5 DEF SavedInv, Right, Ch
<1> QED BY <1>1, <1>2, <1>3, <1>4, <1>5, TargetSteps

(* Every step keeps the rows that the source no longer has accounted for. *)
LEMMA PhantomNext ==
  ASSUME Types, PlaceInv, RestInv, SrcInv, hasLog, Chain, QueueInv, CopyInv, FollowInv, SavedInv, PhantomInv,
         [Next]_vars
  PROVE  PhantomInv'
<1>0. /\ saved \in Cursors /\ saved.from \in Nat /\ from \in Nat /\ from <= Len(log) /\ Len(log) \in Nat
      /\ dest \in [Keys -> 0 .. MaxLog + 1] /\ pipe \in Seq(Items) /\ 0 \in Nat /\ 0 <= Len(log)
  BY CursorFacts DEF Types, SourceType, TargetType, StreamType, PipeType
<1>s. saved.kind = "row" => saved.from <= Len(log)
  BY DEF PlaceInv, Base
<1>1. CASE \E k \in Keys, del \in BOOLEAN : Change(k, del)
  <2>1. PICK k \in Keys, del \in BOOLEAN : Change(k, del)
    BY <1>1
  <2>2. /\ saved' = saved /\ dest' = dest /\ extra' = extra \ {k} /\ \A j \in Keys \ {k} : src'[j] = src[j]
        /\ pipe' = pipe /\ from' = from /\ phase' = phase
    BY <2>1, ChangeLeaves
  <2>3. ASSUME NEW f \in Nat, f <= Len(log), Phantom(f) PROVE Phantom(f)'
    <3>1. Ch(k, f)'
      BY <2>1, <2>3, ChNew
    <3>2. \A j \in Keys : Ch(j, f) => Ch(j, f)'
      BY ChStays
    <3> QED BY <2>2, <2>3, <3>1, <3>2 DEF Phantom
  <2>4. PICK f : f = from
    OBVIOUS
  <2>5. PICK g : g = saved.from
    OBVIOUS
  <2>6. Phantom(0)'
    BY <1>0, <2>3 DEF PhantomInv
  <2>7. saved.kind = "row" => Phantom(g)'
    BY <1>0, <1>s, <2>3, <2>5 DEF PhantomInv
  <2>8. phase = "copy" \/ (\E i \in DOMAIN pipe : Copies(pipe[i].cursor)) => Phantom(f)'
    BY <1>0, <2>3, <2>4 DEF PhantomInv
  <2>9. saved'.from = g /\ from' = f
    BY <2>2, <2>4, <2>5
  <2>10. (Phantom(saved.from)' <=> Phantom(g)') /\ (Phantom(from)' <=> Phantom(f)')
    BY <2>9 DEF Phantom
  <2> QED BY <2>2, <2>6, <2>7, <2>8, <2>10 DEF PhantomInv
<1>2. CASE Write
  <2>1. /\ pipe # <<>> /\ saved' = saved /\ src' = src /\ log' = log /\ extra' = extra /\ pipe' = pipe
        /\ from' = from /\ phase' = phase
        /\ dest' = IF Head(pipe).key = Notice THEN dest ELSE [dest EXCEPT ![Head(pipe).key] = Head(pipe).ver]
    BY <1>2 DEF Write, sourceVars, copyVars
  <2>2. ASSUME NEW f \in Nat, f <= Base(Head(pipe).cursor), Phantom(f)
        PROVE  \A k \in Keys : dest'[k] # 0 /\ src[k] = 0 => k \in extra \/ Ch(k, f)
    <3> SUFFICES ASSUME NEW k \in Keys, dest'[k] # 0, src[k] = 0 PROVE k \in extra \/ Ch(k, f)
      OBVIOUS
    <3>1. CASE Head(pipe).key = k /\ Head(pipe).key # Notice
      <4>1. dest'[k] = Head(pipe).ver
        BY <1>0, <2>1, <3>1
      <4>2. Ok(k, Head(pipe).ver, Base(Head(pipe).cursor)) /\ Base(Head(pipe).cursor) \in Nat
        BY <2>1, <3>1, HeadFacts
      <4>3. Ch(k, Base(Head(pipe).cursor))
        BY <4>1, <4>2 DEF Ok
      <4> QED BY <2>2, <4>2, <4>3, ChEarlier
    <3>2. CASE ~(Head(pipe).key = k /\ Head(pipe).key # Notice)
      <4>1. dest'[k] = dest[k]
        BY <1>0, <2>1, <3>2
      <4> QED BY <2>2, <4>1 DEF Phantom
    <3> QED BY <3>1, <3>2
  <2>3. /\ Base(Head(pipe).cursor) \in Nat /\ Head(pipe) = pipe[1] /\ 1 \in DOMAIN pipe
        /\ DOMAIN pipe = 1 .. Len(pipe) /\ Len(pipe) \in Nat
    BY <1>0, <2>1, HeadFacts
  <2>4. 0 <= Base(Head(pipe).cursor)
    BY <2>3
  <2>5. saved.kind = "row" => saved.from <= Base(Head(pipe).cursor)
    <3>1. saved.kind # "none" => Base(saved) <= Base(pipe[1].cursor)
      BY <2>3 DEF QueueInv
    <3> QED BY <2>3, <3>1 DEF Base
  <2>6. phase = "copy" \/ (\E i \in DOMAIN pipe : Copies(pipe[i].cursor)) => from <= Base(Head(pipe).cursor)
    <3>1. phase = "copy" => Copies(pipe[1].cursor)
      BY <2>3 DEF QueueInv, Copies
    <3>2. ASSUME NEW i \in DOMAIN pipe, Copies(pipe[i].cursor) PROVE Copies(pipe[1].cursor)
      <4>1. CASE i = 1
        BY <3>2, <4>1
      <4>2. CASE i # 1
        <5>1. 1 < i
          BY <2>3, <4>2
        <5> QED BY <2>3, <3>2, <5>1 DEF QueueInv, Copies
      <4> QED BY <4>1, <4>2
    <3>3. Copies(pipe[1].cursor) => Base(pipe[1].cursor) = from
      BY <2>3 DEF QueueInv, Copies, Base
    <3> QED BY <1>0, <2>3, <3>1, <3>2, <3>3
  <2>7. Phantom(0)'
    BY <2>1, <2>2, <2>4 DEF PhantomInv, Phantom, Ch
  <2>8. saved.kind = "row" => Phantom(saved.from)'
    BY <1>0, <2>1, <2>2, <2>5, SMTT(60) DEF PhantomInv, Phantom, Ch
  <2>9. phase = "copy" \/ (\E i \in DOMAIN pipe : Copies(pipe[i].cursor)) => Phantom(from)'
    BY <1>0, <2>1, <2>2, <2>6 DEF PhantomInv, Phantom, Ch
  <2> QED BY <2>1, <2>7, <2>8, <2>9 DEF PhantomInv
<1>f. ASSUME dest' = dest, extra' = extra, src' = src, log' = log, NEW f, Phantom(f) PROVE Phantom(f)'
  BY <1>f DEF Phantom, Ch
<1>3. CASE Checkpoint
  <2>1. /\ pipe # <<>> /\ saved' = Head(pipe).cursor /\ src' = src /\ log' = log /\ extra' = extra /\ dest' = dest
        /\ from' = from /\ phase' = phase /\ pipe' = Tail(pipe)
    BY <1>3 DEF Checkpoint, PlaceInv, sourceVars, copyVars
  <2>2. /\ Head(pipe) = pipe[1] /\ 1 \in DOMAIN pipe
        /\ \A i \in DOMAIN pipe' : i + 1 \in DOMAIN pipe /\ pipe'[i] = pipe[i + 1]
    BY <1>0, <2>1, TailFacts
  <2>3. saved'.kind = "row" => saved'.from = from /\ Phantom(from)
    BY <2>1, <2>2 DEF QueueInv, PhantomInv, Copies
  <2>4. (\E i \in DOMAIN pipe' : Copies(pipe'[i].cursor)) => \E i \in DOMAIN pipe : Copies(pipe[i].cursor)
    BY <2>2
  <2>5. Phantom(0) /\ (phase = "copy" \/ (\E i \in DOMAIN pipe' : Copies(pipe'[i].cursor)) => Phantom(from))
    BY <2>4 DEF PhantomInv
  <2>6. Phantom(from) => Phantom(from)' /\ (saved'.from = from => Phantom(saved.from)')
    BY <2>1 DEF Phantom, Ch
  <2>7. Phantom(0)'
    BY <1>f, <2>1, <2>5
  <2> QED BY <2>1, <2>3, <2>5, <2>6, <2>7 DEF PhantomInv
<1>4. CASE StartCopy
  <2>1. /\ saved' = saved /\ src' = src /\ log' = log /\ dest' = dest /\ saved.kind \in {"none", "row"}
        /\ pipe' = <<>> /\ phase' = "copy"
    BY <1>4 DEF StartCopy, sourceVars, RestInv
  <2>2. CASE saved.kind = "row"
    <3>1. extra' = extra /\ from' = saved.from
      BY <1>4, <2>2 DEF StartCopy, Fresh
    <3>2. Phantom(0) /\ Phantom(saved.from)
      BY <2>2 DEF PhantomInv
    <3> QED BY <2>1, <2>2, <3>1, <3>2 DEF PhantomInv, Phantom, Ch
  <2>3. CASE saved.kind # "row"
    <3>1. saved.kind = "none" /\ from' = Captured
          /\ extra' = IF engine = "log" THEN {k \in Keys : src[k] = 0 /\ dest[k] # 0} ELSE extra
      BY <1>4, <2>1, <2>3 DEF StartCopy, Fresh
    <3>2. CASE engine = "log"
      BY <2>1, <3>1, <3>2 DEF PhantomInv, Phantom
    <3>3. CASE engine # "log"
      <4>1. from' = 0 /\ extra' = extra
        BY <3>1, <3>3 DEF Captured
      <4> QED BY <2>1, <3>1, <4>1 DEF PhantomInv, Phantom, Ch
    <3> QED BY <3>2, <3>3
  <2> QED BY <2>1, <2>2, <2>3
<1>5. CASE /\ dest' = dest /\ extra' = extra /\ saved' = saved /\ src' = src /\ log' = log /\ from' = from
           /\ phase' = "copy" => phase = "copy"
           /\ \/ pipe' = pipe \/ pipe' = <<>> \/ Follow
              \/ phase = "copy" /\ \E x \in Items : pipe' = Append(pipe, x)
  <2>1. (\E i \in DOMAIN pipe' : Copies(pipe'[i].cursor)) => phase = "copy" \/ \E i \in DOMAIN pipe : Copies(pipe[i].cursor)
    <3>1. CASE pipe' = pipe \/ pipe' = <<>> \/ phase = "copy"
      BY <3>1
    <3>2. CASE Follow /\ pipe' # pipe
      <4>1. PICK x \in Items : pipe' = Append(pipe, x) /\ x.cursor.kind = "log"
        BY <3>2, LogAppends
      <4>2. \A i \in DOMAIN pipe' : (i \in DOMAIN pipe /\ pipe'[i] = pipe[i]) \/ pipe'[i] = x
        BY <1>0, <4>1, AppendFacts
      <4>3. ~Copies(x.cursor)
        BY <4>1 DEF Copies
      <4> QED BY <4>2, <4>3
    <3> QED BY <1>5, <3>1, <3>2
  <2> QED BY <1>5, <2>1 DEF PhantomInv, Phantom, Ch
<1> QED BY <1>1, <1>2, <1>3, <1>4, <1>5, TargetSteps

-----------------------------------------------------------------------------
(* engines with a log: what is proved *)

(* At first there is no copy, no queue and no checkpoint. *)
LEMMA LogInit == Init => LogInv
<1> SUFFICES ASSUME Init PROVE LogInv
  OBVIOUS
<1>1. /\ pipe = <<>> /\ saved.kind = "none" /\ saved.key = 0 /\ saved.from = 0 /\ phase = "off" /\ from = 0
      /\ dest = [k \in Keys |-> 0]
  BY CursorTypes DEF Init, NoCursor
<1>2. Chain /\ QueueInv
  BY <1>1 DEF Chain, QueueInv
<1>3. CopyInv /\ FollowInv /\ SavedInv
  BY <1>1 DEF CopyInv, FollowInv, SavedInv
<1>4. PhantomInv
  BY <1>1 DEF PhantomInv, Phantom
<1> QED BY <1>2, <1>3, <1>4 DEF LogInv

(* all that holds of every engine *)
EveryInv == Types /\ PlaceInv /\ RestInv /\ SrcInv /\ LogInv

(* Every step keeps all of it. *)
LEMMA EveryNext == EveryInv /\ [Next]_vars => EveryInv'
<1> SUFFICES ASSUME EveryInv, [Next]_vars PROVE EveryInv'
  OBVIOUS
<1>0. Types /\ PlaceInv /\ RestInv /\ SrcInv /\ LogInv
  BY DEF EveryInv
<1>1. Types'
  BY <1>0, TypeNext
<1>2. PlaceInv' /\ RestInv' /\ SrcInv'
  BY <1>0, PlaceNext, RestNext, SrcNext
<1>3. LogInv'
  <2>1. hasLog' = hasLog
    <3>1. engine' = engine
      <4>1. CASE \E k \in Keys, del \in BOOLEAN : Change(k, del)
        BY <1>0, <4>1, ChangeLeaves
      <4>2. CASE Works \/ ReadFails \/ GivesUp \/ Crash \/ UNCHANGED vars
        BY <1>0, <4>2, BridgeLeaves
      <4> QED BY <4>1, <4>2 DEF Next
    <3> QED BY <3>1 DEF hasLog
  <2>2. CASE ~hasLog
    BY <2>1, <2>2 DEF LogInv
  <2>3. CASE hasLog
    <3>1. Chain /\ QueueInv /\ CopyInv /\ FollowInv /\ SavedInv /\ PhantomInv
      BY <1>0, <2>3 DEF LogInv
    <3>2. Chain' /\ QueueInv'
      BY <1>0, <2>3, <3>1, ChainNext, QueueNext
    <3>3. CopyInv' /\ FollowInv'
      BY <1>0, <2>3, <3>1, CopyNext, FollowNext
    <3>4. SavedInv' /\ PhantomInv'
      BY <1>0, <2>3, <3>1, SavedNext, PhantomNext
    <3> QED BY <3>2, <3>3, <3>4 DEF LogInv
  <2> QED BY <2>2, <2>3
<1> QED BY <1>1, <1>2, <1>3 DEF EveryInv

(* All of it always holds. *)
LEMMA EveryHolds == Spec => []EveryInv
<1>1. Init => EveryInv
  BY TypeInit, PlaceInit, RestInit, SrcInit, LogInit DEF EveryInv
<1> QED BY <1>1, EveryNext, PTL DEF Spec

(* Every variable of the copy keeps its type: no place of the stream is ahead *)
(* of the log, and the queue and what is held consist of items.               *)
THEOREM CopyTypes == Spec => []TypeOK
<1>1. EveryInv => TypeOK
  BY TypesMeanTypeOK DEF EveryInv
<1> QED BY <1>1, EveryHolds, PTL

(* The checkpoint of a bridge over an engine with a log never runs ahead of its *)
(* destination: with the rest of the copy, and the changes that the server       *)
(* sends again from the checkpoint's place, every row can still be made right    *)
(* (snapshot-provider.ts: a row's cursor names the place its copy was begun at). *)
THEOREM ResumeIsSafe == Spec => []ResumePointSafe
<1>1. ASSUME EveryInv PROVE ResumePointSafe
  <2> SUFFICES ASSUME hasLog, saved.kind # "none", NEW k \in Keys
               PROVE  \/ Right(k)
                      \/ saved.kind = "row" /\ k > saved.key
                      \/ \E n \in 1 .. Len(log) :
                           log[n].key = k /\ n > (IF saved.kind = "log" THEN saved.at ELSE saved.from)
    BY DEF ResumePointSafe
  <2>1. Right(k) \/ (saved.kind = "row" /\ k > saved.key) \/ Ch(k, Base(saved))
    BY <1>1 DEF EveryInv, LogInv, SavedInv
  <2>2. DOMAIN log = 1 .. Len(log)
    BY <1>1 DEF EveryInv, Types, SourceType
  <2>3. Ch(k, Base(saved)) =>
          \E n \in 1 .. Len(log) : log[n].key = k /\ n > (IF saved.kind = "log" THEN saved.at ELSE saved.from)
    BY <2>2 DEF Ch, Base
  <2> QED BY <2>1, <2>3
<1> QED BY <1>1, EveryHolds, PTL

(* A stream that is at the end of the log, with nothing in the queue, has left *)
(* every key right, if the engine has a log.                                    *)
LEMMA LogConverges ==
  ASSUME EveryInv, hasLog, AtRest, NEW k \in Keys
  PROVE  Right(k)
<1>0. /\ phase = "follow" /\ pos = Len(log) /\ pipe = <<>>
      /\ Types /\ PlaceInv /\ FollowInv /\ SavedInv
  BY DEF AtRest, EveryInv, LogInv
<1>1. LastC = saved /\ saved \in Cursors /\ Base(saved) \in Nat /\ Base(saved) <= Len(log)
  BY <1>0, LastFacts, CursorFacts DEF PlaceInv
<1>2. saved.kind \in {"done", "log"} /\ pos <= Base(saved)
  BY <1>0, <1>1 DEF FollowInv
<1>3. \A n \in DOMAIN log : n \in Nat /\ n <= Len(log)
  BY <1>0 DEF Types, SourceType
<1>4. Len(log) \in Nat
  BY <1>0 DEF Types, SourceType
<1>5. ~Ch(k, Base(saved))
  BY <1>0, <1>1, <1>2, <1>3, <1>4 DEF Ch
<1> QED BY <1>0, <1>2, <1>5 DEF SavedInv

-----------------------------------------------------------------------------
(* an engine without a log, while nobody stops listening *)

(* something of the key is held back *)
HeldK(k) == \E h \in held : h.key = k
(* something of the key is in the queue *)
PipeK(k) == \E i \in DOMAIN pipe : pipe[i].key = k

(* what the key has become is held back *)
InHand(k) == \E h \in held : h.key = k /\ h.ver = src[k]
(* or is the last of the key in the queue *)
InQueue(k) ==
  /\ ~HeldK(k)
  /\ \E i \in DOMAIN pipe :
       pipe[i].key = k /\ pipe[i].ver = src[k] /\ \A j \in DOMAIN pipe : j > i => pipe[j].key # k
(* or is in the destination *)
InPlace(k) == ~HeldK(k) /\ ~PipeK(k) /\ dest[k] = src[k]
(* or is yet to be copied *)
InTable(k) ==
  /\ phase = "copy" /\ k > after /\ ~HeldK(k)
  /\ [key |-> k, ver |-> src[k]] \in page \/ (~ended /\ \A r \in page : r.key < k)

(* or the change that made it is yet to be heard of. *)
Due(k) == Ch(k, pos) \/ InHand(k) \/ InQueue(k) \/ InPlace(k) \/ InTable(k)

(* The bridge begins with nothing. *)
StartInv == phase = "off" => saved.kind = "none" /\ \A k \in Keys : dest[k] = 0
(* One change of a key is held back, in a place of its own; none when the gate is open. *)
HeldInv ==
  /\ \A h \in held : h.cursor.kind = "log" /\ h.cursor.at <= pos /\ h.key \in Keys
  /\ \A h, g \in held : h.key = g.key \/ h.cursor.at = g.cursor.at => h = g
  /\ phase = "follow" => held = {}

(* a cursor that nothing held back is behind *)
Ahead(c) == c.kind = "log" => c.at <= pos /\ \A h \in held : c.at < h.cursor.at
(* a cursor of the copy, before the next row *)
OfCopy(c) == c.kind \in {"none", "row"} /\ (c.kind = "row" => c.at < next)
(* Nothing held back or still to be copied is behind the queue. *)
OrderInv ==
  /\ Ahead(saved) /\ \A i \in DOMAIN pipe : Ahead(pipe[i].cursor)
  /\ phase = "copy" => OfCopy(saved) /\ \A i \in DOMAIN pipe : OfCopy(pipe[i].cursor)

(* Nothing of the rest of the table is anywhere, and a row of the page is its *)
(* key's row or the change that made it otherwise is held or yet to be heard. *)
TableInv ==
  phase = "copy" =>
    /\ \A k \in Keys : k > after => dest[k] = 0 /\ ~PipeK(k)
    /\ \A r \in page : r.key > after /\ (r.ver = src[r.key] \/ Ch(r.key, pos) \/ HeldK(r.key))
    /\ \A r, s \in page : r.key = s.key => r = s

(* What a key has become is never lost. *)
DueInv == phase \notin {"off", "fatal"} => \A k \in Keys : Due(k)

(* all of it *)
ListenInv == ~hasLog /\ crashes = 0 => StartInv /\ HeldInv /\ OrderInv /\ TableInv /\ DueInv

(* The steps of an engine without a log that is not stopped. *)
LEMMA ListenSteps ==
  ASSUME Types, RestInv, ~hasLog, crashes = 0, crashes' = 0, StartInv, [Next]_vars
  PROVE  \/ \E k \in Keys, del \in BOOLEAN : Change(k, del)
         \/ Write \/ Checkpoint \/ StartCopy \/ ReadPage \/ ReadFails \/ HandRow \/ Copied
         \/ Follow \/ Hold \/ HandHeld \/ Overflow \/ GivesUp \/ UNCHANGED vars
<1>1. ~Open
  BY DEF Open, RestInv
<1>2. ~StartFollow
  BY DEF StartFollow, StartInv
<1>3. ~Crash
  BY DEF Crash
<1> QED BY <1>1, <1>2, <1>3 DEF Next, Works

(* A queue that gets an item has it last; of other keys it has what it had. *)
LEMMA PutFacts ==
  ASSUME Types, NEW x \in Items, pipe' = Append(pipe, x)
  PROVE  /\ \A i \in DOMAIN pipe' : (i \in DOMAIN pipe /\ pipe'[i] = pipe[i]) \/ pipe'[i] = x
         /\ \A i \in DOMAIN pipe : i \in DOMAIN pipe' /\ pipe'[i] = pipe[i]
         /\ \A k : k # x.key => (PipeK(k)' <=> PipeK(k))
         /\ \E n \in DOMAIN pipe' : pipe'[n] = x /\ \A i \in DOMAIN pipe' : ~(i > n)
<1>1. /\ Len(pipe) \in Nat /\ DOMAIN pipe = 1 .. Len(pipe) /\ DOMAIN pipe' = 1 .. Len(pipe) + 1
      /\ \A i \in DOMAIN pipe : i \in DOMAIN pipe' /\ pipe'[i] = pipe[i]
      /\ pipe'[Len(pipe) + 1] = x
      /\ \A i \in DOMAIN pipe' : i \in DOMAIN pipe \/ i = Len(pipe) + 1
  BY AppendFacts DEF Types, PipeType
<1>2. \A i \in DOMAIN pipe' : (i \in DOMAIN pipe /\ pipe'[i] = pipe[i]) \/ pipe'[i] = x
  BY <1>1
<1>3. \A k : k # x.key => (PipeK(k)' <=> PipeK(k))
  BY <1>1, <1>2 DEF PipeK
<1>4. Len(pipe) + 1 \in DOMAIN pipe' /\ \A i \in DOMAIN pipe' : ~(i > Len(pipe) + 1)
  BY <1>1
<1> QED BY <1>1, <1>2, <1>3, <1>4

(* A row of the copy is put into the queue. *)
LEMMA RowPut ==
  ASSUME Types, OrderInv, HandRow
  PROVE  \E x \in Items, r \in page :
           /\ pipe' = Append(pipe, x) /\ x.key = r.key /\ x.ver = r.ver
           /\ x.cursor.kind = "row" /\ x.cursor.at = next
           /\ after' = r.key /\ page' = page \ {r}
           /\ \A s \in page : r.key <= s.key
<1>1. PICK r \in page :
         /\ \A s \in page : r.key <= s.key
         /\ pipe' = Accepted(Item(r.key, r.ver, RowCursor(next, r.key, from)))
         /\ after' = r.key /\ page' = page \ {r}
  BY DEF HandRow
<1>2. next \in Nat /\ from \in Nat /\ saved \in Cursors /\ saved.at \in Nat
  BY CursorFacts DEF Types, SourceType, TargetType, StreamType
<1>3. PICK c : c = RowCursor(next, r.key, from)
  OBVIOUS
<1>4. c \in Cursors /\ c.kind = "row" /\ c.at = next
  BY <1>2, <1>3, CursorTypes, PageFacts
<1>5. PICK x : x = Item(r.key, r.ver, c)
  OBVIOUS
<1>6. x \in Items
  BY <1>4, <1>5, PageFacts, ItemType, Zenon
<1>7. x.key = r.key /\ x.ver = r.ver /\ x.cursor = c
  BY <1>5 DEF Item
<1>8. CursorAfter(c, saved)
  <2>1. OfCopy(saved)
    BY DEF OrderInv, HandRow
  <2> QED BY <1>2, <1>4, <2>1 DEF OfCopy, CursorAfter, Copies
<1>9. pipe' = Append(pipe, x)
  BY <1>1, <1>3, <1>5, <1>7, <1>8 DEF Accepted
<1> QED BY <1>1, <1>4, <1>6, <1>7, <1>9

(* The end of the copy is a notice. *)
LEMMA DonePut ==
  ASSUME Types, Copied
  PROVE  pipe' = pipe \/ \E x \in Items : pipe' = Append(pipe, x) /\ x.key = Notice /\ x.cursor.kind = "done"
<1>1. pipe' = Accepted(Item(Notice, 0, DoneCursor(next, from)))
  BY DEF Copied
<1>2. next \in Nat /\ from \in Nat
  BY DEF Types, SourceType, StreamType
<1>3. PICK c : c = DoneCursor(next, from)
  OBVIOUS
<1>4. c \in Cursors /\ c.kind = "done" /\ Notice \in {0} \union Keys /\ 0 \in 0 .. MaxLog + 1
  BY <1>2, <1>3, CursorTypes, ConstFacts DEF Notice
<1>5. PICK x : x = Item(Notice, 0, c)
  OBVIOUS
<1>6. x \in Items /\ pipe' = Accepted(x)
  BY <1>1, <1>3, <1>4, <1>5, ItemType, Zenon
<1>7. x.key = Notice /\ x.cursor = c
  BY <1>5 DEF Item
<1>8. pipe' = pipe \/ pipe' = Append(pipe, x)
  BY <1>6, AcceptedType DEF Types
<1> QED BY <1>4, <1>6, <1>7, <1>8

(* What is heard now is the key's row, or the key changes again. *)
LEMMA HeardNow ==
  ASSUME Types, SrcInv, ~hasLog, pos < Len(log)
  PROVE  \E x \in Items :
           /\ x = Heard(pos + 1) /\ x.key \in Keys /\ x.cursor.kind = "log" /\ x.cursor.at = pos + 1
           /\ x.ver = src[x.key] \/ Ch(x.key, pos + 1)
           /\ \A k : k # x.key /\ Ch(k, pos) => Ch(k, pos + 1)
<1>1. /\ pos \in Nat /\ Len(log) \in Nat /\ DOMAIN log = 1 .. Len(log) /\ pos + 1 \in 1 .. Len(log)
      /\ pos + 1 \in Nat
  BY DEF Types, SourceType, StreamType
<1>2. PICK x : x = Heard(pos + 1)
  OBVIOUS
<1>3. x \in Items /\ x.key \in Keys /\ x.key = log[pos + 1].key /\ x.cursor = LogCursor(pos + 1)
  BY <1>1, <1>2, HeardType DEF Types
<1>4. x.cursor.kind = "log" /\ x.cursor.at = pos + 1
  BY <1>1, <1>3, CursorTypes
<1>5. x.ver = src[x.key] \/ Ch(x.key, pos + 1)
  <2>1. CASE \E m \in DOMAIN log : m > pos + 1 /\ log[m].key = log[pos + 1].key
    BY <1>3, <2>1 DEF Ch
  <2>2. CASE \A m \in DOMAIN log : m > pos + 1 => log[m].key # log[pos + 1].key
    <3>1. src[log[pos + 1].key] = IF log[pos + 1].del THEN 0 ELSE (pos + 1) + 1
      BY <1>1, <2>2 DEF SrcInv
    <3>2. x.ver = IF log[pos + 1].del THEN 0
                  ELSE IF src[log[pos + 1].key] # 0 THEN src[log[pos + 1].key] ELSE (pos + 1) + 1
      BY <1>2 DEF Heard, Item
    <3> QED BY <1>3, <3>1, <3>2
  <2> QED BY <2>1, <2>2
<1>6. ASSUME NEW k, k # x.key, Ch(k, pos) PROVE Ch(k, pos + 1)
  <2>1. PICK n \in DOMAIN log : log[n].key = k /\ n > pos
    BY <1>6 DEF Ch
  <2>2. n # pos + 1
    BY <1>3, <1>6, <2>1
  <2>3. n > pos + 1
    BY <1>1, <2>1, <2>2
  <2> QED BY <2>1, <2>3 DEF Ch
<1> QED BY <1>2, <1>3, <1>4, <1>5, <1>6

(* A change that the stream takes is put into the queue. *)
LEMMA ChangePut ==
  ASSUME Types, SrcInv, ~hasLog, OrderInv, Follow
  PROVE  /\ pos \in Nat /\ pos' = pos + 1
         /\ \E x \in Items :
              /\ pipe' = Append(pipe, x) /\ x.key \in Keys /\ x.cursor.kind = "log" /\ x.cursor.at = pos + 1
              /\ x.ver = src[x.key] \/ Ch(x.key, pos + 1)
              /\ \A k : k # x.key /\ Ch(k, pos) => Ch(k, pos + 1)
<1>1. pos < Len(log) /\ pos' = pos + 1 /\ pipe' = Accepted(Heard(pos + 1))
  BY DEF Follow
<1>2. pos \in Nat /\ saved \in Cursors /\ saved.at \in Nat /\ saved.kind \in {"none", "row", "done", "log"}
  BY CursorFacts DEF Types, SourceType, TargetType, StreamType
<1>3. PICK x \in Items :
           /\ x = Heard(pos + 1) /\ x.key \in Keys /\ x.cursor.kind = "log" /\ x.cursor.at = pos + 1
           /\ x.ver = src[x.key] \/ Ch(x.key, pos + 1)
           /\ \A k : k # x.key /\ Ch(k, pos) => Ch(k, pos + 1)
  BY <1>1, HeardNow
<1>4. CursorAfter(x.cursor, saved)
  <2>1. saved.kind = "log" => saved.at <= pos
    BY DEF OrderInv, Ahead
  <2> QED BY <1>2, <1>3, <2>1 DEF CursorAfter, Copies
<1>5. pipe' = Append(pipe, x)
  BY <1>1, <1>3, <1>4 DEF Accepted
<1> QED BY <1>1, <1>2, <1>3, <1>5

(* The oldest of what is held back is put into the queue. *)
LEMMA HeldPut ==
  ASSUME Types, HeldInv, OrderInv, HandHeld
  PROVE  \/ held = {} /\ held' = held /\ pipe' = pipe /\ phase' = "follow"
         \/ \E h \in held :
              /\ h \in Items /\ pipe' = Append(pipe, h) /\ held' = held \ {h} /\ phase' = phase
              /\ \A g \in held : h.cursor.at <= g.cursor.at
<1>1. CASE held = {} /\ phase' = "follow" /\ UNCHANGED <<held, pipe>>
  BY <1>1
<1>2. CASE \E h \in held :
              /\ \A g \in held : h.cursor.at <= g.cursor.at
              /\ pipe' = Accepted(h) /\ held' = held \ {h} /\ UNCHANGED phase
  <2>1. PICK h \in held :
              /\ \A g \in held : h.cursor.at <= g.cursor.at
              /\ pipe' = Accepted(h) /\ held' = held \ {h} /\ phase' = phase
    BY <1>2
  <2>2. h \in Items /\ saved \in Cursors
    BY DEF Types, TargetType, StreamType
  <2>3. saved.kind \in {"none", "row", "done", "log"} /\ saved.at \in Nat /\ h.cursor.at \in Nat
    BY <2>2, CursorFacts
  <2>4. h.cursor.kind = "log" /\ (saved.kind = "log" => saved.at < h.cursor.at)
    BY <2>1 DEF HeldInv, OrderInv, Ahead
  <2>5. CursorAfter(h.cursor, saved)
    BY <2>3, <2>4 DEF CursorAfter, Copies
  <2>6. pipe' = Append(pipe, h)
    BY <2>1, <2>5 DEF Accepted
  <2> QED BY <2>1, <2>2, <2>6
<1> QED BY <1>1, <1>2 DEF HandHeld

(* No step but a stop takes the bridge back to where it began. *)
LEMMA StartNext ==
  ASSUME Types, PlaceInv, RestInv, ~hasLog, crashes = 0, crashes' = 0, StartInv, [Next]_vars
  PROVE  StartInv'
<1>1. CASE (\E k \in Keys, del \in BOOLEAN : Change(k, del)) \/ UNCHANGED vars
  <2>1. phase' = phase /\ saved' = saved /\ dest' = dest
    BY <1>1, ChangeLeaves DEF vars
  <2> QED BY <2>1 DEF StartInv
<1>2. CASE Write \/ Checkpoint
  <2>1. phase' = phase /\ pipe # <<>>
    BY <1>2 DEF Write, Checkpoint, PlaceInv
  <2> QED BY <2>1 DEF StartInv, RestInv
<1>3. CASE StartCopy \/ ReadPage \/ ReadFails \/ HandRow \/ Copied \/ Follow \/ Hold \/ HandHeld \/ Overflow \/ GivesUp
  <2>1. phase' # "off"
    <3>1. CASE StartCopy \/ ReadPage \/ ReadFails \/ HandRow \/ Copied
      BY <3>1 DEF StartCopy, ReadPage, ReadFails, HandRow, Copied
    <3>2. CASE Follow \/ Hold \/ HandHeld \/ Overflow \/ GivesUp
      BY <3>2 DEF Follow, Hold, HandHeld, Overflow, GivesUp
    <3> QED BY <1>3, <3>1, <3>2
  <2> QED BY <2>1 DEF StartInv
<1> QED BY <1>1, <1>2, <1>3, ListenSteps

(* Every step keeps what is held back one per key, each in its place. *)
LEMMA HeldNext ==
  ASSUME Types, PlaceInv, RestInv, SrcInv, ~hasLog, crashes = 0, crashes' = 0, StartInv, HeldInv, OrderInv,
         [Next]_vars
  PROVE  HeldInv'
<1>0. pos \in Nat /\ held \subseteq Items
  BY DEF Types, SourceType, StreamType
<1>a. ASSUME held' = held, pos' = pos, phase' = "follow" => phase = "follow" PROVE HeldInv'
  BY <1>a DEF HeldInv
<1>b. ASSUME held' = {} PROVE HeldInv'
  BY <1>b DEF HeldInv
<1>1. CASE \E k \in Keys, del \in BOOLEAN : Change(k, del)
  BY <1>1, <1>a, ChangeLeaves
<1>2. CASE Write \/ Checkpoint \/ ReadPage \/ ReadFails
  <2>1. held' = held /\ pos' = pos /\ phase' = phase
    BY <1>2 DEF Write, Checkpoint, ReadPage, ReadFails
  <2> QED BY <1>a, <2>1
<1>3. CASE HandRow \/ Copied \/ UNCHANGED vars
  <2>1. held' = held /\ pos' = pos /\ (phase' = "follow" => phase = "follow")
    BY <1>3 DEF HandRow, Copied, vars
  <2> QED BY <1>a, <2>1
<1>4. CASE StartCopy
  <2>1. held' = {}
    BY <1>4 DEF StartCopy, RestInv
  <2> QED BY <1>b, <2>1
<1>5. CASE Follow
  <2>1. held' = {}
    BY <1>5 DEF Follow, HeldInv
  <2> QED BY <1>b, <2>1
<1>6. CASE Hold
  <2>1. pos < Len(log) /\ pos' = pos + 1 /\ phase' = phase /\ phase # "follow"
    BY <1>6 DEF Hold
  <2>2. PICK x \in Items : x = Heard(pos + 1) /\ x.key \in Keys /\ x.cursor.kind = "log" /\ x.cursor.at = pos + 1
    BY <2>1, HeardNow
  <2>3. held' = {h \in held : h.key # x.key} \union {x}
    BY <1>6, <2>2 DEF Hold, HeldWith
  <2>4. \A h \in held : h.cursor.at \in Nat /\ h.cursor.at <= pos
    BY <1>0, CursorFacts DEF HeldInv
  <2>5. \A h \in held' : h.cursor.kind = "log" /\ h.cursor.at <= pos + 1 /\ h.key \in Keys
    BY <1>0, <2>2, <2>3, <2>4 DEF HeldInv
  <2>6. \A h \in held : h.cursor.at # pos + 1
    BY <1>0, <2>4
  <2>7. \A h, g \in held' : h.key = g.key \/ h.cursor.at = g.cursor.at => h = g
    BY <2>2, <2>3, <2>6 DEF HeldInv
  <2> QED BY <2>1, <2>5, <2>7 DEF HeldInv
<1>7. CASE HandHeld
  <2>1. pos' = pos
    BY <1>7 DEF HandHeld
  <2>2. CASE held = {} /\ held' = held
    BY <1>b, <2>2
  <2>3. CASE ~(held = {} /\ held' = held)
    <3>1. held' \subseteq held /\ phase' = phase
      BY <1>7, <2>3, HeldPut
    <3> QED BY <2>1, <3>1 DEF HeldInv
  <2> QED BY <2>2, <2>3
<1>8. CASE Overflow \/ GivesUp
  BY <1>8, <1>b DEF Overflow, GivesUp, Dropped
<1> QED BY <1>1, <1>2, <1>3, <1>4, <1>5, <1>6, <1>7, <1>8, ListenSteps

(* Every step keeps the queue ahead of what is held and of the copy. *)
LEMMA OrderNext ==
  ASSUME Types, PlaceInv, RestInv, SrcInv, ~hasLog, crashes = 0, crashes' = 0, StartInv, HeldInv, OrderInv,
         [Next]_vars
  PROVE  OrderInv'
<1>0. /\ pos \in Nat /\ next \in Nat /\ held \subseteq Items /\ pipe \in Seq(Items) /\ saved \in Cursors /\ saved.at \in Nat
      /\ \A i \in DOMAIN pipe : pipe[i] \in Items /\ pipe[i].cursor.at \in Nat
  <2>1. pos \in Nat /\ next \in Nat /\ held \subseteq Items /\ pipe \in Seq(Items) /\ saved \in Cursors
    BY DEF Types, SourceType, TargetType, StreamType, PipeType
  <2>2. \A i \in DOMAIN pipe : pipe[i] \in Items
    BY <2>1
  <2> QED BY <2>1, <2>2, CursorFacts
<1>a. ASSUME held' = held, pos' = pos, saved' = saved, pipe' = pipe, next' = next, phase' = "copy" => phase = "copy"
      PROVE  OrderInv'
  BY <1>a DEF OrderInv, Ahead, OfCopy
<1>b. ASSUME held' = {}, pipe' = <<>>, saved' = saved, pos' = pos, phase' # "copy" PROVE OrderInv'
  BY <1>b DEF OrderInv, Ahead
<1>1. CASE \E k \in Keys, del \in BOOLEAN : Change(k, del)
  BY <1>1, <1>a, ChangeLeaves
<1>2. CASE Write \/ ReadPage \/ ReadFails \/ UNCHANGED vars
  <2>1. held' = held /\ pos' = pos /\ saved' = saved /\ pipe' = pipe /\ next' = next /\ phase' = phase
    <3>1. CASE Write \/ UNCHANGED vars
      BY <3>1 DEF Write, vars, copyVars
    <3>2. CASE ReadPage \/ ReadFails
      BY <3>2 DEF ReadPage, ReadFails
    <3> QED BY <1>2, <3>1, <3>2
  <2> QED BY <1>a, <2>1
<1>3. CASE Checkpoint
  <2>1. /\ held' = held /\ pos' = pos /\ next' = next /\ phase' = phase
        /\ pipe # <<>> /\ pipe' = Tail(pipe) /\ saved' = Head(pipe).cursor
    BY <1>3 DEF Checkpoint, PlaceInv, copyVars
  <2>2. /\ Head(pipe) = pipe[1] /\ 1 \in DOMAIN pipe
        /\ \A i \in DOMAIN pipe' : i + 1 \in DOMAIN pipe /\ pipe'[i] = pipe[i + 1]
    BY <1>0, <2>1, TailFacts
  <2>3. saved' = pipe[1].cursor
    BY <2>1, <2>2
  <2> QED BY <2>1, <2>2, <2>3 DEF OrderInv, Ahead, OfCopy
<1>4. CASE StartCopy
  <2>1. held' = {} /\ saved' = saved /\ pipe' = <<>> /\ saved.kind = "none"
    BY <1>4 DEF StartCopy, RestInv, StartInv
  <2> QED BY <2>1 DEF OrderInv, Ahead, OfCopy
<1>c. ASSUME saved' = saved, NEW x \in Items, pipe' = Append(pipe, x),
             \A c \in Cursors : Ahead(c) => Ahead(c)',
             Ahead(x.cursor)',
             phase' = "copy" => phase = "copy" /\ OfCopy(x.cursor)' /\ next <= next' /\ next' \in Nat
      PROVE  OrderInv'
  <2>1. \A i \in DOMAIN pipe' : (i \in DOMAIN pipe /\ pipe'[i] = pipe[i]) \/ pipe'[i] = x
    BY <1>c, PutFacts
  <2>2. \A i \in DOMAIN pipe : pipe[i].cursor \in Cursors
    BY <1>0, CursorFacts
  <2>3. ASSUME NEW c \in Cursors, OfCopy(c), phase' = "copy" PROVE OfCopy(c)'
    <3>1. c.at \in Nat /\ next <= next' /\ next' \in Nat
      BY <1>c, <2>3, CursorFacts
    <3>2. c.at < next => c.at < next'
      BY <1>0, <3>1
    <3> QED BY <2>3, <3>2 DEF OfCopy
  <2>4. ASSUME NEW i \in DOMAIN pipe' PROVE Ahead(pipe[i].cursor)' /\ (phase' = "copy" => OfCopy(pipe[i].cursor)')
    <3>1. CASE pipe'[i] = x
      <4>1. PICK c : c = x.cursor
        OBVIOUS
      <4>2. Ahead(c)' /\ (phase' = "copy" => OfCopy(c)')
        BY <1>c, <4>1
      <4>3. pipe'[i].cursor = c
        BY <3>1, <4>1
      <4> QED BY <4>2, <4>3 DEF Ahead, OfCopy
    <3>2. CASE pipe'[i] # x
      <4>1. i \in DOMAIN pipe /\ pipe'[i] = pipe[i]
        BY <2>1, <3>2
      <4>2. PICK c \in Cursors : c = pipe[i].cursor
        BY <2>2, <4>1
      <4>3. Ahead(c) /\ (phase = "copy" => OfCopy(c))
        BY <4>1, <4>2 DEF OrderInv
      <4>4. Ahead(c)' /\ (phase' = "copy" => OfCopy(c)')
        BY <1>c, <2>3, <4>3
      <4>5. pipe'[i].cursor = c
        BY <4>1, <4>2
      <4> QED BY <4>4, <4>5 DEF Ahead, OfCopy
    <3> QED BY <3>1, <3>2
  <2>5. Ahead(saved)' /\ (phase' = "copy" => OfCopy(saved)')
    <3>1. PICK c \in Cursors : c = saved
      BY <1>0
    <3>2. Ahead(c)' /\ (phase' = "copy" => OfCopy(c)')
      BY <1>c, <2>3, <3>1 DEF OrderInv
    <3> QED BY <1>c, <3>1, <3>2 DEF Ahead, OfCopy
  <2> QED BY <2>4, <2>5 DEF OrderInv
<1>5. CASE HandRow
  <2>1. PICK x \in Items : pipe' = Append(pipe, x) /\ x.cursor.kind = "row" /\ x.cursor.at = next
    BY <1>5, RowPut
  <2>2. saved' = saved /\ held' = held /\ pos' = pos /\ next' = next + 1 /\ phase = "copy"
    BY <1>5 DEF HandRow
  <2>3. \A c \in Cursors : Ahead(c) => Ahead(c)'
    BY <2>2 DEF Ahead
  <2>4. Ahead(x.cursor)'
    BY <2>1 DEF Ahead
  <2>5. next < next' /\ next <= next' /\ next' \in Nat
    BY <1>0, <2>2
  <2>6. OfCopy(x.cursor)'
    BY <2>1, <2>5 DEF OfCopy
  <2> QED BY <1>c, <2>1, <2>2, <2>3, <2>4, <2>5, <2>6
<1>6. CASE Copied
  <2>1. saved' = saved /\ held' = held /\ pos' = pos /\ phase' # "copy"
    BY <1>6 DEF Copied
  <2>2. CASE pipe' = pipe
    BY <2>1, <2>2 DEF OrderInv, Ahead
  <2>3. CASE pipe' # pipe
    <3>1. PICK x \in Items : pipe' = Append(pipe, x) /\ x.cursor.kind = "done"
      BY <1>6, <2>3, DonePut
    <3>2. \A c \in Cursors : Ahead(c) => Ahead(c)'
      BY <2>1 DEF Ahead
    <3>3. Ahead(x.cursor)'
      BY <3>1 DEF Ahead
    <3> QED BY <1>c, <2>1, <3>1, <3>2, <3>3
  <2> QED BY <2>2, <2>3
<1>7. CASE Follow
  <2>1. saved' = saved /\ held' = held /\ held = {} /\ phase' # "copy"
    BY <1>7 DEF Follow, HeldInv
  <2>2. pos' = pos + 1
    BY <1>7, ChangePut
  <2>3. PICK x \in Items : pipe' = Append(pipe, x) /\ x.cursor.at = pos + 1
    BY <1>7, ChangePut
  <2>4. \A c \in Cursors : Ahead(c) => Ahead(c)'
    <3> SUFFICES ASSUME NEW c \in Cursors, Ahead(c), c.kind = "log" PROVE c.at <= pos'
      BY <2>1 DEF Ahead
    <3>1. c.at \in Nat /\ c.at <= pos
      BY CursorFacts DEF Ahead
    <3> QED BY <1>0, <2>2, <3>1
  <2>5. Ahead(x.cursor)'
    <3>1. pos + 1 <= pos'
      BY <1>0, <2>2
    <3> QED BY <2>1, <2>3, <3>1 DEF Ahead
  <2> QED BY <1>c, <2>1, <2>3, <2>4, <2>5
<1>8. CASE Hold
  <2>1. pos < Len(log) /\ pos' = pos + 1 /\ phase' = phase /\ saved' = saved /\ pipe' = pipe /\ next' = next
    BY <1>8 DEF Hold, copyVars
  <2>2. PICK x \in Items : x = Heard(pos + 1) /\ x.cursor.at = pos + 1
    BY <2>1, HeardNow
  <2>3. held' = {h \in held : h.key # x.key} \union {x}
    BY <1>8, <2>2 DEF Hold, HeldWith
  <2>4. ASSUME NEW c \in Cursors, Ahead(c) PROVE Ahead(c)'
    <3> SUFFICES ASSUME c.kind = "log" PROVE c.at <= pos' /\ \A h \in held' : c.at < h.cursor.at
      BY DEF Ahead
    <3>1. c.at \in Nat /\ c.at <= pos /\ \A h \in held : c.at < h.cursor.at
      BY <2>4, CursorFacts DEF Ahead
    <3>2. c.at <= pos' /\ c.at < pos + 1
      BY <1>0, <2>1, <3>1
    <3> QED BY <2>2, <2>3, <3>1, <3>2
  <2>5. Ahead(saved)'
    <3>1. PICK c \in Cursors : c = saved
      BY <1>0
    <3>2. Ahead(c)'
      BY <2>4, <3>1 DEF OrderInv
    <3> QED BY <2>1, <3>1, <3>2 DEF Ahead
  <2>6. ASSUME NEW i \in DOMAIN pipe' PROVE Ahead(pipe[i].cursor)'
    <3>1. PICK c \in Cursors : c = pipe[i].cursor
      BY <1>0, <2>1, CursorFacts
    <3>2. Ahead(c)'
      BY <2>1, <2>4, <3>1 DEF OrderInv
    <3>3. pipe'[i].cursor = c
      BY <2>1, <3>1
    <3> QED BY <3>2, <3>3 DEF Ahead
  <2> QED BY <2>1, <2>5, <2>6 DEF OrderInv, OfCopy
<1>9. CASE HandHeld
  <2>1. saved' = saved /\ pos' = pos /\ next' = next /\ phase = "hand"
    BY <1>9 DEF HandHeld, copyVars
  <2>2. CASE held = {} /\ held' = held /\ pipe' = pipe /\ phase' = "follow"
    BY <1>a, <2>1, <2>2
  <2>3. CASE ~(held = {} /\ held' = held /\ pipe' = pipe /\ phase' = "follow")
    <3>1. PICK h \in held :
              /\ h \in Items /\ pipe' = Append(pipe, h) /\ held' = held \ {h} /\ phase' = phase
              /\ \A g \in held : h.cursor.at <= g.cursor.at
      BY <1>9, <2>3, HeldPut
    <3>2. \A c \in Cursors : Ahead(c) => Ahead(c)'
      BY <2>1, <3>1 DEF Ahead
    <3>3. \A g \in held : g.cursor.at \in Nat
      BY <1>0, CursorFacts
    <3>4. \A g \in held' : h.cursor.at < g.cursor.at
      <4> SUFFICES ASSUME NEW g \in held' PROVE h.cursor.at < g.cursor.at
        OBVIOUS
      <4>1. g \in held /\ g # h
        BY <3>1
      <4>2. h.cursor.at # g.cursor.at /\ h.cursor.at <= g.cursor.at
        BY <3>1, <4>1 DEF HeldInv
      <4> QED BY <3>3, <4>1, <4>2
    <3>5. Ahead(h.cursor)'
      BY <2>1, <3>1, <3>4 DEF Ahead, HeldInv
    <3> QED BY <1>c, <2>1, <3>1, <3>2, <3>5
  <2> QED BY <2>2, <2>3
<1>10. CASE Overflow \/ GivesUp
  <2>1. held' = {} /\ pipe' = <<>> /\ saved' = saved /\ pos' = pos /\ phase' # "copy"
    BY <1>10 DEF Overflow, GivesUp, Dropped
  <2> QED BY <1>b, <2>1
<1> QED BY <1>1, <1>2, <1>3, <1>4, <1>5, <1>6, <1>7, <1>8, <1>9, <1>10, ListenSteps

(* What is held back after one more change of a key: that change, and the *)
(* others of the other keys.                                              *)
LEMMA HoldFacts ==
  ASSUME Types, SrcInv, ~hasLog, Hold
  PROVE  /\ pos' = pos + 1 /\ phase' = phase /\ saved' = saved /\ pipe' = pipe /\ dest' = dest /\ src' = src /\ log' = log
         /\ page' = page /\ ended' = ended /\ after' = after
         /\ \E x \in Items :
              /\ x.key \in Keys
              /\ x.ver = src[x.key] \/ Ch(x.key, pos + 1)
              /\ \A k : k # x.key /\ Ch(k, pos) => Ch(k, pos + 1)
              /\ x \in held'
              /\ \A h \in held' : h = x \/ h \in held
              /\ \A h \in held : h.key # x.key => h \in held'
<1>1. pos < Len(log) /\ held' = HeldWith(Heard(pos + 1))
  BY DEF Hold
<1>2. /\ pos' = pos + 1 /\ phase' = phase /\ saved' = saved /\ pipe' = pipe /\ dest' = dest /\ src' = src /\ log' = log
      /\ page' = page /\ ended' = ended /\ after' = after
  BY DEF Hold, sourceVars, copyVars
<1>3. PICK x \in Items :
           /\ x = Heard(pos + 1) /\ x.key \in Keys
           /\ x.ver = src[x.key] \/ Ch(x.key, pos + 1)
           /\ \A k : k # x.key /\ Ch(k, pos) => Ch(k, pos + 1)
  BY <1>1, HeardNow
<1>4. held' = {h \in held : h.key # x.key} \union {x}
  BY <1>1, <1>3 DEF HeldWith
<1>5. x \in held' /\ (\A h \in held' : h = x \/ h \in held) /\ \A h \in held : h.key # x.key => h \in held'
  BY <1>4
<1> QED BY <1>2, <1>3, <1>5

(* Every step of the copy keeps the rest of the table out of the way. *)
LEMMA TableNext ==
  ASSUME Types, PlaceInv, RestInv, SrcInv, ~hasLog, crashes = 0, crashes' = 0,
         StartInv, HeldInv, OrderInv, TableInv, [Next]_vars
  PROVE  TableInv'
<1>0. /\ pos \in Nat /\ after \in Nat /\ pipe \in Seq(Items) /\ dest \in [Keys -> 0 .. MaxLog + 1] /\ Len(log) \in Nat
      /\ pos <= Len(log) /\ \A k \in Keys : k \in Nat
  BY ConstFacts, PageFacts DEF Types, SourceType, TargetType, StreamType, PipeType
<1>1. CASE \E k \in Keys, del \in BOOLEAN : Change(k, del)
  <2>1. PICK k \in Keys, del \in BOOLEAN : Change(k, del)
    BY <1>1
  <2>2. /\ dest' = dest /\ pipe' = pipe /\ phase' = phase /\ page' = page /\ after' = after /\ pos' = pos /\ held' = held
        /\ \A j \in Keys \ {k} : src'[j] = src[j]
    BY <2>1, ChangeLeaves
  <2>3. PICK p : p = pos
    OBVIOUS
  <2>4. Ch(k, p)' /\ \A j \in Keys : Ch(j, p) => Ch(j, p)'
    BY <1>0, <2>1, <2>3, ChNew, ChStays
  <2>5. ASSUME phase = "copy", NEW r \in page
        PROVE  r.key > after /\ (r.ver = src'[r.key] \/ Ch(r.key, p)' \/ HeldK(r.key))
    <3>1. r.key \in Keys /\ r.key > after /\ (r.ver = src[r.key] \/ Ch(r.key, p) \/ HeldK(r.key))
      BY <2>3, <2>5, PageFacts DEF TableInv
    <3> QED BY <2>2, <2>4, <3>1
  <2>6. \A j : (Ch(j, pos)' <=> Ch(j, p)') /\ (HeldK(j)' <=> HeldK(j)) /\ (PipeK(j)' <=> PipeK(j))
    BY <2>2, <2>3 DEF HeldK, PipeK
  <2> QED BY <2>2, <2>5, <2>6 DEF TableInv
<1>a. ASSUME phase' = phase, after' = after, src' = src, log' = log, pos' = pos, held' = held, page' \subseteq page,
             \A k : PipeK(k)' => PipeK(k), \A k \in Keys : dest'[k] = dest[k] \/ PipeK(k)
      PROVE  TableInv'
  BY <1>a DEF TableInv, Ch, HeldK
<1>2. CASE Write
  <2>1. /\ phase' = phase /\ after' = after /\ src' = src /\ log' = log /\ pos' = pos /\ held' = held /\ page' = page
        /\ pipe' = pipe /\ pipe # <<>>
        /\ dest' = IF Head(pipe).key = Notice THEN dest ELSE [dest EXCEPT ![Head(pipe).key] = Head(pipe).ver]
    BY <1>2 DEF Write, sourceVars, copyVars
  <2>2. Head(pipe) = pipe[1] /\ 1 \in DOMAIN pipe
    BY <1>0, <2>1, TailFacts
  <2>3. \A k \in Keys : dest'[k] = dest[k] \/ PipeK(k)
    BY <1>0, <2>1, <2>2 DEF PipeK
  <2>4. \A k : PipeK(k)' => PipeK(k)
    BY <2>1 DEF PipeK
  <2> QED BY <1>a, <2>1, <2>3, <2>4
<1>3. CASE Checkpoint
  <2>1. /\ phase' = phase /\ after' = after /\ src' = src /\ log' = log /\ pos' = pos /\ held' = held /\ page' = page
        /\ pipe' = Tail(pipe) /\ pipe # <<>> /\ dest' = dest
    BY <1>3 DEF Checkpoint, PlaceInv, sourceVars, copyVars
  <2>2. \A i \in DOMAIN pipe' : i + 1 \in DOMAIN pipe /\ pipe'[i] = pipe[i + 1]
    BY <1>0, <2>1, TailFacts
  <2>3. \A k : PipeK(k)' => PipeK(k)
    BY <2>2 DEF PipeK
  <2> QED BY <1>a, <2>1, <2>3
<1>4. CASE StartCopy
  <2>1. pipe' = <<>> /\ page' = {} /\ dest' = dest /\ \A k \in Keys : dest[k] = 0
    BY <1>4 DEF StartCopy, RestInv, StartInv, Fresh
  <2> QED BY <2>1 DEF TableInv, PipeK
<1>5. CASE ReadPage
  <2>1. PICK S \in SUBSET RowsAfter(after) : page' = {[key |-> i, ver |-> src[i]] : i \in S}
    BY <1>5 DEF ReadPage
  <2>2. phase = "copy" /\ after' = after /\ src' = src /\ dest' = dest /\ pipe' = pipe
    BY <1>5 DEF ReadPage, sourceVars
  <2>3. \A r \in page' : r.key > after /\ r.ver = src[r.key] /\ r = [key |-> r.key, ver |-> src[r.key]]
    BY <2>1 DEF RowsAfter
  <2>4. \A r, s \in page' : r.key = s.key => r = s
    BY <2>3
  <2>5. \A k \in Keys : k > after' => dest'[k] = 0 /\ ~PipeK(k)'
    BY <2>2 DEF TableInv, PipeK
  <2> QED BY <2>2, <2>3, <2>4, <2>5 DEF TableInv
<1>6. CASE ReadFails \/ UNCHANGED vars
  <2>1. /\ phase' = phase /\ after' = after /\ src' = src /\ log' = log /\ pos' = pos /\ held' = held
        /\ page' \subseteq page /\ pipe' = pipe /\ dest' = dest
    BY <1>6 DEF ReadFails, vars, sourceVars, copyVars
  <2>2. \A k : PipeK(k)' => PipeK(k)
    BY <2>1 DEF PipeK
  <2> QED BY <1>a, <2>1, <2>2
<1>7. CASE HandRow
  <2>1. PICK x \in Items, r \in page :
           /\ pipe' = Append(pipe, x) /\ x.key = r.key
           /\ after' = r.key /\ page' = page \ {r}
           /\ \A s \in page : r.key <= s.key
    BY <1>7, RowPut
  <2>2. phase = "copy" /\ src' = src /\ log' = log /\ pos' = pos /\ held' = held /\ dest' = dest
    BY <1>7 DEF HandRow, sourceVars
  <2>3. \A s \in page : s.key \in Nat /\ s.key \in Keys
    BY PageFacts
  <2>4. r.key > after
    BY <2>2 DEF TableInv
  <2>5. ASSUME NEW k \in Keys, k > r.key PROVE dest'[k] = 0 /\ ~PipeK(k)'
    <3>1. k > after /\ k # r.key
      BY <1>0, <2>3, <2>4, <2>5
    <3>2. dest[k] = 0 /\ ~PipeK(k)
      BY <2>2, <3>1 DEF TableInv
    <3>3. PipeK(k)' <=> PipeK(k)
      BY <2>1, <3>1, PutFacts
    <3> QED BY <2>2, <3>2, <3>3
  <2>6. ASSUME NEW s \in page' PROVE s.key > r.key /\ s \in page
    <3>1. s \in page /\ s # r
      BY <2>1
    <3>2. s.key # r.key /\ r.key <= s.key
      BY <2>1, <2>2, <3>1 DEF TableInv
    <3> QED BY <2>3, <3>1, <3>2
  <2>7. \A s \in page' : s.ver = src'[s.key] \/ Ch(s.key, pos)' \/ HeldK(s.key)'
    BY <2>2, <2>6 DEF TableInv, Ch, HeldK
  <2>8. \A s, t \in page' : s.key = t.key => s = t
    BY <2>2, <2>6 DEF TableInv
  <2>9. \A k \in Keys : k > after' => dest'[k] = 0 /\ ~PipeK(k)'
    BY <2>1, <2>5
  <2>10. \A s \in page' : s.key > after'
    BY <2>1, <2>6
  <2> QED BY <2>7, <2>8, <2>9, <2>10 DEF TableInv
<1>8. CASE Hold
  <2>1. /\ pos' = pos + 1 /\ phase' = phase /\ pipe' = pipe /\ dest' = dest /\ src' = src /\ log' = log
        /\ page' = page /\ after' = after
    BY <1>8, HoldFacts
  <2>2. PICK x \in Items :
           /\ \A k : k # x.key /\ Ch(k, pos) => Ch(k, pos + 1)
           /\ x \in held'
           /\ \A h \in held : h.key # x.key => h \in held'
    BY <1>8, HoldFacts
  <2>3. \A k : HeldK(k) => HeldK(k)'
    BY <2>2 DEF HeldK
  <2>4. \A k : Ch(k, pos) => Ch(k, pos)' \/ HeldK(k)'
    <3>1. \A k : Ch(k, pos + 1) <=> Ch(k, pos)'
      BY <2>1 DEF Ch
    <3> QED BY <2>2, <3>1 DEF HeldK
  <2>5. \A k : PipeK(k)' <=> PipeK(k)
    BY <2>1 DEF PipeK
  <2> QED BY <2>1, <2>3, <2>4, <2>5 DEF TableInv
<1>9. CASE Copied \/ Follow \/ HandHeld \/ Overflow \/ GivesUp
  <2>1. phase' # "copy"
    <3>1. CASE Copied \/ Follow \/ HandHeld
      BY <3>1 DEF Copied, Follow, HandHeld
    <3>2. CASE Overflow \/ GivesUp
      BY <3>2 DEF Overflow, GivesUp
    <3> QED BY <1>9, <3>1, <3>2
  <2> QED BY <2>1 DEF TableInv
<1> QED BY <1>1, <1>2, <1>3, <1>4, <1>5, <1>6, <1>7, <1>8, <1>9, ListenSteps

(* A key that a step does not touch is still due where it was. *)
LEMMA DueFrame ==
  ASSUME Types, NEW k \in Keys, Due(k), src' = src \/ src'[k] = src[k], dest' = dest \/ dest'[k] = dest[k],
         \A h : h.key = k => (h \in held' <=> h \in held),
         Ch(k, pos) => Ch(k, pos)', InTable(k) => InTable(k)',
         pipe' = pipe \/ \E x \in Items : pipe' = Append(pipe, x) /\ x.key # k
  PROVE  Due(k)'
<1>0. src'[k] = src[k] /\ dest'[k] = dest[k]
  OBVIOUS
<1>1. HeldK(k)' <=> HeldK(k)
  BY DEF HeldK
<1>2. InHand(k) => InHand(k)'
  BY <1>0 DEF InHand
<1>3. CASE pipe' = pipe
  <2>1. (InQueue(k) => InQueue(k)') /\ (InPlace(k) => InPlace(k)')
    BY <1>0, <1>1, <1>3 DEF InQueue, InPlace, PipeK
  <2> QED BY <1>2, <2>1 DEF Due
<1>4. CASE \E x \in Items : pipe' = Append(pipe, x) /\ x.key # k
  <2>1. PICK x \in Items : pipe' = Append(pipe, x) /\ x.key # k
    BY <1>4
  <2>2. /\ \A i \in DOMAIN pipe' : (i \in DOMAIN pipe /\ pipe'[i] = pipe[i]) \/ pipe'[i] = x
        /\ \A i \in DOMAIN pipe : i \in DOMAIN pipe' /\ pipe'[i] = pipe[i]
        /\ PipeK(k)' <=> PipeK(k)
    BY <2>1, PutFacts
  <2>3. InPlace(k) => InPlace(k)'
    BY <1>0, <1>1, <2>2 DEF InPlace
  <2>4. InQueue(k) => InQueue(k)'
    <3> SUFFICES ASSUME InQueue(k) PROVE InQueue(k)'
      OBVIOUS
    <3>1. PICK i \in DOMAIN pipe :
             pipe[i].key = k /\ pipe[i].ver = src[k] /\ \A j \in DOMAIN pipe : j > i => pipe[j].key # k
      BY DEF InQueue
    <3>2. i \in DOMAIN pipe' /\ pipe'[i].key = k /\ pipe'[i].ver = src'[k]
      BY <1>0, <2>2, <3>1
    <3>3. \A j \in DOMAIN pipe' : j > i => pipe'[j].key # k
      BY <2>1, <2>2, <3>1
    <3> QED BY <1>1, <3>2, <3>3 DEF InQueue
  <2> QED BY <1>2, <2>3, <2>4 DEF Due
<1> QED BY <1>3, <1>4

(* A key whose row has just been put into the queue is due there. *)
LEMMA DueLast ==
  ASSUME Types, NEW k, NEW x \in Items, pipe' = Append(pipe, x), x.key = k, x.ver = src'[k], ~HeldK(k)'
  PROVE  Due(k)'
<1>1. PICK n \in DOMAIN pipe' : pipe'[n] = x /\ \A i \in DOMAIN pipe' : ~(i > n)
  BY PutFacts
<1>2. InQueue(k)'
  BY <1>1 DEF InQueue
<1> QED BY <1>2 DEF Due

(* Every step keeps every key due somewhere, or in place. *)
LEMMA DueNext ==
  ASSUME Types, PlaceInv, RestInv, SrcInv, ~hasLog, crashes = 0, crashes' = 0,
         StartInv, HeldInv, OrderInv, TableInv, DueInv, [Next]_vars
  PROVE  DueInv'
<1>0. /\ pos \in Nat /\ after \in Nat /\ pipe \in Seq(Items) /\ dest \in [Keys -> 0 .. MaxLog + 1] /\ Len(log) \in Nat
      /\ pos <= Len(log) /\ \A k \in Keys : k \in Nat /\ k > 0 /\ k # Notice
  <2>1. \A k \in Keys : k \in Nat /\ k > 0 /\ k # Notice
    BY ConstFacts DEF Keys, Notice
  <2> QED BY <2>1, PageFacts DEF Types, SourceType, TargetType, StreamType, PipeType
<1>1. CASE \E k \in Keys, del \in BOOLEAN : Change(k, del)
  <2>1. PICK k \in Keys, del \in BOOLEAN : Change(k, del)
    BY <1>1
  <2>2. /\ dest' = dest /\ pipe' = pipe /\ phase' = phase /\ page' = page /\ after' = after /\ pos' = pos /\ held' = held
        /\ ended' = ended /\ \A j \in Keys \ {k} : src'[j] = src[j]
    BY <2>1, ChangeLeaves
  <2>3. PICK p : p = pos
    OBVIOUS
  <2>4. Ch(k, p)' /\ \A j \in Keys : Ch(j, p) => Ch(j, p)'
    BY <1>0, <2>1, <2>3, ChNew, ChStays
  <2>5. \A j : Ch(j, pos)' <=> Ch(j, p)'
    BY <2>2, <2>3 DEF Ch
  <2> SUFFICES ASSUME phase \notin {"off", "fatal"}, NEW j \in Keys PROVE Due(j)'
    BY <2>2 DEF DueInv
  <2>6. CASE j = k
    BY <2>4, <2>5, <2>6 DEF Due
  <2>7. CASE j # k
    <3>1. src'[j] = src[j] /\ Due(j) /\ (Ch(j, pos) => Ch(j, pos)')
      BY <2>2, <2>3, <2>4, <2>5, <2>7 DEF DueInv
    <3>2. InTable(j) => InTable(j)'
      BY <2>2, <3>1 DEF InTable, HeldK
    <3> QED BY <2>2, <3>1, <3>2, DueFrame
  <2> QED BY <2>6, <2>7
<1>2. CASE Write
  <2>1. /\ phase' = phase /\ after' = after /\ src' = src /\ log' = log /\ pos' = pos /\ held' = held /\ page' = page
        /\ ended' = ended /\ pipe' = pipe /\ pipe # <<>>
        /\ dest' = IF Head(pipe).key = Notice THEN dest ELSE [dest EXCEPT ![Head(pipe).key] = Head(pipe).ver]
    BY <1>2 DEF Write, sourceVars, copyVars
  <2>2. Head(pipe) = pipe[1] /\ 1 \in DOMAIN pipe
    BY <1>0, <2>1, TailFacts
  <2> SUFFICES ASSUME phase \notin {"off", "fatal"}, NEW k \in Keys PROVE Due(k)'
    BY <2>1 DEF DueInv
  <2>3. /\ Due(k) /\ (Ch(k, pos) => Ch(k, pos)') /\ (InTable(k) => InTable(k)')
        /\ (InHand(k) => InHand(k)') /\ (InQueue(k) => InQueue(k)')
    BY <2>1 DEF DueInv, Ch, InTable, InHand, InQueue, HeldK
  <2>4. CASE Head(pipe).key = k
    <3>1. PipeK(k)
      BY <2>2, <2>4 DEF PipeK
    <3> QED BY <2>3, <3>1 DEF Due, InPlace
  <2>5. CASE Head(pipe).key # k
    <3>1. dest'[k] = dest[k]
      BY <1>0, <2>1, <2>5
    <3> QED BY <2>1, <2>3, <3>1, DueFrame
  <2> QED BY <2>4, <2>5
<1>3. CASE Checkpoint
  <2>1. /\ phase' = phase /\ after' = after /\ src' = src /\ log' = log /\ pos' = pos /\ held' = held /\ page' = page
        /\ ended' = ended /\ pipe' = Tail(pipe) /\ pipe # <<>> /\ dest' = dest /\ wrote
    BY <1>3 DEF Checkpoint, PlaceInv, sourceVars, copyVars
  <2>2. /\ Head(pipe) = pipe[1] /\ Len(pipe) \in Nat /\ DOMAIN pipe = 1 .. Len(pipe) /\ DOMAIN pipe' = 1 .. Len(pipe) - 1
        /\ \A i \in DOMAIN pipe' : i \in Nat /\ i + 1 \in DOMAIN pipe /\ pipe'[i] = pipe[i + 1]
    BY <1>0, <2>1, TailFacts
  <2> SUFFICES ASSUME phase \notin {"off", "fatal"}, NEW k \in Keys PROVE Due(k)'
    BY <2>1 DEF DueInv
  <2>3. /\ Due(k) /\ (Ch(k, pos) => Ch(k, pos)') /\ (InTable(k) => InTable(k)') /\ (InHand(k) => InHand(k)')
        /\ (HeldK(k)' <=> HeldK(k))
    BY <2>1 DEF DueInv, Ch, InTable, InHand, HeldK
  <2>4. InPlace(k) => InPlace(k)'
    <3>1. PipeK(k)' => PipeK(k)
      BY <2>2 DEF PipeK
    <3> QED BY <2>1, <2>3, <3>1 DEF InPlace
  <2>5. ASSUME InQueue(k) PROVE InQueue(k)' \/ InPlace(k)'
    <3>1. PICK i \in DOMAIN pipe :
             pipe[i].key = k /\ pipe[i].ver = src[k] /\ \A j \in DOMAIN pipe : j > i => pipe[j].key # k
      BY <2>5 DEF InQueue
    <3>2. ~HeldK(k)'
      BY <2>3, <2>5 DEF InQueue
    <3>3. CASE i = 1
      <4>1. dest[k] = src[k]
        BY <1>0, <2>1, <2>2, <3>1, <3>3 DEF RestInv
      <4>2. ~PipeK(k)'
        <5>1. \A j \in DOMAIN pipe' : j + 1 > 1
          BY <2>2
        <5> QED BY <2>2, <3>1, <3>3, <5>1 DEF PipeK
      <4> QED BY <2>1, <3>2, <4>1, <4>2 DEF InPlace
    <3>4. CASE i # 1
      <4>1. i - 1 \in DOMAIN pipe' /\ (i - 1) + 1 = i
        BY <2>2, <3>4
      <4>2. pipe'[i - 1].key = k /\ pipe'[i - 1].ver = src'[k]
        BY <2>1, <2>2, <3>1, <4>1
      <4>3. \A j \in DOMAIN pipe' : j > i - 1 => pipe'[j].key # k
        <5> SUFFICES ASSUME NEW j \in DOMAIN pipe', j > i - 1 PROVE pipe'[j].key # k
          OBVIOUS
        <5>1. j + 1 \in DOMAIN pipe /\ j + 1 > i /\ pipe'[j] = pipe[j + 1]
          BY <2>2
        <5> QED BY <3>1, <5>1
      <4> QED BY <3>2, <4>1, <4>2, <4>3 DEF InQueue
    <3> QED BY <3>3, <3>4
  <2> QED BY <2>3, <2>4, <2>5 DEF Due
<1>4. CASE StartCopy
  <2>1. phase' = "copy" /\ after' = 0 /\ held' = {} /\ page' = {} /\ ~ended'
    BY <1>4 DEF StartCopy, RestInv, StartInv, Fresh
  <2>2. \A k \in Keys : InTable(k)'
    BY <1>0, <2>1 DEF InTable, HeldK
  <2> QED BY <2>2 DEF DueInv, Due
<1>5. CASE ReadPage
  <2>1. PICK S \in SUBSET RowsAfter(after) :
           /\ \A i \in S : \A j \in RowsAfter(after) \ S : i < j
           /\ page' = {[key |-> i, ver |-> src[i]] : i \in S}
           /\ ended' = (S = RowsAfter(after))
    BY <1>5 DEF ReadPage
  <2>2. /\ phase = "copy" /\ phase' = phase /\ after' = after /\ src' = src /\ dest' = dest /\ pipe' = pipe /\ held' = held
        /\ pos' = pos /\ log' = log
    BY <1>5 DEF ReadPage, sourceVars
  <2> SUFFICES ASSUME NEW k \in Keys PROVE Due(k)'
    BY DEF DueInv
  <2>3. Due(k) /\ (Ch(k, pos) => Ch(k, pos)') /\ (HeldK(k)' <=> HeldK(k)) /\ (PipeK(k)' <=> PipeK(k))
    BY <2>2 DEF DueInv, Ch, HeldK, PipeK
  <2>4. CASE ~InTable(k)
    BY <2>2, <2>3, <2>4, DueFrame
  <2>5. CASE InTable(k)
    <3>1. k > after /\ ~HeldK(k)
      BY <2>5 DEF InTable
    <3>2. CASE k \in S
      <4>1. [key |-> k, ver |-> src[k]] \in page'
        BY <2>1, <3>2
      <4> QED BY <2>2, <2>3, <3>1, <4>1 DEF InTable, Due
    <3>3. CASE k \in RowsAfter(after) \ S
      <4>1. ~ended'
        BY <2>1, <3>3
      <4>2. \A r \in page' : r.key \in S
        BY <2>1
      <4>3. \A i \in S : i < k
        BY <2>1, <3>3
      <4>4. \A r \in page' : r.key < k
        BY <4>2, <4>3
      <4> QED BY <2>2, <2>3, <3>1, <4>1, <4>4 DEF InTable, Due
    <3>4. CASE k \notin RowsAfter(after)
      <4>1. src[k] = 0
        BY <3>1, <3>4 DEF RowsAfter
      <4>2. dest[k] = 0 /\ ~PipeK(k)
        BY <2>2, <3>1 DEF TableInv
      <4>3. InPlace(k)'
        BY <2>2, <2>3, <3>1, <4>1, <4>2 DEF InPlace
      <4> QED BY <4>3 DEF Due
    <3> QED BY <3>2, <3>3, <3>4
  <2> QED BY <2>4, <2>5
<1>6. CASE ReadFails \/ UNCHANGED vars
  <2>1. /\ phase' = phase /\ after' = after /\ src' = src /\ log' = log /\ pos' = pos /\ held' = held
        /\ pipe' = pipe /\ dest' = dest
        /\ (page' = {} /\ ~ended') \/ (page' = page /\ ended' = ended)
    BY <1>6 DEF ReadFails, vars, sourceVars, copyVars
  <2> SUFFICES ASSUME phase \notin {"off", "fatal"}, NEW k \in Keys PROVE Due(k)'
    BY <2>1 DEF DueInv
  <2>2. Due(k) /\ (Ch(k, pos) => Ch(k, pos)') /\ (InTable(k) => InTable(k)')
    BY <2>1 DEF DueInv, Ch, InTable, HeldK
  <2> QED BY <2>1, <2>2, DueFrame
<1>7. CASE HandRow
  <2>1. PICK x \in Items, r \in page :
           /\ pipe' = Append(pipe, x) /\ x.key = r.key /\ x.ver = r.ver
           /\ after' = r.key /\ page' = page \ {r}
           /\ \A s \in page : r.key <= s.key
    BY <1>7, RowPut
  <2>2. /\ phase = "copy" /\ phase' = phase /\ src' = src /\ log' = log /\ pos' = pos /\ held' = held /\ dest' = dest
        /\ ended' = ended
    BY <1>7 DEF HandRow, sourceVars
  <2>3. r.key \in Nat /\ r.key \in Keys /\ r.key > after /\ r.ver # 0
    <3>1. r \in RowType
      BY DEF Types, StreamType
    <3>2. r.ver # 0
      BY <3>1, ConstFacts DEF RowType
    <3> QED BY <2>2, <3>2, PageFacts DEF TableInv
  <2> SUFFICES ASSUME NEW k \in Keys PROVE Due(k)'
    BY DEF DueInv
  <2>4. Due(k) /\ (Ch(k, pos) => Ch(k, pos)') /\ (HeldK(k)' <=> HeldK(k))
    BY <2>2 DEF DueInv, Ch, HeldK
  <2>5. CASE k # r.key
    <3>1. InTable(k) => InTable(k)'
      <4> SUFFICES ASSUME InTable(k) PROVE InTable(k)'
        OBVIOUS
      <4>1. k > after /\ ~HeldK(k) /\ k \in Nat
        BY <1>0 DEF InTable
      <4>2. CASE [key |-> k, ver |-> src[k]] \in page
        <5>1. [key |-> k, ver |-> src[k]] \in page' /\ r.key <= k
          <6>1. PICK s \in page : s = [key |-> k, ver |-> src[k]]
            BY <4>2
          <6>2. s.key = k /\ r.key <= s.key /\ s # r
            BY <2>1, <2>5, <6>1
          <6> QED BY <2>1, <6>1, <6>2
        <5>2. k > after'
          BY <2>1, <2>3, <2>5, <4>1, <5>1
        <5> QED BY <2>2, <2>4, <4>1, <5>1, <5>2 DEF InTable
      <4>3. CASE ~ended /\ \A s \in page : s.key < k
        <5>1. k > after'
          BY <2>1, <2>3, <4>1, <4>3
        <5> QED BY <2>1, <2>2, <2>4, <4>1, <4>3, <5>1 DEF InTable
      <4> QED BY <4>2, <4>3 DEF InTable
    <3> QED BY <2>1, <2>2, <2>4, <2>5, <3>1, DueFrame
  <2>6. CASE k = r.key
    <3>1. CASE Ch(k, pos) \/ InHand(k)
      BY <2>2, <2>4, <3>1 DEF Due, InHand
    <3>2. CASE ~(Ch(k, pos) \/ InHand(k))
      <4>1. ~PipeK(k) /\ dest[k] = 0 /\ (r.ver = src[k] \/ HeldK(k))
        BY <2>2, <2>3, <2>6, <3>2 DEF TableInv
      <4>2. ~HeldK(k)
        BY <2>4, <3>2, <4>1 DEF Due, InQueue, InPlace, InTable
      <4>3. x.key = k /\ x.ver = src'[k] /\ ~HeldK(k)'
        BY <2>1, <2>2, <2>4, <2>6, <4>1, <4>2
      <4> QED BY <2>1, <4>3, DueLast
    <3> QED BY <3>1, <3>2
  <2> QED BY <2>5, <2>6
<1>8. CASE Copied
  <2>1. /\ phase = "copy" /\ src' = src /\ log' = log /\ pos' = pos /\ held' = held /\ dest' = dest /\ page = {} /\ ended
    BY <1>8 DEF Copied, sourceVars
  <2> SUFFICES ASSUME NEW k \in Keys PROVE Due(k)'
    BY DEF DueInv
  <2>2. Due(k) /\ (Ch(k, pos) => Ch(k, pos)') /\ ~InTable(k)
    BY <2>1 DEF DueInv, Ch, InTable
  <2>3. pipe' = pipe \/ \E x \in Items : pipe' = Append(pipe, x) /\ x.key # k
    BY <1>0, <1>8, DonePut
  <2> QED BY <2>1, <2>2, <2>3, DueFrame
<1>9. CASE Follow
  <2>1. /\ phase = "follow" /\ phase' = phase /\ src' = src /\ log' = log /\ held' = held /\ dest' = dest /\ held = {}
    BY <1>9 DEF Follow, sourceVars, HeldInv
  <2>2. pos' = pos + 1
    BY <1>9, ChangePut
  <2>3. PICK x \in Items :
           /\ pipe' = Append(pipe, x)
           /\ x.ver = src[x.key] \/ Ch(x.key, pos + 1)
           /\ \A k : k # x.key /\ Ch(k, pos) => Ch(k, pos + 1)
    BY <1>9, ChangePut
  <2> SUFFICES ASSUME NEW k \in Keys PROVE Due(k)'
    BY DEF DueInv
  <2>4. Due(k) /\ ~InTable(k) /\ (Ch(k, pos)' <=> Ch(k, pos + 1))
    BY <2>1, <2>2 DEF DueInv, InTable, Ch
  <2>5. CASE k # x.key
    BY <2>1, <2>3, <2>4, <2>5, DueFrame
  <2>6. CASE k = x.key
    <3>1. CASE Ch(k, pos + 1)
      BY <2>4, <3>1 DEF Due
    <3>2. CASE x.ver = src[k]
      <4>1. ~HeldK(k)'
        BY <2>1 DEF HeldK
      <4> QED BY <2>1, <2>3, <2>6, <3>2, <4>1, DueLast
    <3> QED BY <2>3, <2>6, <3>1, <3>2
  <2> QED BY <2>5, <2>6
<1>10. CASE Hold
  <2>1. /\ pos' = pos + 1 /\ phase' = phase /\ pipe' = pipe /\ dest' = dest /\ src' = src /\ log' = log
        /\ page' = page /\ ended' = ended /\ after' = after
    BY <1>10, HoldFacts
  <2>2. PICK x \in Items :
           /\ x.ver = src[x.key] \/ Ch(x.key, pos + 1)
           /\ \A k : k # x.key /\ Ch(k, pos) => Ch(k, pos + 1)
           /\ x \in held'
           /\ \A h \in held' : h = x \/ h \in held
           /\ \A h \in held : h.key # x.key => h \in held'
    BY <1>10, HoldFacts
  <2> SUFFICES ASSUME phase \notin {"off", "fatal"}, NEW k \in Keys PROVE Due(k)'
    BY <2>1 DEF DueInv
  <2>3. Due(k) /\ (Ch(k, pos)' <=> Ch(k, pos + 1))
    BY <2>1 DEF DueInv, Ch
  <2>4. CASE k # x.key
    <3>1. \A h : h.key = k => (h \in held' <=> h \in held)
      BY <2>2, <2>4
    <3>2. InTable(k) => InTable(k)'
      BY <2>1, <3>1 DEF InTable, HeldK
    <3> QED BY <2>1, <2>2, <2>3, <2>4, <3>1, <3>2, DueFrame
  <2>5. CASE k = x.key
    <3>1. CASE Ch(k, pos + 1)
      BY <2>3, <3>1 DEF Due
    <3>2. CASE x.ver = src[k]
      <4>1. InHand(k)'
        BY <2>1, <2>2, <2>5, <3>2 DEF InHand
      <4> QED BY <4>1 DEF Due
    <3> QED BY <2>2, <2>5, <3>1, <3>2
  <2> QED BY <2>4, <2>5
<1>11. CASE HandHeld
  <2>1. /\ phase = "hand" /\ src' = src /\ log' = log /\ pos' = pos /\ dest' = dest
    BY <1>11 DEF HandHeld, sourceVars
  <2> SUFFICES ASSUME NEW k \in Keys PROVE Due(k)'
    BY DEF DueInv
  <2>2. Due(k) /\ (Ch(k, pos) => Ch(k, pos)') /\ ~InTable(k)
    BY <2>1 DEF DueInv, InTable, Ch
  <2>3. CASE held' = held /\ pipe' = pipe
    BY <2>1, <2>2, <2>3, DueFrame
  <2>4. CASE ~(held' = held /\ pipe' = pipe)
    <3>1. PICK h \in held : h \in Items /\ pipe' = Append(pipe, h) /\ held' = held \ {h}
      BY <1>11, <2>4, HeldPut
    <3>2. CASE k # h.key
      <4>1. \A g : g.key = k => (g \in held' <=> g \in held)
        BY <3>1, <3>2
      <4> QED BY <2>1, <2>2, <3>1, <3>2, <4>1, DueFrame
    <3>3. CASE k = h.key
      <4>1. HeldK(k) /\ ~HeldK(k)'
        <5>1. \A g \in held : g.key = k => g = h
          BY <3>3 DEF HeldInv
        <5> QED BY <3>1, <3>3, <5>1 DEF HeldK
      <4>2. CASE Ch(k, pos)
        BY <2>2, <4>2 DEF Due
      <4>3. CASE InHand(k)
        <5>1. h.ver = src[k]
          BY <3>3, <4>3 DEF InHand, HeldInv
        <5> QED BY <2>1, <3>1, <3>3, <4>1, <5>1, DueLast
      <4> QED BY <2>2, <4>1, <4>2, <4>3 DEF Due, InQueue, InPlace
    <3> QED BY <3>2, <3>3
  <2> QED BY <2>3, <2>4
<1>12. CASE Overflow \/ GivesUp
  <2>1. phase' = "fatal"
    BY <1>12 DEF Overflow, GivesUp
  <2> QED BY <2>1 DEF DueInv
<1> QED BY <1>1, <1>2, <1>3, <1>4, <1>5, <1>6, <1>7, <1>8, <1>9, <1>10, <1>11, <1>12, ListenSteps

(* At first the bridge has nothing, and holds nothing. *)
LEMMA ListenInit == Init => ListenInv
<1> SUFFICES ASSUME Init PROVE ListenInv
  OBVIOUS
<1>1. /\ pipe = <<>> /\ saved.kind = "none" /\ phase = "off" /\ held = {} /\ dest = [k \in Keys |-> 0]
  BY CursorTypes DEF Init, NoCursor
<1>2. StartInv /\ HeldInv
  BY <1>1 DEF StartInv, HeldInv
<1>3. OrderInv
  BY <1>1 DEF OrderInv, Ahead
<1>4. TableInv /\ DueInv
  BY <1>1 DEF TableInv, DueInv
<1> QED BY <1>2, <1>3, <1>4 DEF ListenInv

(* The number of stops only grows. *)
LEMMA CrashesGrow == ASSUME Types, [Next]_vars, crashes' = 0 PROVE crashes = 0
<1>0. crashes \in Nat
  BY ConstFacts DEF Types, FaultType
<1>1. CASE \E k \in Keys, del \in BOOLEAN : Change(k, del)
  BY <1>1, ChangeLeaves
<1>2. CASE Write \/ Checkpoint \/ StartCopy \/ StartFollow \/ ReadPage \/ HandRow
  BY <1>2 DEF Write, Checkpoint, StartCopy, StartFollow, ReadPage, HandRow
<1>3. CASE Copied \/ Open \/ Follow \/ Hold \/ Overflow \/ HandHeld
  BY <1>3 DEF Copied, Open, Follow, Hold, Overflow, HandHeld
<1>4. CASE ReadFails \/ GivesUp \/ UNCHANGED vars
  BY <1>4 DEF ReadFails, GivesUp, vars
<1>5. CASE Crash
  BY <1>0, <1>5 DEF Crash
<1> QED BY <1>1, <1>2, <1>3, <1>4, <1>5 DEF Next, Works

(* Every step keeps all of it, for an engine without a log too. *)
LEMMA ListenNext == EveryInv /\ ListenInv /\ [Next]_vars => ListenInv'
<1> SUFFICES ASSUME EveryInv, ListenInv, [Next]_vars, ~hasLog', crashes' = 0
             PROVE  StartInv' /\ HeldInv' /\ OrderInv' /\ TableInv' /\ DueInv'
  BY DEF ListenInv
<1>0. Types /\ PlaceInv /\ RestInv /\ SrcInv
  BY DEF EveryInv
<1>1. crashes = 0
  BY <1>0, CrashesGrow
<1>2. ~hasLog
  <2>1. CASE \E k \in Keys, del \in BOOLEAN : Change(k, del)
    BY <1>0, <2>1, ChangeLeaves DEF hasLog
  <2>2. CASE Works \/ ReadFails \/ GivesUp \/ Crash \/ UNCHANGED vars
    BY <1>0, <2>2, BridgeLeaves DEF hasLog
  <2> QED BY <2>1, <2>2 DEF Next
<1>3. StartInv /\ HeldInv /\ OrderInv /\ TableInv /\ DueInv
  BY <1>1, <1>2 DEF ListenInv
<1>4. StartInv' /\ HeldInv' /\ OrderInv'
  BY <1>0, <1>1, <1>2, <1>3, StartNext, HeldNext, OrderNext
<1>5. TableInv' /\ DueInv'
  BY <1>0, <1>1, <1>2, <1>3, TableNext, DueNext
<1> QED BY <1>4, <1>5

(* A bridge that has caught up has the destination equal to the source: with a *)
(* log, however often it was stopped on the way; without one, if nobody stopped *)
(* it while it listened (the held changes of snapshot-provider.ts are enough).  *)
THEOREM CaughtUpIsCopied == Spec => []CopyConverges
<1>1. Init => EveryInv /\ ListenInv
  BY TypeInit, PlaceInit, RestInit, SrcInit, LogInit, ListenInit DEF EveryInv
<1>2. EveryInv /\ ListenInv /\ [Next]_vars => (EveryInv /\ ListenInv)'
  BY EveryNext, ListenNext
<1>3. ASSUME EveryInv, ListenInv PROVE CopyConverges
  <2> SUFFICES ASSUME AtRest, hasLog \/ crashes = 0, NEW k \in Keys PROVE Right(k)
    BY DEF CopyConverges
  <2>1. CASE hasLog
    BY <1>3, <2>1, LogConverges
  <2>2. CASE ~hasLog
    <3>1. HeldInv /\ DueInv /\ Types
      BY <1>3, <2>2 DEF ListenInv, EveryInv
    <3>2. phase = "follow" /\ pos = Len(log) /\ pipe = <<>> /\ held = {}
      BY <3>1 DEF AtRest, HeldInv
    <3>3. Due(k)
      BY <3>1, <3>2 DEF DueInv
    <3>4. ~Ch(k, pos)
      <4>1. \A n \in DOMAIN log : n \in Nat /\ n <= Len(log) /\ Len(log) \in Nat
        BY <3>1 DEF Types, SourceType
      <4> QED BY <3>2, <4>1 DEF Ch
    <3>5. ~InHand(k) /\ ~InQueue(k) /\ ~InTable(k)
      BY <3>2 DEF InHand, InQueue, InTable
    <3> QED BY <3>3, <3>4, <3>5 DEF Due, InPlace, Right
  <2> QED BY <2>1, <2>2
<1> QED BY <1>1, <1>2, <1>3, PTL DEF Spec
=============================================================================
