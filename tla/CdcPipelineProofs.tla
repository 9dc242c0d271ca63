------------------------- MODULE CdcPipelineProofs -------------------------
(***************************************************************************)
(* Proofs about CdcPipeline, for every log, every batch size and every      *)
(* number of failures: first the types, then that no row is lost, and last  *)
(* that no stale row lands on top of a fresh one.                           *)
(***************************************************************************)
EXTENDS CdcPipeline, TLAPS, WellFoundedInduction

(* the inductive type invariant: an action chain never stands without its task *)
TypeInv == TypeOK /\ TaskStands

(* The log has finitely many positions. *)
LEMMA LastPosNat == LastPos \in Nat
BY ConstantsAssumption

(* What landing a set of positions leaves at the destination. *)
LEMMA LandType ==
  ASSUME TargetOK, NEW S \in SUBSET Positions, Land(S)
  PROVE  TargetOK' /\ landed \subseteq landed' /\ S \subseteq landed'
<1>1. landed' = landed \cup S /\ dest' = Applied(S)
  BY DEF Land
<1>2. landed \subseteq Positions /\ dest \in [Keys -> 0 .. LastPos]
  BY DEF TargetOK
<1>3. ASSUME NEW k \in Keys PROVE Applied(S)[k] \in 0 .. LastPos
  <2>1. CASE ~ \E p \in S : LastHit(p, S, k)
    BY <1>2, <2>1 DEF Applied
  <2>2. CASE \E p \in S : LastHit(p, S, k)
    <3> DEFINE c == CHOOSE p \in S : LastHit(p, S, k)
    <3>1. c \in S
      BY <2>2
    <3>2. Applied(S)[k] = c
      BY <2>2 DEF Applied
    <3> HIDE DEF c
    <3> QED BY <3>1, <3>2, LastPosNat DEF Positions
  <2> QED BY <2>1, <2>2
<1>4. Applied(S) \in [Keys -> 0 .. LastPos]
  BY <1>3 DEF Applied
<1> QED BY <1>1, <1>2, <1>4 DEF TargetOK

(* The types hold at the start. *)
LEMMA TypeInit == Init => TypeInv
<1> SUFFICES ASSUME Init PROVE TypeInv
  OBVIOUS
<1>1. SourceOK
  BY LastPosNat DEF Init, SourceOK
<1>7. LifeOK
  BY DEF Init, LifeOK
<1>8. BatchOK
  BY LastPosNat DEF Init, BatchOK
<1>6. StoreOK
  BY LastPosNat DEF Init, StoreOK, Statuses
<1>2. TargetOK
  BY LastPosNat DEF Init, TargetOK
<1>3. CounterOK
  BY LastPosNat, ConstantsAssumption DEF Init, CounterOK
<1>4. ChainOK /\ TaskStands
  BY DEF Init, ChainOK, TaskStands, Idle, PcAt, Continuations
<1>5. flight \in Flight
  BY LastPosNat DEF Init, NoFlight, Flight, FlightStates
<1> QED BY <1>1, <1>2, <1>3, <1>4, <1>5, <1>6, <1>7, <1>8 DEF TypeInv, TypeOK

(* Popping the chain keeps the tasks behind the first. *)
LEMMA PopType ==
  ASSUME ChainOK, TaskStands, drain \in Nat, chain # <<>>, Pop, log' = log
  PROVE  ChainOK' /\ TaskStands' /\ drain' \in Nat
BY DEF ChainOK, TaskStands, Pop, Idle, Task, PcAt, Continuations, Head1

(* Failures are counted down. *)
LEMMA FaultNames ==
  /\ "crash" \in FaultKinds /\ "connection" \in FaultKinds /\ "store" \in FaultKinds
  /\ "reply" \in FaultKinds /\ "dest" \in FaultKinds /\ "source" \in FaultKinds
  /\ "stop" \in FaultKinds
BY DEF FaultKinds
(* A fault that happens was still allowed. *)
LEMMA SpendType ==
  ASSUME NEW f \in FaultKinds, budget \in [FaultKinds -> Nat], Spend(f)
  PROVE  /\ budget' \in [FaultKinds -> Nat]
         /\ budget[f] > 0
         /\ \A g \in FaultKinds : budget'[g] <= budget[g]
BY DEF Spend

(* A task joins the end of the chain. *)
LEMMA AppendType ==
  ASSUME ChainOK, TaskStands, NEW t \in Task, t.kind = "event" => t.pos # 0,
         chain' = Append(chain, t), pc' = pc, log' = log
  PROVE  ChainOK' /\ TaskStands'
BY DEF ChainOK, TaskStands, Head1

(* A reconnect keeps the chain, task for task. *)
LEMMA ReconnectChain ==
  ASSUME ChainOK, TaskStands, Reconnect
  PROVE  /\ ChainOK' /\ TaskStands' /\ Len(chain') = Len(chain)
         /\ \A i \in 1 .. Len(chain) :
              chain'[i].kind = chain[i].kind /\ chain'[i].pos = chain[i].pos
<1>1. chain' = [i \in 1 .. Len(chain) |-> [chain[i] EXCEPT !.from = "old"]]
      /\ pc' = pc /\ log' = log
  BY DEF Reconnect
<1>2. chain \in Seq(Task) /\ Len(chain) \in Nat
  BY DEF ChainOK
<1>3. ASSUME NEW i \in 1 .. Len(chain)
      PROVE  /\ chain'[i] \in Task
             /\ chain'[i].kind = chain[i].kind /\ chain'[i].pos = chain[i].pos
  <2>1. chain[i] \in Task /\ chain'[i] = [chain[i] EXCEPT !.from = "old"]
    BY <1>1, <1>2
  <2> QED BY <2>1 DEF Task
<1>4. chain' \in [1 .. Len(chain) -> Task]
  BY <1>1, <1>3
<1>5. chain' \in Seq(Task) /\ Len(chain') = Len(chain)
  BY <1>2, <1>4
<1>6. pc \in [at : PcAt, then : Continuations]
  BY DEF ChainOK
<1>7. chain # <<>> => chain' # <<>> /\ 1 \in 1 .. Len(chain)
  BY <1>2, <1>5
<1>8. TaskStands'
  BY <1>1, <1>3, <1>5, <1>7 DEF TaskStands, Head1
<1> QED BY <1>1, <1>3, <1>5, <1>6, <1>8 DEF ChainOK

(* No batch is in flight: still a flight. *)
LEMMA NoFlightType == NoFlight \in Flight
BY LastPosNat DEF NoFlight, Flight, FlightStates

(* Starting, stopping, crashing and retrying keep the types. *)
LEMMA TypeLifecycle == TypeInv /\ Lifecycle => TypeInv'
<1> SUFFICES ASSUME TypeInv, Lifecycle PROVE TypeInv'
  OBVIOUS
<1> USE LastPosNat DEF TypeInv, TypeOK, SourceOK, StoreOK, LifeOK, CounterOK, BatchOK
<1>1. CASE Start \/ Resume
  <2> USE <1>1 DEF Start, Resume, BeginStream, target, batch
  <2>1. SourceOK' /\ StoreOK' /\ LifeOK' /\ CounterOK' /\ BatchOK'
    BY DEF Statuses
  <2>2. TargetOK' /\ ChainOK' /\ TaskStands' /\ flight' \in Flight
    BY DEF TargetOK, ChainOK, TaskStands, Head1
  <2> QED BY <2>1, <2>2
<1>2. CASE TeardownDrop
  BY <1>2 DEF TeardownDrop, TargetOK, ChainOK, TaskStands, Head1, source, store, target
<1>3. CASE TeardownEnd
  <2> USE <1>3 DEF TeardownEnd, Forget, source, target
  <2>1. SourceOK' /\ LifeOK' /\ CounterOK' /\ BatchOK' /\ TargetOK'
    BY DEF TargetOK
  <2>4. StoreOK'
    BY DEF Statuses
  <2>2. ChainOK' /\ TaskStands'
    BY DEF ChainOK, TaskStands, Idle, PcAt, Continuations
  <2>3. flight' \in Flight
    BY NoFlightType
  <2> QED BY <2>1, <2>2, <2>3, <2>4
<1>4. CASE Crash
  <2>1. PICK S \in SUBSET (IF flight.st = "write" THEN flight.items ELSE {}) : Land(S)
    BY <1>4 DEF Crash
  <2>2. S \in SUBSET Positions
    BY DEF Flight
  <2>3. TargetOK'
    BY <2>1, <2>2, LandType
  <2> USE <1>4 DEF Crash, Forget, source, store
  <2>4. SourceOK' /\ StoreOK' /\ LifeOK' /\ BatchOK'
    OBVIOUS
  <2>5. CounterOK'
    BY SpendType, FaultNames
  <2>6. ChainOK' /\ TaskStands'
    BY DEF ChainOK, TaskStands, Idle, PcAt, Continuations
  <2>7. flight' \in Flight
    BY NoFlightType
  <2> QED BY <2>3, <2>4, <2>5, <2>6, <2>7
<1>5. ASSUME NEW by \in {"none", "user", "lead"}, TeardownBegin(by) PROVE TypeInv'
  <2> USE <1>5 DEF TeardownBegin, source, store, target, batch
  <2>1. SourceOK' /\ StoreOK' /\ BatchOK' /\ TargetOK' /\ flight' \in Flight
    BY DEF TargetOK
  <2>2. LifeOK' /\ ChainOK' /\ TaskStands'
    BY DEF ChainOK, TaskStands, Head1
  <2>3. CounterOK'
    BY SpendType, FaultNames
  <2> QED BY <2>1, <2>2, <2>3
<1> QED BY <1>1, <1>2, <1>3, <1>4, <1>5 DEF Lifecycle

(* What the provider does keeps the types. *)
LEMMA TypeProvider == TypeInv /\ Provider => TypeInv'
<1> SUFFICES ASSUME TypeInv, Provider PROVE TypeInv'
  OBVIOUS
<1> USE LastPosNat DEF TypeInv, TypeOK, SourceOK, StoreOK, LifeOK, CounterOK, BatchOK,
                       source, store, target, life, batch
<1>1. CASE Hand
  <2> USE <1>1 DEF Hand
  <2>1. SourceOK' /\ StoreOK' /\ TargetOK' /\ LifeOK' /\ CounterOK' /\ BatchOK'
        /\ flight' \in Flight
    BY DEF TargetOK
  <2>2. ChainOK' /\ TaskStands'
    BY AppendType DEF Task, TaskKinds
  <2> QED BY <2>1, <2>2
<1>2. CASE Reconnect
  <2> USE <1>2 DEF Reconnect
  <2>1. SourceOK' /\ StoreOK' /\ TargetOK' /\ LifeOK' /\ BatchOK' /\ flight' \in Flight
    BY SMTT(30) DEF TargetOK
  <2>2. CounterOK'
    BY SpendType, FaultNames
  <2>3. ChainOK' /\ TaskStands'
    BY ReconnectChain
  <2> QED BY <2>1, <2>2, <2>3
<1>3. CASE HandFatal
  <2> USE <1>3 DEF HandFatal
  <2>1. SourceOK' /\ StoreOK' /\ TargetOK' /\ LifeOK' /\ BatchOK' /\ flight' \in Flight
    BY DEF TargetOK
  <2>2. CounterOK'
    BY SpendType, FaultNames
  <2>3. ChainOK' /\ TaskStands'
    BY AppendType DEF Task, TaskKinds
  <2> QED BY <2>1, <2>2, <2>3
<1>4. CASE TimerFire
  <2> USE <1>4 DEF TimerFire
  <2>1. SourceOK' /\ StoreOK' /\ TargetOK' /\ LifeOK' /\ CounterOK' /\ BatchOK'
        /\ flight' \in Flight
    BY DEF TargetOK
  <2>2. ChainOK' /\ TaskStands'
    <3>1. CASE Registered
      BY <3>1, AppendType, SMTT(30) DEF Task, TaskKinds
    <3>2. CASE ~Registered
      BY <3>2 DEF ChainOK, TaskStands, Head1
    <3> QED BY <3>1, <3>2
  <2> QED BY <2>1, <2>2
<1>5. ASSUME NEW p \in Positions, Heartbeat(p) PROVE TypeInv'
  <2> USE <1>5 DEF Heartbeat
  <2>1. SourceOK'
    BY DEF Positions
  <2>2. StoreOK' /\ TargetOK' /\ LifeOK' /\ CounterOK' /\ BatchOK' /\ flight' \in Flight
    BY DEF TargetOK
  <2>3. ChainOK' /\ TaskStands'
    BY DEF ChainOK, TaskStands, Head1
  <2> QED BY <2>1, <2>2, <2>3
<1> QED BY <1>1, <1>2, <1>3, <1>4, <1>5 DEF Provider

(* A flush leaves the chain well formed: the running task waits, goes on,  *)
(* or is done.                                                             *)
LEMMA ReturnType ==
  ASSUME ChainOK, TaskStands, drain \in Nat, chain # <<>>, log' = log,
         NEW then \in Continuations, Return(then),
         then \in {"join", "truncate", "notice"} => Head1.kind = "event",
         then = "notice" => log[Head1.pos].kind = "notice"
  PROVE  ChainOK' /\ TaskStands' /\ drain' \in Nat
<1>1. CASE then = "end"
  BY <1>1, PopType DEF Return
<1>2. CASE then # "end"
  BY <1>2 DEF Return, ChainOK, TaskStands, Head1, PcAt
<1> QED BY <1>1, <1>2

(* Going over to a flush keeps the chain and its timer. *)
LEMMA EnterFlushType ==
  ASSUME ChainOK, TaskStands, drain \in Nat, chain # <<>>, log' = log,
         NEW then \in Continuations, NEW t, EnterFlush(then, t),
         then \in {"join", "truncate", "notice"} => Head1.kind = "event",
         then = "notice" => log[Head1.pos].kind = "notice"
  PROVE  ChainOK' /\ TaskStands' /\ drain' \in Nat /\ timer' \in {"off", "set"}
<1>1. timer' = "off"
  BY DEF EnterFlush
<1>2. CASE t = 0 \/ halted = "yes"
  BY <1>1, <1>2, ReturnType DEF EnterFlush
<1>3. CASE ~(t = 0 \/ halted = "yes")
  BY <1>1, <1>3 DEF EnterFlush, ChainOK, TaskStands, Head1, PcAt
<1> QED BY <1>2, <1>3

(* A position that is only noted moves the batch's end. *)
LEMMA NoteType ==
  ASSUME BatchOK, NEW p \in Positions, Note(p), buffer' = buffer
  PROVE  BatchOK'
BY LastPosNat DEF Note, BatchOK, Positions

(* An event joins the batch. *)
LEMMA PushType ==
  ASSUME TypeInv, NEW p \in Positions, Push(p), chain # <<>>, log' = log
  PROVE  BatchOK' /\ ChainOK' /\ TaskStands' /\ drain' \in Nat
<1>1. ChainOK /\ TaskStands /\ drain \in Nat /\ BatchOK
  BY DEF TypeInv, TypeOK, LifeOK
<1>2. buffer' \subseteq Positions /\ tail' \in 0 .. LastPos
  BY <1>1, LastPosNat DEF Push, BatchOK, Positions
<1>3. CASE Cardinality(buffer') >= MaxBatch
  <2>1. EnterFlush("end", p)
    BY <1>3 DEF Push
  <2> QED BY <1>1, <1>2, <2>1, EnterFlushType DEF BatchOK, Continuations
<1>4. CASE ~(Cardinality(buffer') >= MaxBatch)
  <2>1. timer' = "set" /\ Pop
    BY <1>4 DEF Push
  <2> QED BY <1>1, <1>2, <2>1, PopType DEF BatchOK
<1> QED BY <1>3, <1>4

(* Positions are numbers up to the last. *)
LEMMA PosRange == Positions \subseteq 0 .. LastPos
BY LastPosNat DEF Positions

(* A halt sets the job's status. *)
LEMMA HaltType ==
  ASSUME NEW s \in Statuses, HaltTo(s), dlq' = dlq, cells' = cells, StoreOK
  PROVE  StoreOK' /\ halted' \in {"no", "yes"}
BY DEF HaltTo, StoreOK

(* The first event of the chain is at a position of the log. *)
LEMMA HeadPos ==
  ASSUME ChainOK, TaskStands, chain # <<>>, Head1.kind = "event"
  PROVE  Head1 \in Task /\ Head1.pos \in Positions
<1>1. Head1 \in Task /\ 1 \in 1 .. Len(chain)
  BY DEF ChainOK, Head1
<1> QED BY <1>1, LastPosNat DEF TaskStands, Head1, Task, Positions

(* The steps of the event chain keep the types. *)
LEMMA TypeChain == TypeInv /\ ChainStep => TypeInv'
<1> SUFFICES ASSUME TypeInv, ChainStep PROVE TypeInv'
  OBVIOUS
<1> USE DEF TypeInv, TypeOK, SourceOK, StoreOK, LifeOK, CounterOK, BatchOK, TargetOK,
            chainFrame, source, store, target, batch
<1>1. CASE DropTask
  <2> USE <1>1 DEF DropTask, TaskReady
  <2>1. ChainOK' /\ TaskStands' /\ drain' \in Nat
    BY PopType
  <2> QED BY <2>1
<1>2. CASE PassSkip \/ PassDropped
  <2> USE <1>2 DEF PassSkip, PassDropped, TaskReady
  <2>1. ChainOK' /\ TaskStands' /\ drain' \in Nat
    BY PopType DEF TaskStands
  <2>2. Head1.pos \in Positions /\ Note(Head1.pos)
    BY HeadPos DEF TaskStands
  <2>3. BatchOK'
    BY <2>2, NoteType
  <2> QED BY <2>1, <2>3
<1>3. CASE Look
  <2>1. ChainOK' /\ TaskStands'
    BY <1>3 DEF Look, TaskReady, ChainOK, TaskStands, Head1, PcAt, Continuations
  <2> QED BY <1>3, <2>1 DEF Look
<1>4. CASE FlushFirst
  <2> USE <1>4 DEF FlushFirst, TaskReady
  <2>1. PICK then \in {"end", "truncate", "notice", "stop"} :
          /\ EnterFlush(then, tail)
          /\ then \in {"truncate", "notice"} => Head1.kind = "event"
          /\ then = "notice" => log[Head1.pos].kind = "notice"
    OBVIOUS
  <2>2. ChainOK' /\ TaskStands' /\ drain' \in Nat /\ timer' \in {"off", "set"}
    BY <2>1, EnterFlushType DEF Continuations
  <2> QED BY <2>2
<1>5. CASE Join
  <2> USE <1>5 DEF Join
  <2>1. Head1.kind = "event" /\ Head1.pos \in Positions /\ chain # <<>>
    BY HeadPos DEF TaskStands
  <2>2. CASE Conflicts(Head1.pos)
    <3>1. EnterFlush("join", tail)
      BY <2>2
    <3>2. ChainOK' /\ TaskStands' /\ drain' \in Nat /\ timer' \in {"off", "set"}
      BY <2>1, <3>1, EnterFlushType DEF Continuations
    <3> QED BY <2>2, <3>2
  <2>3. CASE ~Conflicts(Head1.pos)
    <3>1. BatchOK' /\ ChainOK' /\ TaskStands' /\ drain' \in Nat
      BY <2>1, <2>3, PushType
    <3> QED BY <3>1
  <2> QED BY <2>2, <2>3
<1>6. CASE DriftStop
  <2> USE <1>6 DEF DriftStop
  <2>1. chain # <<>>
    BY DEF TaskStands
  <2>2. ChainOK' /\ TaskStands' /\ drain' \in Nat /\ timer' \in {"off", "set"}
    BY <2>1, PopType, EnterFlushType DEF Continuations
  <2>3. budget' \in [FaultKinds -> Nat]
    BY SpendType, FaultNames DEF Spend
  <2> QED BY <2>2, <2>3
<1>7. CASE RereadFails
  <2> USE <1>7 DEF RereadFails
  <2>1. ChainOK' /\ TaskStands' /\ drain' \in Nat
    BY PopType DEF TaskStands
  <2>2. StoreOK' /\ halted' \in {"no", "yes"}
    BY HaltType DEF Statuses
  <2>3. budget' \in [FaultKinds -> Nat]
    BY SpendType, FaultNames
  <2> QED BY <2>1, <2>2, <2>3
<1>8. CASE FlushTake
  <2> USE <1>8 DEF FlushTake
  <2>1. ChainOK' /\ TaskStands' /\ drain' \in Nat
    BY ReturnType DEF TaskStands, ChainOK
  <2>2. BatchOK'
    BY LastPosNat
  <2>3. flight' \in Flight
    BY DEF Flight, FlightStates
  <2> QED BY <2>1, <2>2, <2>3
<1>9. CASE JoinAfterFlush
  <2> USE <1>9 DEF JoinAfterFlush
  <2>1. Head1.kind = "event" /\ Head1.pos \in Positions /\ chain # <<>>
    BY HeadPos DEF TaskStands
  <2>2. BatchOK' /\ ChainOK' /\ TaskStands' /\ drain' \in Nat
    BY <2>1, PushType, PopType
  <2> QED BY <2>2
<1>10. CASE TruncateAfterFlush
  <2> USE <1>10 DEF TruncateAfterFlush
  <2>1. Head1.kind = "event" /\ Head1.pos \in Positions /\ chain # <<>>
    BY HeadPos DEF TaskStands
  <2>2. CASE ~Registered \/ halted = "yes"
    BY <2>1, <2>2, PopType
  <2>3. CASE ~(~Registered \/ halted = "yes") /\ log[Head1.pos].drop
    BY <2>1, <2>3, PopType, NoteType
  <2>4. CASE ~(~Registered \/ halted = "yes") /\ ~log[Head1.pos].drop
    <3>1. EnterFlush("end", Head1.pos) /\ buffer' = buffer \cup {Head1.pos} /\ tail' = Head1.pos
      BY <2>4
    <3>2. ChainOK' /\ TaskStands' /\ drain' \in Nat /\ timer' \in {"off", "set"}
      BY <2>1, <3>1, EnterFlushType DEF Continuations
    <3>3. BatchOK'
      BY <2>1, <3>1, <3>2, PosRange
    <3> QED BY <3>2, <3>3
  <2> QED BY <2>2, <2>3, <2>4
<1>11. CASE NoticeAfterFlush
  <2> USE <1>11 DEF NoticeAfterFlush
  <2>1. Head1.kind = "event" /\ Head1.pos \in Positions /\ chain # <<>>
        /\ log[Head1.pos].kind = "notice"
    BY HeadPos DEF TaskStands
  <2>2. CASE ~Registered \/ halted = "yes"
    BY <2>1, <2>2, PopType
  <2>3. CASE ~(~Registered \/ halted = "yes")
    <3>1. ChainOK' /\ TaskStands' /\ drain' \in Nat
      BY <2>1, <2>3 DEF ChainOK, TaskStands, Head1, PcAt, Continuations
    <3>2. Head1.pos \in 0 .. LastPos /\ seq \in Nat /\ seq + 1 \in Nat
      BY <2>1, PosRange
    <3>3. flight' = [NoFlight EXCEPT !.st = "notice", !.work = "notice",
                       !.reach = Head1.pos, !.seq = seq, !.nextSeq = seq + 1]
      BY <2>3
    <3> HIDE <1>11
    <3>4. flight' \in Flight
      BY <3>2, <3>3 DEF NoFlight, Flight, FlightStates
    <3> QED BY <1>11, <2>3, <3>1, <3>4
  <2> QED BY <2>2, <2>3
<1>12. CASE NoticeDone
  <2> USE <1>12 DEF NoticeDone
  <2>1. ChainOK' /\ TaskStands' /\ drain' \in Nat
    BY PopType DEF TaskStands
  <2> QED BY <2>1
<1>13. CASE StopAfterFlush
  <2> USE <1>13 DEF StopAfterFlush
  <2>1. ChainOK' /\ TaskStands' /\ drain' \in Nat
    BY PopType DEF TaskStands
  <2>2. StoreOK' /\ halted' \in {"no", "yes"}
    BY HaltType DEF Statuses
  <2> QED BY <2>1, <2>2
<1> QED
  BY <1>1, <1>2, <1>3, <1>4, <1>5, <1>6, <1>7, <1>8, <1>9, <1>10, <1>11, <1>12,
     <1>13 DEF ChainStep

(* the job row *)
JobType == [status : Statuses, offset : Nat, cursor : 0 .. LastPos]

(* settle() starting over, or giving up. *)
LEMMA RetryType ==
  ASSUME flight \in Flight, halted \in {"no", "yes"}, Retry
  PROVE  flight' \in Flight /\ halted' \in {"no", "yes"}
<1>1. CASE halted = "yes" \/ ~(flight.tries + 1 < SettleAttempts)
  BY <1>1, NoFlightType DEF Retry
<1>2. CASE halted # "yes" /\ flight.tries + 1 < SettleAttempts
  <2>1. flight' = [flight EXCEPT !.st = Restart, !.tries = @ + 1] /\ halted' = halted
    BY <1>2 DEF Retry
  <2>2. Restart \in FlightStates
    BY DEF Restart, FlightStates
  <2>3. flight.tries + 1 \in Nat
    BY DEF Flight
  <2>4. flight' = [flight EXCEPT !.st = Restart, !.tries = flight.tries + 1]
    BY <2>1
  <2>5. flight' \in Flight
    BY <2>2, <2>3, <2>4 DEF Flight
  <2> QED BY <2>1, <2>5
<1> QED BY <1>1, <1>2

(* A retry sets the job's status. *)
LEMMA RetryStatusType ==
  ASSUME NEW j \in JobType, RetryStatus(j)
  PROVE  job' \in JobType
BY DEF RetryStatus, JobType, Statuses

(* A store call that is answered, or whose answer is lost. *)
LEMMA AnsweredType ==
  ASSUME flight \in Flight, halted \in {"no", "yes"}, job \in JobType,
         budget \in [FaultKinds -> Nat], NEW st \in FlightStates, Answered(st)
  PROVE  /\ flight' \in Flight /\ halted' \in {"no", "yes"} /\ job' \in JobType
         /\ budget' \in [FaultKinds -> Nat]
<1>1. CASE flight' = [flight EXCEPT !.st = st] /\ UNCHANGED <<job, halted, budget>>
  BY <1>1 DEF Flight
<1>2. CASE Spend("reply") /\ Retry /\ RetryStatus(job)
  BY <1>2, SpendType, FaultNames, RetryType, RetryStatusType
<1> QED BY <1>1, <1>2 DEF Answered

(* The timeline stays a set of cells. *)
LEMMA RecordedType ==
  ASSUME cells \subseteq [seq : Nat, pos : Positions, as : {"delivered", "failed"}],
         NEW s \in Nat, NEW S \in SUBSET Positions,
         NEW o \in {"delivered", "failed"}, Recorded(s, S, o)
  PROVE  cells' \subseteq [seq : Nat, pos : Positions, as : {"delivered", "failed"}]
BY DEF Recorded

(* The parts of the batch in flight. *)
LEMMA FlightFields ==
  ASSUME flight \in Flight
  PROVE  /\ flight.items \subseteq Positions /\ flight.del \subseteq Positions
         /\ flight.reach \in 0 .. LastPos /\ flight.seq \in Nat /\ flight.nextSeq \in Nat
         /\ AtFault \subseteq Positions /\ FailedSeq \in Nat
BY DEF Flight, AtFault, FailedSeq

(* The steps of a batch in flight keep the types. *)
LEMMA TypeFlight == TypeInv /\ FlightStep => TypeInv'
<1> SUFFICES ASSUME TypeInv, FlightStep PROVE TypeInv'
  OBVIOUS
<1>f. flight \in Flight /\ halted \in {"no", "yes"} /\ job \in JobType
      /\ budget \in [FaultKinds -> Nat]
      /\ cells \subseteq [seq : Nat, pos : Positions, as : {"delivered", "failed"}]
  BY DEF TypeInv, TypeOK, LifeOK, StoreOK, CounterOK, JobType
<1>s. {"none", "write", "record", "failed", "halting", "park", "recordDelivered",
       "recordFailed", "notice", "persist"} \subseteq FlightStates
  BY DEF FlightStates
<1> DEFINE Rest == /\ flightFrame' = flightFrame /\ wm' = wm /\ seq' = seq
                   /\ consec' \in Nat
(* What a step that only touches the store and the flight leaves typed. *)
<1>q. ASSUME Rest, TargetOK', flight' \in Flight, halted' \in {"no", "yes"},
             job' \in JobType, budget' \in [FaultKinds -> Nat],
             dlq' \subseteq [seq : Nat, pos : Positions],
             cells' \subseteq [seq : Nat, pos : Positions, as : {"delivered", "failed"}]
      PROVE  TypeInv'
  <2>1. SourceOK' /\ BatchOK' /\ ChainOK' /\ TaskStands'
    BY <1>q DEF TypeInv, TypeOK, SourceOK, BatchOK, ChainOK, TaskStands, Head1, flightFrame,
                source, batch
  <2>2. StoreOK' /\ LifeOK' /\ CounterOK'
    BY <1>q DEF TypeInv, TypeOK, StoreOK, LifeOK, CounterOK, JobType, flightFrame
  <2> QED BY <1>q, <2>1, <2>2 DEF TypeInv, TypeOK
<1> USE <1>f, <1>s, <1>q DEF target, store
<1>1. CASE DeliverOk
  <2> USE <1>1 DEF DeliverOk
  <2>1. TargetOK'
    BY LandType, FlightFields DEF TypeInv, TypeOK
  <2>2. flight' \in Flight
    <3> DEFINE n == flight.seq + 1
    <3>1. n \in Nat
      BY FlightFields
    <3>2. flight' \in {NoFlight, [flight EXCEPT !.st = "record", !.del = flight.items,
                                                 !.nextSeq = n]}
      OBVIOUS
    <3> HIDE <1>1 DEF n
    <3> QED BY <3>1, <3>2, NoFlightType DEF Flight
  <2> QED BY <2>1, <2>2 DEF TypeInv, TypeOK, CounterOK, StoreOK
<1>2. CASE DeliverFails
  <2> USE <1>2 DEF DeliverFails
  <2>1. TargetOK'
    BY LandType, FlightFields DEF TypeInv, TypeOK
  <2>2. flight' \in Flight
    BY NoFlightType DEF Flight
  <2>3. budget' \in [FaultKinds -> Nat]
    BY SpendType, FaultNames
  <2> QED BY <2>1, <2>2, <2>3 DEF TypeInv, TypeOK, CounterOK, StoreOK
<1>3. CASE RecordOk
  <2> USE <1>3 DEF RecordOk
  <2>1. cells' \subseteq [seq : Nat, pos : Positions, as : {"delivered", "failed"}]
    BY RecordedType, FlightFields
  <2> QED BY <2>1, AnsweredType DEF TypeInv, TypeOK, TargetOK, StoreOK
<1>4. CASE RecordNotice
  <2> USE <1>4 DEF RecordNotice
  <2>1. cells' \subseteq [seq : Nat, pos : Positions, as : {"delivered", "failed"}]
    BY RecordedType, FlightFields
  <2> QED BY <2>1, AnsweredType DEF TypeInv, TypeOK, TargetOK, StoreOK, CounterOK
<1>5. CASE HandleFailed
  <2>1. TargetOK'
    <3>1. CASE UNCHANGED target
      BY <3>1 DEF TypeInv, TypeOK, TargetOK
    <3>2. ASSUME NEW S \in SUBSET flight.items, Land(S) PROVE TargetOK'
      BY <3>2, LandType, FlightFields DEF TypeInv, TypeOK
    <3>3. ASSUME NEW S \in {{}}, Land(S) PROVE TargetOK'
      BY <3>3, LandType DEF TypeInv, TypeOK
    <3> QED BY <1>5, <3>1, <3>2, <3>3 DEF HandleFailed
  <2>2. flight' \in Flight /\ consec' \in Nat
    <3>0. consec \in Nat
      BY DEF TypeInv, TypeOK, CounterOK
    <3>1. CASE flight' = [flight EXCEPT !.st = "halting"] /\ consec' = consec
      BY <3>0, <3>1 DEF Flight
    <3>2. ASSUME NEW D \in SUBSET flight.items,
                 consec' = IF D # {} THEN 0 ELSE consec + 1,
                 flight' =
                  [flight EXCEPT
                     !.del = D,
                     !.nextSeq = flight.seq
                                   + IF D # {} /\ D # flight.items THEN 2 ELSE 1,
                     !.st = IF D = flight.items THEN "record"
                              ELSE IF consec' >= MaxConsecutive THEN "halting" ELSE "park"]
          PROVE  flight' \in Flight /\ consec' \in Nat
      <4> DEFINE n == flight.seq + IF D # {} /\ D # flight.items THEN 2 ELSE 1
                 st == IF D = flight.items THEN "record"
                         ELSE IF consec' >= MaxConsecutive THEN "halting" ELSE "park"
      <4>1. n \in Nat /\ D \in SUBSET Positions
        BY FlightFields
      <4>2. st \in FlightStates
        OBVIOUS
      <4>3. flight' = [flight EXCEPT !.del = D, !.nextSeq = n, !.st = st]
        BY <3>2
      <4> HIDE DEF n, st
      <4>4. flight' \in Flight
        BY <4>1, <4>2, <4>3 DEF Flight
      <4> QED BY <3>0, <3>2, <4>4
    <3> QED BY <1>5, <3>1, <3>2 DEF HandleFailed
  <2> QED BY <1>5, <2>1, <2>2 DEF HandleFailed, TypeInv, TypeOK, CounterOK, StoreOK
<1>6. CASE StopBatch
  <2> USE <1>6 DEF StopBatch
  <2>1. cells' \subseteq [seq : Nat, pos : Positions, as : {"delivered", "failed"}]
    BY RecordedType, FlightFields
  <2>2. /\ flight' \in Flight /\ halted' \in {"no", "yes"} /\ job' \in JobType
        /\ budget' \in [FaultKinds -> Nat]
    <3>1. CASE HaltTo("paused") /\ flight' = NoFlight /\ UNCHANGED budget
      BY <3>1, NoFlightType DEF HaltTo, JobType, Statuses
    <3>2. CASE Spend("reply") /\ Retry /\ RetryStatus(job)
      BY <3>2, SpendType, FaultNames, RetryType, RetryStatusType
    <3> QED BY <3>1, <3>2
  <2> QED BY <2>1, <2>2 DEF TypeInv, TypeOK, TargetOK, StoreOK, CounterOK
<1>7. CASE Park
  <2> USE <1>7 DEF Park
  <2>1. dlq' \subseteq [seq : Nat, pos : Positions]
    BY FlightFields DEF TypeInv, TypeOK, StoreOK
  <2>2. /\ flight' \in Flight /\ halted' \in {"no", "yes"} /\ job' \in JobType
        /\ budget' \in [FaultKinds -> Nat]
    <3>1. CASE flight' = [flight EXCEPT !.st = "halting"] /\ UNCHANGED <<dlq, job, halted, budget>>
      BY <3>1 DEF Flight
    <3>2. CASE Answered(IF flight.del # {} THEN "recordDelivered" ELSE "recordFailed")
      BY <3>2, AnsweredType
    <3> QED BY <3>1, <3>2
  <2> QED BY <2>1, <2>2 DEF TypeInv, TypeOK, TargetOK, StoreOK, CounterOK
<1>8. CASE RecordDelivered
  <2> USE <1>8 DEF RecordDelivered
  <2>1. cells' \subseteq [seq : Nat, pos : Positions, as : {"delivered", "failed"}]
    BY RecordedType, FlightFields
  <2> QED BY <2>1, AnsweredType DEF TypeInv, TypeOK, TargetOK, StoreOK, CounterOK
<1>9. CASE RecordFailed
  <2> USE <1>9 DEF RecordFailed
  <2>1. cells' \subseteq [seq : Nat, pos : Positions, as : {"delivered", "failed"}]
    BY RecordedType, FlightFields
  <2> QED BY <2>1, AnsweredType DEF TypeInv, TypeOK, TargetOK, StoreOK, CounterOK
<1>10. CASE PersistHalted
  BY <1>10, NoFlightType DEF PersistHalted, TypeInv, TypeOK, TargetOK, StoreOK, CounterOK
<1>11. CASE Persist
  <2> USE <1>11 DEF Persist
  <2>1. job' \in JobType /\ slot' \in 0 .. LastPos /\ wm' \in 0 .. LastPos /\ seq' \in Nat
    BY FlightFields DEF Saved, AckTo, JobType, TypeInv, TypeOK, SourceOK
  <2>2. SourceOK' /\ TargetOK' /\ LifeOK' /\ CounterOK' /\ BatchOK' /\ flight' \in Flight
    BY <2>1, NoFlightType
       DEF TypeInv, TypeOK, SourceOK, TargetOK, LifeOK, CounterOK, BatchOK, batch
  <2>3. StoreOK' /\ ChainOK' /\ TaskStands'
    BY <2>1 DEF TypeInv, TypeOK, StoreOK, JobType, ChainOK, TaskStands, Head1
  <2> QED BY <2>2, <2>3 DEF TypeInv, TypeOK
<1>12. CASE PersistUnanswered
  <2> USE <1>12 DEF PersistUnanswered
  <2>1. Saved \in JobType
    BY FlightFields DEF Saved, JobType
  <2> QED BY <2>1, SpendType, FaultNames, RetryType, RetryStatusType
          DEF TypeInv, TypeOK, TargetOK, StoreOK, CounterOK
<1>13. CASE StoreFails
  BY <1>13, SpendType, FaultNames, RetryType, RetryStatusType
     DEF StoreFails, TypeInv, TypeOK, TargetOK, StoreOK, CounterOK
<1> QED
  BY <1>1, <1>2, <1>3, <1>4, <1>5, <1>6, <1>7, <1>8, <1>9, <1>10, <1>11, <1>12,
     <1>13 DEF FlightStep

(* A stuttering step keeps the types. *)
LEMMA TypeStutter == TypeInv /\ UNCHANGED vars => TypeInv'
BY DEF vars, source, store, target, life, batch, TypeInv, TypeOK, SourceOK, StoreOK,
   TargetOK, LifeOK, CounterOK, BatchOK, ChainOK, TaskStands, Head1

(* Every step keeps the types. *)
LEMMA TypeNext == TypeInv /\ [Next]_vars => TypeInv'
BY TypeLifecycle, TypeProvider, TypeChain, TypeFlight, TypeStutter DEF Next

(* Every variable keeps its type, whatever happens in whatever order; in   *)
(* particular no task of the chain ever runs without an event to work on.  *)
THEOREM TypeCorrect == Spec => []TypeOK
<1>1. TypeInv => TypeOK
  BY DEF TypeInv
<1> QED BY <1>1, TypeNext, TypeInit, PTL DEF Spec

-----------------------------------------------------------------------------
(***************************************************************************)
(* No row is lost by the direct change pipeline: for every log, every       *)
(* interleaving and every number of crashes, reconnects, failed deliveries, *)
(* failed saves and stops, as long as no answer of the metadata store is    *)
(* lost after the write it answers took effect.                             *)
(***************************************************************************)

(* the inductive invariant, while no answer of the metadata store is lost *)
Inv == TypeInv /\ NoLossInv /\ budget["reply"] = 0

(* What keeps settled rows settled. *)
Preserved ==
  /\ log' = log /\ landed \subseteq landed' /\ job.offset <= job'.offset
  /\ \A e \in dlq : e.seq < job.offset => e \in dlq'
  /\ \A c \in cells : c.seq < job.offset => c \in cells'

(* What is settled stays settled while nothing stored is taken back. *)
LEMMA SettledStaysSettled ==
  ASSUME TypeInv, TypeInv', Preserved, NEW p, Settled(p)
  PROVE  Settled(p)'
<1>1. /\ job.offset \in Nat /\ job'.offset \in Nat
      /\ \A c \in cells : c.seq \in Nat
  BY DEF TypeInv, TypeOK, StoreOK
<1>2. ASSUME IsRow(p) PROVE ToldBelow(p, job.offset)'
  <2>1. PICK c \in cells :
          /\ c.pos = p /\ c.seq < job.offset
          /\ IF c.as = "delivered" THEN p \in landed ELSE [seq |-> c.seq, pos |-> p] \in dlq
    BY <1>2 DEF Settled, ToldBelow
  <2>2. c \in cells' /\ c.seq < job'.offset
    BY <1>1, <2>1 DEF Preserved
  <2>3. IF c.as = "delivered" THEN p \in landed' ELSE [seq |-> c.seq, pos |-> p] \in dlq'
    <3>1. [seq |-> c.seq, pos |-> p].seq = c.seq
      OBVIOUS
    <3> QED BY <2>1, <3>1 DEF Preserved
  <2> QED BY <2>1, <2>2, <2>3 DEF ToldBelow
<1> QED BY <1>2 DEF Preserved, Settled, IsRow

(* What is pending stays so, or is settled. *)
LEMMA PendingStays ==
  ASSUME TypeInv, TypeInv', Preserved, NEW p, Pending(p),
         p \in flight.items => Pending(p)',
         p \in buffer => p \in buffer' \/ p \in flight'.items
  PROVE  Pending(p)'
BY SettledStaysSettled DEF Pending

(* A step that leaves store, destination and flight alone leaves what is   *)
(* saved and what is in flight as settled as it was.                       *)
LEMMA SavedKept ==
  ASSUME TypeInv, TypeInv', SavedSettled, FlightCovers, FlightSteps,
         UNCHANGED <<log, slot, target, dlq, cells, phase, wm, seq, flight>>,
         job'.offset = job.offset, job'.cursor = job.cursor
  PROVE  SavedSettled' /\ FlightCovers' /\ FlightSteps' /\ Preserved
<1>0. job.offset \in Nat
  BY DEF TypeInv, TypeOK, StoreOK
<1>1. Preserved
  BY <1>0 DEF Preserved, target
<1>2. \A p : Settled(p) => Settled(p)'
  BY <1>1, SettledStaysSettled
<1>3. SavedSettled'
  BY <1>2 DEF SavedSettled, SettledTo
<1>4. FlightCovers'
  BY <1>2 DEF FlightCovers, Writing
<1>5. FlightSteps'
  BY DEF FlightSteps, ToldBelow, Writing, FailedSeq, AtFault, target
<1> QED BY <1>1, <1>3, <1>4, <1>5

(* Everything before an event of the chain is at a position. *)
LEMMA EventPos ==
  ASSUME TypeInv
  PROVE  /\ \A i \in 1 .. Len(chain) :
              /\ chain[i] \in Task /\ chain[i].pos \in 0 .. LastPos
              /\ \A p \in 1 .. chain[i].pos - 1 : p \in Positions
         /\ \A p \in 1 .. next - 1 : p \in Positions
         /\ Len(chain) \in Nat
<1>1. chain \in Seq(Task) /\ Len(chain) \in Nat /\ next \in 1 .. LastPos + 1
  BY DEF TypeInv, TypeOK, ChainOK, SourceOK
<1>2. \A i \in 1 .. Len(chain) : chain[i] \in Task /\ chain[i].pos \in 0 .. LastPos
  <2>1. \A i \in 1 .. Len(chain) : chain[i] \in Task
    BY <1>1
  <2> QED BY <2>1 DEF Task
<1>4. \A i \in 1 .. Len(chain) : \A p \in 1 .. chain[i].pos - 1 : p \in Positions
  <2> TAKE i \in 1 .. Len(chain)
  <2>1. chain[i].pos \in 0 .. LastPos
    BY <1>2
  <2> DEFINE n == chain[i].pos
  <2> HIDE DEF n
  <2>2. n \in 0 .. LastPos
    BY <2>1 DEF n
  <2>3. \A p \in 1 .. n - 1 : p \in Positions
    BY <2>2, LastPosNat DEF Positions
  <2> QED BY <2>3 DEF n
<1>5. \A p \in 1 .. next - 1 : p \in Positions
  BY <1>1, LastPosNat DEF Positions
<1> QED BY <1>1, <1>2, <1>4, <1>5

(* The queue after its first task is done: an event that is done must be   *)
(* pending elsewhere.                                                      *)
LEMMA QueuePop ==
  ASSUME TypeInv, QueueCovers, chain # <<>>, chain' = Tail(chain), next' = next,
         Live' => Live,
         Live' => \A p \in Positions : Pending(p) => Pending(p)',
         Live' => \A p \in Positions : EventAt(1, p) => Pending(p)'
  PROVE  QueueCovers'
<1> SUFFICES ASSUME Live' PROVE QueueCovers'
  BY DEF QueueCovers
<1>1. Live
  OBVIOUS
<1>2. /\ chain \in Seq(Task) /\ Len(chain) \in Nat /\ Len(chain) >= 1
      /\ Len(chain') = Len(chain) - 1
      /\ \A i \in 1 .. Len(chain') : chain'[i] = chain[i + 1]
  BY DEF TypeInv, TypeOK, ChainOK
<1>3. ASSUME NEW j \in 1 .. Len(chain), NEW p \in Positions, EventAt(j, p)
      PROVE  \/ j = 1 /\ Pending(p)'
             \/ j - 1 \in 1 .. Len(chain') /\ EventAt(j - 1, p)'
  <2>1. CASE j = 1
    BY <1>3, <2>1
  <2>2. CASE j # 1
    <3>1. j - 1 \in 1 .. Len(chain') /\ (j - 1) + 1 = j
      BY <1>2, <2>2
    <3>2. chain'[j - 1] = chain[j]
      BY <1>2, <3>1
    <3> QED BY <1>3, <3>1, <3>2 DEF EventAt
  <2> QED BY <2>1, <2>2
<1>4. ASSUME NEW i \in 1 .. Len(chain'), chain'[i].kind = "event",
             NEW p \in 1 .. chain'[i].pos - 1
      PROVE  Pending(p)' \/ \E j \in 1 .. i - 1 : EventAt(j, p)'
  <2>1. i + 1 \in 1 .. Len(chain) /\ chain'[i] = chain[i + 1]
    BY <1>2
  <2>2. p \in Positions
    BY <1>4, <2>1, EventPos
  <2>3. Pending(p) \/ \E j \in 1 .. (i + 1) - 1 : EventAt(j, p)
    BY <1>1, <1>4, <2>1 DEF QueueCovers
  <2>4. CASE Pending(p)
    BY <2>2, <2>4
  <2>5. ASSUME NEW j \in 1 .. i, EventAt(j, p)
        PROVE  Pending(p)' \/ \E k \in 1 .. i - 1 : EventAt(k, p)'
    BY <1>2, <1>3, <2>1, <2>2, <2>5
  <2> QED BY <2>3, <2>4, <2>5, <1>2
<1>5. ASSUME NEW p \in 1 .. next - 1
      PROVE  Pending(p)' \/ \E j \in 1 .. Len(chain') : EventAt(j, p)'
  <2>1. p \in Positions
    BY EventPos
  <2>2. Pending(p) \/ \E j \in 1 .. Len(chain) : EventAt(j, p)
    BY <1>1 DEF QueueCovers
  <2> QED BY <1>3, <2>1, <2>2
<1> QED BY <1>4, <1>5 DEF QueueCovers

(* The queue when no task is done. *)
LEMMA QueueKeep ==
  ASSUME TypeInv, QueueCovers, next' = next, Len(chain') = Len(chain),
         \A i \in 1 .. Len(chain) :
           chain'[i].kind = chain[i].kind /\ chain'[i].pos = chain[i].pos,
         Live' => Live,
         Live' => \A p \in Positions : Pending(p) => Pending(p)'
  PROVE  QueueCovers'
<1> SUFFICES ASSUME Live' PROVE QueueCovers'
  BY DEF QueueCovers
<1>1. \A j \in 1 .. Len(chain), p \in Positions : EventAt(j, p) => EventAt(j, p)'
  BY DEF EventAt
<1>2. ASSUME NEW i \in 1 .. Len(chain'), chain'[i].kind = "event",
             NEW p \in 1 .. chain'[i].pos - 1
      PROVE  Pending(p)' \/ \E j \in 1 .. i - 1 : EventAt(j, p)'
  <2>1. chain[i].kind = "event" /\ p \in 1 .. chain[i].pos - 1 /\ p \in Positions
    BY <1>2, EventPos
  <2>2. Pending(p) \/ \E j \in 1 .. i - 1 : EventAt(j, p)
    BY <2>1 DEF QueueCovers
  <2> QED BY <1>1, <2>1, <2>2, EventPos
<1>3. ASSUME NEW p \in 1 .. next - 1
      PROVE  Pending(p)' \/ \E j \in 1 .. Len(chain') : EventAt(j, p)'
  BY <1>1, EventPos DEF QueueCovers
<1> QED BY <1>2, <1>3 DEF QueueCovers

(* One event more is queued, where the provider stands; or another task.   *)
LEMMA QueueAppend ==
  ASSUME TypeInv, QueueCovers, NEW t, chain' = Append(chain, t),
         \/ t.kind # "event" /\ next' = next
         \/ t.kind = "event" /\ t.pos = next /\ next' = next + 1,
         Live' => Live,
         Live' => \A p \in Positions : Pending(p) => Pending(p)'
  PROVE  QueueCovers'
<1> SUFFICES ASSUME Live' PROVE QueueCovers'
  BY DEF QueueCovers
<1>1. /\ chain \in Seq(Task) /\ Len(chain) \in Nat /\ Len(chain') = Len(chain) + 1
      /\ \A i \in 1 .. Len(chain) : chain'[i] = chain[i]
      /\ chain'[Len(chain) + 1] = t
  BY DEF TypeInv, TypeOK, ChainOK
<1>2. \A j \in 1 .. Len(chain), p \in Positions : EventAt(j, p) => EventAt(j, p)'
  BY <1>1 DEF EventAt
<1>3. ASSUME NEW p \in 1 .. next - 1
      PROVE  Pending(p)' \/ \E j \in 1 .. Len(chain) : EventAt(j, p)'
  BY <1>2, EventPos DEF QueueCovers
<1>4. ASSUME NEW i \in 1 .. Len(chain'), chain'[i].kind = "event",
             NEW p \in 1 .. chain'[i].pos - 1
      PROVE  Pending(p)' \/ \E j \in 1 .. i - 1 : EventAt(j, p)'
  <2>1. CASE i \in 1 .. Len(chain)
    <3>1. chain[i].kind = "event" /\ p \in 1 .. chain[i].pos - 1
      BY <1>1, <1>4, <2>1
    <3>2. p \in Positions
      BY <2>1, <3>1, EventPos
    <3>3. Pending(p) \/ \E j \in 1 .. i - 1 : EventAt(j, p)
      BY <2>1, <3>1 DEF QueueCovers
    <3> QED BY <1>1, <1>2, <2>1, <3>2, <3>3
  <2>2. CASE i = Len(chain) + 1
    <3>1. t.kind = "event" /\ t.pos = next /\ p \in 1 .. next - 1
      BY <1>1, <1>4, <2>2
    <3> QED BY <1>1, <1>3, <2>2, <3>1
  <2> QED BY <1>1, <2>1, <2>2
<1>5. ASSUME NEW p \in 1 .. next' - 1
      PROVE  Pending(p)' \/ \E j \in 1 .. Len(chain') : EventAt(j, p)'
  <2>0. next \in Nat
    BY LastPosNat DEF TypeInv, TypeOK, SourceOK
  <2>1. CASE p \in 1 .. next - 1
    BY <1>1, <1>3, <2>1
  <2>2. CASE ~(p \in 1 .. next - 1)
    <3>1. p = next /\ t.kind = "event" /\ t.pos = next
      BY <2>0, <2>2
    <3>2. PICK n \in Nat : n = Len(chain) + 1
      BY <1>1
    <3>3. n \in 1 .. Len(chain') /\ EventAt(n, p)'
      BY <1>1, <3>1, <3>2 DEF EventAt
    <3> QED BY <3>3
  <2> QED BY <2>1, <2>2
<1> QED BY <1>4, <1>5 DEF QueueCovers

(* Every position before the first event of the chain is pending. *)
LEMMA HeadPending ==
  ASSUME TypeInv, QueueCovers, Live, chain # <<>>, Head1.kind = "event"
  PROVE  \A p \in 1 .. Head1.pos - 1 : Pending(p)
<1>1. 1 \in 1 .. Len(chain) /\ chain[1].kind = "event"
  BY EventPos DEF TypeInv, TypeOK, ChainOK, Head1
<1> QED BY <1>1 DEF QueueCovers, Head1

(* Nothing pending is lost while the batch only grows. *)
LEMMA PendingKept ==
  ASSUME TypeInv, TypeInv', Preserved, flight' = flight, buffer \subseteq buffer'
  PROVE  \A p \in Positions : Pending(p) => Pending(p)'
BY PendingStays DEF Pending

(* Everything up to the batch's end is at a position. *)
LEMMA TailPos ==
  ASSUME TypeInv
  PROVE  \A p \in 1 .. tail : p \in Positions
BY LastPosNat DEF TypeInv, TypeOK, BatchOK, Positions

(* The batch when nothing joins it. *)
LEMMA BatchKept ==
  ASSUME TypeInv, BatchCovers, buffer' = buffer, tail' = tail, Live' => Live,
         Live' => \A p \in Positions : Pending(p) => Pending(p)'
  PROVE  BatchCovers'
BY TailPos DEF BatchCovers

(* What a keepalive lets the source forget is settled, or not a row. *)
LEMMA NoLossHeartbeat ==
  ASSUME TypeInv, TypeInv', NoLossInv, NEW p \in Positions, Heartbeat(p)
  PROVE  NoLossInv'
<1> USE DEF NoLossInv
<1>1. /\ UNCHANGED <<log, target, dlq, cells, phase, wm, seq, flight, job, halted, buffer, tail,
                     timer, pc, chain>>
      /\ slot' = p /\ next' = p + 1 /\ phase # "none"
      /\ next - 1 <= wm /\ \A q \in next .. p : log[q].kind = "skip"
  BY DEF Heartbeat, store, life, batch
<1>2. next \in Nat /\ wm \in Nat /\ p \in Nat
  BY LastPosNat DEF TypeInv, TypeOK, SourceOK, CounterOK, Positions
<1>3. ASSUME NEW q \in 1 .. p PROVE Settled(q)
  <2>1. CASE q \in 1 .. wm
    BY <1>1, <2>1 DEF SavedSettled, SettledTo
  <2>2. CASE q \in next .. p
    BY <1>1, <2>2 DEF Settled, IsRow
  <2> QED BY <1>1, <1>2, <2>1, <2>2
<1>4. \A q : Settled(q)' = Settled(q) /\ Pending(q)' = Pending(q)
  BY <1>1 DEF Settled, Pending, ToldBelow, IsRow, target
<1>5. SavedSettled'
  BY <1>1, <1>3, <1>4 DEF SavedSettled, SettledTo
<1>6. FlightCovers' /\ FlightSteps' /\ FlightWork'
  BY <1>1, <1>4 DEF FlightCovers, FlightSteps, FlightWork, ToldBelow, Writing, FailedSeq,
     AtFault, target
<1>7. Live' = Live
  BY <1>1 DEF Live, Registered
<1>8. BatchCovers' /\ BatchStands' /\ StreamGone'
  BY <1>1, <1>4, <1>7 DEF BatchCovers, BatchStands, StreamGone, Head1
<1>9. \A q \in 1 .. next' - 1 : Pending(q)'
  BY <1>1, <1>2, <1>3, <1>4 DEF Pending
<1>10. QueueCovers'
  BY <1>1, <1>4, <1>7, <1>9 DEF QueueCovers, EventAt
<1> QED BY <1>5, <1>6, <1>8, <1>10

(* What the provider does loses nothing. *)
LEMMA NoLossProvider == TypeInv /\ NoLossInv /\ Provider => NoLossInv'
<1> SUFFICES ASSUME TypeInv, NoLossInv, Provider, \A p \in Positions : ~Heartbeat(p)
             PROVE  NoLossInv'
  BY TypeProvider, NoLossHeartbeat
<1>0. TypeInv'
  BY TypeProvider
<1> USE DEF NoLossInv
<1>1. UNCHANGED <<log, slot, target, dlq, cells, phase, wm, seq, flight, job, halted, buffer,
                  tail, pc>>
  BY DEF Provider, Hand, Reconnect, HandFatal, TimerFire, source, store, life, batch
<1>2. SavedSettled' /\ FlightCovers' /\ FlightSteps' /\ Preserved
  BY <1>0, <1>1, SavedKept
<1>3. \A p \in Positions : Pending(p) => Pending(p)'
  BY <1>0, <1>1, <1>2, PendingKept
<1>4. Live' = Live
  BY <1>1 DEF Live, Registered
<1>5. FlightWork' /\ BatchCovers'
  BY <1>1, <1>3, <1>4, BatchKept DEF FlightWork, Writing
<1>6. phase # "none"
  BY DEF Provider, Hand, Reconnect, HandFatal, TimerFire, Registered, StreamGone
<1>7. StreamGone'
  BY <1>1, <1>6 DEF StreamGone
<1>8. pc.at = "await" => chain # <<>>
  BY DEF TypeInv, TaskStands
<1>9. chain \in Seq(Task)
  BY DEF TypeInv, TypeOK, ChainOK
<1>10. QueueCovers' /\ BatchStands'
  <2>1. CASE Hand
    <3>1. QueueCovers'
      BY <1>3, <1>4, <2>1, QueueAppend DEF Hand
    <3>2. chain # <<>> => Head1' = Head1
      BY <1>9, <2>1 DEF Hand, Head1
    <3> QED BY <1>1, <1>4, <1>8, <3>1, <3>2 DEF BatchStands
  <2>2. CASE HandFatal
    <3>1. QueueCovers'
      BY <1>3, <1>4, <2>2, QueueAppend DEF HandFatal, source
    <3>2. chain # <<>> => Head1' = Head1
      BY <1>9, <2>2 DEF HandFatal, Head1
    <3> QED BY <1>1, <1>4, <1>8, <3>1, <3>2 DEF BatchStands
  <2>3. CASE TimerFire
    <3>1. CASE Registered
      <4>1. QueueCovers'
        BY <1>3, <1>4, <2>3, <3>1, QueueAppend DEF TimerFire, source
      <4>2. chain # <<>> => Head1' = Head1
        BY <1>9, <2>3, <3>1 DEF TimerFire, Head1
      <4> QED BY <1>1, <1>4, <1>8, <4>1, <4>2 DEF BatchStands
    <3>2. CASE ~Registered
      BY <1>4, <3>2 DEF QueueCovers, BatchStands, Live
    <3> QED BY <3>1, <3>2
  <2>4. CASE Reconnect
    <3>1. /\ Len(chain') = Len(chain)
          /\ \A i \in 1 .. Len(chain) :
               chain'[i].kind = chain[i].kind /\ chain'[i].pos = chain[i].pos
      BY <2>4, ReconnectChain DEF TypeInv, TypeOK
    <3>2. next' = slot + 1 /\ slot \in 0 .. LastPos
      BY <2>4 DEF Reconnect, TypeInv, TypeOK, SourceOK
    <3>3. \A p \in 1 .. slot : p \in Positions /\ Pending(p)
      BY <3>2, LastPosNat DEF SavedSettled, SettledTo, Pending, Positions
    <3>4. \A j \in 1 .. Len(chain), p \in Positions : EventAt(j, p) => EventAt(j, p)'
      BY <3>1 DEF EventAt
    <3>5. ASSUME Live',
                 NEW i \in 1 .. Len(chain'), chain'[i].kind = "event",
                 NEW p \in 1 .. chain'[i].pos - 1
          PROVE  Pending(p)' \/ \E j \in 1 .. i - 1 : EventAt(j, p)'
      <4>1. i \in 1 .. Len(chain) /\ chain[i].kind = "event" /\ p \in 1 .. chain[i].pos - 1
        BY <3>1, <3>5
      <4>2. p \in Positions
        BY <4>1, EventPos
      <4>3. Pending(p) \/ \E j \in 1 .. i - 1 : EventAt(j, p)
        BY <1>4, <3>5, <4>1 DEF QueueCovers
      <4> QED BY <1>3, <3>4, <4>1, <4>2, <4>3, EventPos
    <3>6. \A p \in 1 .. next' - 1 : Pending(p)'
      BY <1>3, <3>2, <3>3
    <3>7. QueueCovers'
      BY <3>5, <3>6 DEF QueueCovers
    <3>8. chain # <<>> => Head1'.kind = Head1.kind /\ Head1'.pos = Head1.pos
      BY <1>9, <3>1 DEF Head1
    <3> QED BY <1>1, <1>4, <1>8, <3>7, <3>8 DEF BatchStands
  <2> QED BY <2>1, <2>2, <2>3, <2>4 DEF Provider
<1> QED BY <1>2, <1>5, <1>7, <1>10

(* Starting, stopping and crashing lose nothing. *)
LEMMA NoLossLifecycle == TypeInv /\ NoLossInv /\ Lifecycle => NoLossInv'
<1> SUFFICES ASSUME TypeInv, NoLossInv, Lifecycle PROVE NoLossInv'
  OBVIOUS
<1>0. TypeInv'
  BY TypeLifecycle
<1>a. job.offset \in Nat
  BY DEF TypeInv, TypeOK, StoreOK
<1> USE DEF NoLossInv
<1>1. CASE Start \/ Resume
  <2>1. BeginStream
    BY <1>1 DEF Start, Resume
  <2>2. /\ phase = "none" /\ phase' = "live" /\ wm' = job.cursor /\ seq' = job.offset
        /\ job'.offset = job.offset /\ job'.cursor = job.cursor
        /\ UNCHANGED <<log, slot, dlq, cells, target, halted, batch, chain, pc, flight>>
        /\ \E from \in {slot, job.cursor} : next' = from + 1
    BY <2>1 DEF BeginStream, TypeInv, TypeOK, StoreOK
  <2>3. flight = NoFlight
    BY <2>2 DEF FlightCovers, FlightSteps
  <2>4. FlightCovers' /\ FlightSteps' /\ FlightWork'
    BY <2>2, <2>3 DEF NoFlight, FlightCovers, FlightSteps, FlightWork,
       Writing, AtFault, FailedSeq
  <2>5. Preserved
    BY <1>a, <2>2 DEF Preserved, target
  <2>6. \A p : Settled(p) => Settled(p)'
    BY <1>0, <2>5, SettledStaysSettled
  <2>7. SavedSettled'
    BY <2>2, <2>6 DEF SavedSettled, SettledTo
  <2>8. chain' = <<>> /\ pc' = Idle /\ buffer' = {} /\ tail' = 0
    BY <2>2 DEF StreamGone, batch
  <2>9. BatchCovers' /\ BatchStands' /\ StreamGone'
    BY <2>2, <2>8 DEF BatchCovers, BatchStands, StreamGone, Idle
  <2>10. \A p \in 1 .. next' - 1 : Settled(p)
    <3>1. slot \in Nat /\ job.cursor \in Nat
      BY LastPosNat DEF TypeInv, TypeOK, SourceOK, StoreOK
    <3> QED BY <2>2, <3>1 DEF SavedSettled, SettledTo
  <2>11. QueueCovers'
    BY <2>6, <2>8, <2>10 DEF QueueCovers, Pending
  <2> QED BY <2>4, <2>7, <2>9, <2>11
<1>2. ASSUME TeardownDrop \/ \E by \in {"none", "user", "lead"} : TeardownBegin(by)
      PROVE  NoLossInv'
  <2>1. /\ UNCHANGED <<log, slot, next, job, dlq, cells, target, halted, wm, seq, buffer, tail,
                       chain, pc, flight>>
        /\ phase # "none" /\ phase' # "none"
        /\ Registered' => Registered
    BY <1>2 DEF TeardownDrop, TeardownBegin, source, store, batch, Registered
  <2>2. Live' => Live
    BY <2>1 DEF Live
  <2>3. Preserved
    BY <1>a, <2>1 DEF Preserved, target
  <2>4. \A p : Settled(p) => Settled(p)'
    BY <1>0, <2>3, SettledStaysSettled
  <2>5. \A p \in Positions : Pending(p) => Pending(p)'
    BY <1>0, <2>1, <2>3, PendingKept
  <2>6. SavedSettled' /\ FlightCovers' /\ FlightSteps' /\ FlightWork'
    BY <2>1, <2>4 DEF SavedSettled, SettledTo, FlightCovers, FlightSteps, FlightWork,
       ToldBelow, Writing, AtFault, FailedSeq, target
  <2>7. BatchCovers'
    BY <2>1, <2>2, <2>5, BatchKept
  <2>8. QueueCovers'
    BY <2>1, <2>2, <2>5, QueueKeep
  <2>9. BatchStands' /\ StreamGone'
    BY <2>1, <2>2 DEF BatchStands, StreamGone, Head1
  <2> QED BY <2>6, <2>7, <2>8, <2>9
<1>3. CASE TeardownEnd \/ Crash
  <2>1. Forget /\ log' = log /\ slot' = slot /\ UNCHANGED <<dlq, cells>>
    BY <1>3 DEF TeardownEnd, Crash, source, store
  <2>2. job'.offset = job.offset /\ job'.cursor = job.cursor
    BY <1>3 DEF TeardownEnd, Crash, store, TypeInv, TypeOK, StoreOK
  <2>3. landed \subseteq landed'
    BY <1>3 DEF TeardownEnd, Crash, Land, target
  <2>4. Preserved
    BY <1>a, <2>1, <2>2, <2>3 DEF Preserved
  <2>5. \A p : Settled(p) => Settled(p)'
    BY <1>0, <2>4, SettledStaysSettled
  <2>6. SavedSettled'
    BY <2>1, <2>2, <2>5 DEF SavedSettled, SettledTo, Forget
  <2>7. FlightCovers' /\ FlightSteps' /\ FlightWork'
    BY <2>1 DEF Forget, NoFlight, FlightCovers, FlightSteps, FlightWork, Writing,
       AtFault, FailedSeq
  <2>8. BatchCovers' /\ QueueCovers' /\ BatchStands' /\ StreamGone'
    BY <2>1 DEF Forget, BatchCovers, QueueCovers, BatchStands, StreamGone, Live,
       Registered
  <2> QED BY <2>6, <2>7, <2>8
<1> QED BY <1>1, <1>2, <1>3 DEF Lifecycle

(* What the steps of the chain that touch no delivery have in common. *)
ChainQuiet ==
  /\ UNCHANGED <<log, slot, next, target, dlq, cells, phase, wm, seq, flight>>
  /\ job'.offset = job.offset /\ job'.cursor = job.cursor
  /\ buffer \subseteq buffer' /\ (Live' => Live)

(* A step of the chain that leaves the flight alone keeps what is pending. *)
LEMMA QuietPending ==
  ASSUME TypeInv, TypeInv', NoLossInv, ChainQuiet
  PROVE  \A p \in Positions : Pending(p) => Pending(p)'
<1>1. Preserved
  BY SavedKept DEF ChainQuiet, NoLossInv
<1> QED BY <1>1, PendingKept DEF ChainQuiet

(* ...and the invariant, given what it does to the batch. *)
LEMMA QuietStep ==
  ASSUME TypeInv, TypeInv', NoLossInv, ChainQuiet, phase # "none",
         BatchCovers', QueueCovers', BatchStands'
  PROVE  NoLossInv'
<1>1. SavedSettled' /\ FlightCovers' /\ FlightSteps'
  BY SavedKept DEF ChainQuiet, NoLossInv
<1>2. FlightWork' /\ StreamGone'
  BY DEF ChainQuiet, NoLossInv, FlightWork, StreamGone, Writing
<1> QED BY <1>1, <1>2 DEF NoLossInv

(* The running task is done: its event is pending elsewhere. *)
LEMMA PopCovers ==
  ASSUME TypeInv, QueueCovers, chain # <<>>, Pop, next' = next, Live' => Live,
         Live' => \A p \in Positions : Pending(p) => Pending(p)',
         Live' => \A p \in Positions : EventAt(1, p) => Pending(p)'
  PROVE  QueueCovers' /\ BatchStands'
<1>1. QueueCovers'
  BY QueuePop DEF Pop
<1> QED BY <1>1 DEF Pop, Idle, BatchStands

(* A flush returns to its task: an empty batch, or the task is done. *)
LEMMA ReturnCovers ==
  ASSUME TypeInv, QueueCovers, chain # <<>>, NEW then, Return(then), next' = next,
         Live' => Live, Live' => \A p \in Positions : Pending(p) => Pending(p)',
         Live' /\ then = "end" => \A p \in Positions : EventAt(1, p) => Pending(p)',
         Live' /\ then # "end" => buffer' = {}
  PROVE  QueueCovers' /\ BatchStands'
<1>1. CASE then = "end"
  BY <1>1, PopCovers DEF Return
<1>2. CASE then # "end"
  <2>1. pc' = [at |-> "ready", then |-> then] /\ chain' = chain
    BY <1>2 DEF Return
  <2>2. QueueCovers'
    BY <2>1, QueueKeep
  <2> QED BY <1>2, <2>1, <2>2 DEF BatchStands
<1> QED BY <1>1, <1>2

(* A task enters a flush; if only to end, its change is in the batch. *)
LEMMA EnterFlushCovers ==
  ASSUME TypeInv, QueueCovers, chain # <<>>, NEW then, NEW t, EnterFlush(then, t),
         tail' = t, halted' = halted, next' = next, Live' => Live, BatchCovers',
         Live' => \A p \in Positions : Pending(p) => Pending(p)',
         Live' /\ then = "end" => \A p : EventAt(1, p) => p \in buffer'
  PROVE  QueueCovers' /\ BatchStands'
<1>1. CASE t = 0 \/ halted = "yes"
  <2>1. Return(then)
    BY <1>1 DEF EnterFlush
  <2>2. Live' => buffer' = {}
    BY <1>1 DEF BatchCovers, Live
  <2>3. Live' /\ then = "end" => \A p \in Positions : EventAt(1, p) => Pending(p)'
    BY DEF Pending
  <2> QED BY <2>1, <2>2, <2>3, ReturnCovers
<1>2. CASE ~(t = 0 \/ halted = "yes")
  <2>1. pc' = [at |-> "await", then |-> then] /\ chain' = chain
    BY <1>2 DEF EnterFlush
  <2>2. QueueCovers'
    BY <2>1, QueueKeep
  <2>3. Live' /\ then = "end" /\ Head1'.kind = "event" => Head1'.pos \in buffer'
    BY <2>1 DEF EventAt, Head1
  <2> QED BY <2>1, <2>2, <2>3 DEF BatchStands
<1> QED BY <1>1, <1>2

(* A position that carries no row is passed. *)
LEMMA NoteCovers ==
  ASSUME TypeInv, TypeInv', NoLossInv, ChainQuiet, chain # <<>>, Head1.kind = "event",
         ~IsRow(Head1.pos), Note(Head1.pos), buffer' = buffer
  PROVE  BatchCovers'
<1>1. \A p \in Positions : Pending(p) => Pending(p)'
  BY QuietPending
<1>2. CASE tail' = tail
  BY <1>1, <1>2, BatchKept DEF ChainQuiet, NoLossInv
<1>3. CASE tail' # tail
  <2>1. tail' = Head1.pos /\ Live
    BY <1>3 DEF Note, Live
  <2>2. Head1.pos \in Positions
    BY HeadPos DEF TypeInv, TypeOK
  <2>3. \A p \in 1 .. Head1.pos - 1 : Pending(p)
    BY <2>1, HeadPending DEF NoLossInv
  <2>4. Pending(Head1.pos)
    BY DEF Pending, Settled
  <2>5. \A p \in 1 .. Head1.pos : p \in Positions /\ Pending(p)
    <3>1. \A p \in 1 .. Head1.pos : p \in 1 .. Head1.pos - 1 \/ p = Head1.pos
      BY <2>2 DEF Positions
    <3>2. \A p \in 1 .. Head1.pos : p \in Positions
      BY <2>2, LastPosNat DEF Positions
    <3> QED BY <2>3, <2>4, <3>1, <3>2
  <2>6. \A p \in 1 .. tail' : Pending(p)'
    BY <1>1, <2>1, <2>5
  <2>7. tail' # 0
    BY <2>1, <2>2, LastPosNat DEF Positions
  <2> QED BY <2>6, <2>7 DEF BatchCovers
<1> QED BY <1>2, <1>3

(* The change of the running task joins the batch. *)
LEMMA JoinCovers ==
  ASSUME TypeInv, TypeInv', NoLossInv, ChainQuiet, chain # <<>>, Head1.kind = "event",
         buffer' = buffer \cup {Head1.pos}, tail' = Head1.pos
  PROVE  BatchCovers'
<1>1. \A p \in Positions : Pending(p) => Pending(p)'
  BY QuietPending
<1>2. Head1.pos \in Positions
  BY HeadPos DEF TypeInv, TypeOK
<1>3. tail' # 0
  BY <1>2, LastPosNat DEF Positions
<1>4. ASSUME Live', NEW p \in 1 .. tail' PROVE Pending(p)'
  <2>1. p \in 1 .. Head1.pos - 1 \/ p = Head1.pos
    BY <1>2 DEF Positions
  <2>2. p \in Positions
    BY <1>2, LastPosNat DEF Positions
  <2>3. CASE p = Head1.pos
    BY <2>3 DEF Pending
  <2>4. CASE p \in 1 .. Head1.pos - 1
    <3>1. Pending(p)
      BY <1>4, <2>4, HeadPending DEF ChainQuiet, NoLossInv
    <3> QED BY <1>1, <2>2, <3>1
  <2> QED BY <2>1, <2>3, <2>4
<1> QED BY <1>3, <1>4 DEF BatchCovers

(* An event that joins the batch is covered by it. *)
LEMMA PushCovers ==
  ASSUME TypeInv, TypeInv', NoLossInv, ChainQuiet, halted' = halted, chain # <<>>,
         Head1.kind = "event", Push(Head1.pos)
  PROVE  BatchCovers' /\ QueueCovers' /\ BatchStands'
<1>1. buffer' = buffer \cup {Head1.pos} /\ tail' = Head1.pos
  BY DEF Push
<1>2. BatchCovers'
  BY <1>1, JoinCovers
<1>3. \A p \in Positions : Pending(p) => Pending(p)'
  BY QuietPending
<1>4. \A p : EventAt(1, p) => p \in buffer'
  BY <1>1 DEF EventAt, Head1
<1>5. CASE Cardinality(buffer') >= MaxBatch
  <2>1. EnterFlush("end", Head1.pos)
    BY <1>5 DEF Push
  <2> QED BY <1>1, <1>2, <1>3, <1>4, <2>1, EnterFlushCovers DEF ChainQuiet, NoLossInv
<1>6. CASE ~(Cardinality(buffer') >= MaxBatch)
  <2>1. Pop
    BY <1>6 DEF Push
  <2>2. \A p \in Positions : EventAt(1, p) => Pending(p)'
    BY <1>4 DEF Pending
  <2> QED BY <1>2, <1>3, <2>1, <2>2, PopCovers DEF ChainQuiet, NoLossInv
<1> QED BY <1>5, <1>6

(* A step of the chain that leaves the deliveries alone. *)
LEMMA NoLossQuiet ==
  ASSUME TypeInv, TypeInv', NoLossInv, phase # "none", chain # <<>>,
         \/ DropTask \/ PassSkip \/ Look \/ FlushFirst \/ PassDropped \/ Join
         \/ DriftStop \/ RereadFails \/ JoinAfterFlush \/ TruncateAfterFlush
         \/ NoticeDone \/ StopAfterFlush
  PROVE  NoLossInv'
<1>0. BatchCovers /\ QueueCovers
  BY DEF NoLossInv
<1>1. CASE DropTask
  <2>1. ChainQuiet /\ UNCHANGED <<buffer, tail>> /\ Pop
    BY <1>1 DEF DropTask, ChainQuiet, chainFrame, source, store, batch, Live, Registered
  <2>2. \A p \in Positions : Pending(p) => Pending(p)'
    BY <2>1, QuietPending
  <2>3. Live' => \A p \in Positions : EventAt(1, p) => Pending(p)'
    <3> SUFFICES ASSUME Live', NEW p \in Positions, EventAt(1, p) PROVE Pending(p)'
      OBVIOUS
    <3>1. Live /\ Head1.pos = p /\ Head1.kind = "event"
      BY <2>1 DEF ChainQuiet, EventAt, Head1
    <3>2. p <= wm
      BY <1>1, <3>1 DEF DropTask, Live
    <3>3. SettledTo(wm) /\ wm \in 0 .. LastPos
      BY DEF NoLossInv, SavedSettled, TypeInv, TypeOK, CounterOK
    <3>4. p \in 1 .. wm
      BY <3>2, <3>3, LastPosNat DEF Positions
    <3> QED BY <2>2, <3>3, <3>4 DEF SettledTo, Pending
  <2>4. BatchCovers'
    BY <1>0, <2>1, <2>2, BatchKept DEF ChainQuiet
  <2>5. QueueCovers' /\ BatchStands'
    BY <1>0, <2>1, <2>2, <2>3, PopCovers DEF ChainQuiet
  <2> QED BY <2>1, <2>4, <2>5, QuietStep
<1>2. CASE PassSkip \/ PassDropped
  <2>1. ChainQuiet /\ buffer' = buffer /\ Pop /\ Note(Head1.pos)
    BY <1>2 DEF PassSkip, PassDropped, ChainQuiet, chainFrame, source, store, Live,
       Registered
  <2>2. Head1.kind = "event" /\ ~IsRow(Head1.pos)
    BY <1>2 DEF PassSkip, PassDropped, IsRow, TypeInv, TaskStands
  <2>3. BatchCovers'
    BY <2>1, <2>2, NoteCovers
  <2>4. \A p \in Positions : Pending(p) => Pending(p)'
    BY <2>1, QuietPending
  <2>5. \A p \in Positions : EventAt(1, p) => Pending(p)'
    BY <2>2, <2>4 DEF EventAt, Head1, Pending, Settled
  <2>6. QueueCovers' /\ BatchStands'
    BY <1>0, <2>1, <2>4, <2>5, PopCovers DEF ChainQuiet
  <2> QED BY <2>1, <2>3, <2>6, QuietStep
<1>3. CASE Look
  <2>1. ChainQuiet /\ UNCHANGED <<buffer, tail, chain>> /\ pc'.at = "look"
    BY <1>3 DEF Look, ChainQuiet, chainFrame, source, store, batch, Live, Registered
  <2>2. \A p \in Positions : Pending(p) => Pending(p)'
    BY <2>1, QuietPending
  <2>3. BatchCovers'
    BY <1>0, <2>1, <2>2, BatchKept DEF ChainQuiet
  <2>4. QueueCovers'
    BY <1>0, <2>1, <2>2, QueueKeep DEF ChainQuiet
  <2>5. BatchStands'
    BY <2>1 DEF BatchStands
  <2> QED BY <2>1, <2>3, <2>4, <2>5, QuietStep
<1>4. CASE FlushFirst
  <2>1. ChainQuiet /\ UNCHANGED <<buffer, tail, halted>>
    BY <1>4 DEF FlushFirst, ChainQuiet, chainFrame, source, store, Live, Registered
  <2>2. \A p \in Positions : Pending(p) => Pending(p)'
    BY <2>1, QuietPending
  <2>3. BatchCovers'
    BY <1>0, <2>1, <2>2, BatchKept DEF ChainQuiet
  <2>4. PICK then : EnterFlush(then, tail) /\ (then = "end" => Head1.kind # "event")
    BY <1>4 DEF FlushFirst
  <2>5. then = "end" => \A p : EventAt(1, p) => p \in buffer'
    BY <2>4 DEF EventAt, Head1
  <2>6. QueueCovers' /\ BatchStands'
    BY <1>0, <2>1, <2>2, <2>3, <2>4, <2>5, EnterFlushCovers DEF ChainQuiet
  <2> QED BY <2>1, <2>3, <2>6, QuietStep
<1>5. CASE Join
  <2>1. Head1.kind = "event"
    BY <1>5 DEF Join, TypeInv, TaskStands
  <2>2. buffer \subseteq buffer'
    BY <1>5 DEF Join, Push
  <2>3. ChainQuiet /\ halted' = halted
    BY <1>5, <2>2 DEF Join, ChainQuiet, chainFrame, source, store, Live, Registered
  <2>4. CASE Conflicts(Head1.pos)
    <3>1. EnterFlush("join", tail) /\ UNCHANGED <<buffer, tail>>
      BY <1>5, <2>4 DEF Join
    <3>2. \A p \in Positions : Pending(p) => Pending(p)'
      BY <2>3, QuietPending
    <3>3. BatchCovers'
      BY <1>0, <2>3, <3>1, <3>2, BatchKept DEF ChainQuiet
    <3>4. QueueCovers' /\ BatchStands'
      BY <1>0, <2>3, <3>1, <3>2, <3>3, EnterFlushCovers DEF ChainQuiet
    <3> QED BY <2>3, <3>3, <3>4, QuietStep
  <2>5. CASE ~Conflicts(Head1.pos)
    <3>1. Push(Head1.pos)
      BY <1>5, <2>5 DEF Join
    <3> QED BY <2>1, <2>3, <3>1, PushCovers, QuietStep
  <2> QED BY <2>4, <2>5
<1>6. CASE DriftStop
  <2>1. ChainQuiet /\ UNCHANGED <<buffer, tail, halted>>
    BY <1>6 DEF DriftStop, ChainQuiet, source, store, Live, Registered
  <2>2. \A p \in Positions : Pending(p) => Pending(p)'
    BY <2>1, QuietPending
  <2>3. BatchCovers'
    BY <1>0, <2>1, <2>2, BatchKept DEF ChainQuiet
  <2>4. CASE Live
    <3>1. EnterFlush("stop", tail)
      BY <1>6, <2>4 DEF DriftStop, Live
    <3>2. QueueCovers' /\ BatchStands'
      BY <1>0, <2>1, <2>2, <2>3, <3>1, EnterFlushCovers DEF ChainQuiet
    <3> QED BY <2>1, <2>3, <3>2, QuietStep
  <2>5. CASE ~Live
    BY <2>1, <2>3, <2>5, QuietStep DEF ChainQuiet, QueueCovers, BatchStands
  <2> QED BY <2>4, <2>5
<1>7. CASE RereadFails \/ StopAfterFlush
  <2>1. UNCHANGED <<log, slot, next, target, dlq, cells, phase, wm, seq, flight, buffer, tail>>
    BY <1>7 DEF RereadFails, StopAfterFlush, source, batch
  <2>2. job'.offset = job.offset /\ job'.cursor = job.cursor
    BY <1>7 DEF RereadFails, StopAfterFlush, HaltTo, TypeInv, TypeOK, StoreOK
  <2>3. ~Live'
    BY <1>7, <2>1 DEF RereadFails, StopAfterFlush, HaltTo, Live, Registered
  <2>4. ChainQuiet
    BY <2>1, <2>2, <2>3 DEF ChainQuiet
  <2>5. BatchCovers' /\ QueueCovers' /\ BatchStands'
    BY <1>0, <2>1, <2>3 DEF BatchCovers, QueueCovers, BatchStands
  <2> QED BY <2>4, <2>5, QuietStep
<1>8. CASE JoinAfterFlush
  <2>1. Head1.kind = "event"
    BY <1>8 DEF JoinAfterFlush, TypeInv, TaskStands
  <2>2. buffer \subseteq buffer'
    BY <1>8 DEF JoinAfterFlush, Push, batch
  <2>3. ChainQuiet /\ halted' = halted
    BY <1>8, <2>2 DEF JoinAfterFlush, ChainQuiet, chainFrame, source, store, Live,
       Registered
  <2>4. CASE Registered
    <3>1. Push(Head1.pos)
      BY <1>8, <2>4 DEF JoinAfterFlush
    <3> QED BY <2>1, <2>3, <3>1, PushCovers, QuietStep
  <2>5. CASE ~Registered
    <3>1. ~Live' /\ UNCHANGED <<buffer, tail>>
      BY <1>8, <2>3, <2>5 DEF JoinAfterFlush, Live, ChainQuiet, batch
    <3> QED BY <1>0, <2>3, <3>1, QuietStep DEF BatchCovers, QueueCovers, BatchStands
  <2> QED BY <2>4, <2>5
<1>9. CASE TruncateAfterFlush
  <2>1. Head1.kind = "event"
    BY <1>9 DEF TruncateAfterFlush, TypeInv, TaskStands
  <2>2. buffer \subseteq buffer'
    BY <1>9 DEF TruncateAfterFlush, batch
  <2>3. ChainQuiet /\ halted' = halted
    BY <1>9, <2>2 DEF TruncateAfterFlush, ChainQuiet, chainFrame, source, store, Live,
       Registered
  <2>4. \A p \in Positions : Pending(p) => Pending(p)'
    BY <2>3, QuietPending
  <2>5. CASE ~Live
    <3>1. ~Live' /\ UNCHANGED <<buffer, tail>>
      BY <1>9, <2>3, <2>5 DEF TruncateAfterFlush, Live, ChainQuiet, batch, TypeInv,
         TypeOK, LifeOK
    <3> QED BY <1>0, <2>3, <3>1, QuietStep DEF BatchCovers, QueueCovers, BatchStands
  <2>6. CASE Live /\ log[Head1.pos].drop
    <3>1. Note(Head1.pos) /\ Pop /\ buffer' = buffer
      BY <1>9, <2>6 DEF TruncateAfterFlush, Live
    <3>2. ~IsRow(Head1.pos)
      BY <2>6 DEF IsRow
    <3>3. BatchCovers'
      BY <2>1, <2>3, <3>1, <3>2, NoteCovers
    <3>4. \A p \in Positions : EventAt(1, p) => Pending(p)'
      BY <2>4, <3>2 DEF EventAt, Head1, Pending, Settled
    <3>5. QueueCovers' /\ BatchStands'
      BY <1>0, <2>3, <2>4, <3>1, <3>4, PopCovers DEF ChainQuiet
    <3> QED BY <2>3, <3>3, <3>5, QuietStep
  <2>7. CASE Live /\ ~log[Head1.pos].drop
    <3>1. /\ buffer' = buffer \cup {Head1.pos} /\ tail' = Head1.pos
          /\ EnterFlush("end", Head1.pos)
      BY <1>9, <2>7 DEF TruncateAfterFlush, Live
    <3>2. BatchCovers'
      BY <2>1, <2>3, <3>1, JoinCovers
    <3>3. \A p : EventAt(1, p) => p \in buffer'
      BY <3>1 DEF EventAt, Head1
    <3>4. QueueCovers' /\ BatchStands'
      BY <1>0, <2>3, <2>4, <3>1, <3>2, <3>3, EnterFlushCovers DEF ChainQuiet
    <3> QED BY <2>3, <3>2, <3>4, QuietStep
  <2> QED BY <2>5, <2>6, <2>7
<1>10. CASE NoticeDone
  <2>1. ChainQuiet /\ UNCHANGED <<buffer, tail>> /\ Pop
    BY <1>10 DEF NoticeDone, ChainQuiet, chainFrame, source, store, batch, Live, Registered
  <2>2. \A p \in Positions : Pending(p) => Pending(p)'
    BY <2>1, QuietPending
  <2>3. ~IsRow(Head1.pos)
    BY <1>10 DEF NoticeDone, TypeInv, TaskStands, IsRow
  <2>4. \A p \in Positions : EventAt(1, p) => Pending(p)'
    BY <2>2, <2>3 DEF EventAt, Head1, Pending, Settled
  <2>5. BatchCovers'
    BY <1>0, <2>1, <2>2, BatchKept DEF ChainQuiet
  <2>6. QueueCovers' /\ BatchStands'
    BY <1>0, <2>1, <2>2, <2>4, PopCovers DEF ChainQuiet
  <2> QED BY <2>1, <2>5, <2>6, QuietStep
<1> QED BY <1>1, <1>2, <1>3, <1>4, <1>5, <1>6, <1>7, <1>8, <1>9, <1>10

(* A step that takes the batch, or a notice, into flight. *)
LEMMA NoLossTake ==
  ASSUME TypeInv, TypeInv', NoLossInv, phase # "none", chain # <<>>,
         FlushTake \/ NoticeAfterFlush
  PROVE  NoLossInv'
<1> DEFINE Frame == UNCHANGED <<log, slot, next, target, store, phase, halted, wm, seq>>
<1>1. Frame
  BY DEF FlushTake, NoticeAfterFlush, source
<1>2. flight = NoFlight /\ flight.items = {}
  BY DEF FlushTake, NoticeAfterFlush, NoLossInv, FlightSteps, NoFlight
<1>3. Preserved /\ Live' = Live
  BY <1>1 DEF Preserved, target, store, Live, Registered, TypeInv, TypeOK, StoreOK
<1>4. \A p : Settled(p) => Settled(p)'
  BY <1>3, SettledStaysSettled
<1>5. SavedSettled' /\ StreamGone'
  BY <1>1, <1>4 DEF NoLossInv, SavedSettled, SettledTo, StreamGone, store
<1>6. BatchCovers /\ QueueCovers /\ seq = job.offset
  BY DEF NoLossInv, SavedSettled
<1>7. seq \in Nat
  BY DEF TypeInv, TypeOK, CounterOK
<1>8. CASE FlushTake /\ Live /\ tail # 0
  <2>1. /\ flight'.items = buffer /\ flight'.reach = tail /\ flight'.seq = seq
        /\ flight'.nextSeq = seq /\ flight'.del = {}
        /\ flight'.st = IF buffer = {} THEN "persist" ELSE "write"
        /\ flight'.work = IF buffer = {} THEN "empty" ELSE "ok"
        /\ buffer' = {} /\ tail' = 0 /\ Return(pc.then)
    BY <1>8 DEF FlushTake, Live
  <2>2. \A p \in Positions : Pending(p) => Pending(p)'
    BY <1>2, <1>4, <2>1 DEF Pending
  <2>3. FlightCovers'
    <3>1. \A p \in 1 .. tail : Settled(p) \/ p \in buffer
      BY <1>2, <1>6, <1>8 DEF BatchCovers, Pending
    <3>2. \A p \in 1 .. flight'.reach : Settled(p)' \/ p \in flight'.items
      BY <1>4, <2>1, <3>1
    <3> QED BY <1>1, <2>1, <3>2 DEF FlightCovers
  <2>4. FlightWork'
    BY <2>1 DEF FlightWork, Writing
  <2>5. FlightSteps'
    <3>1. CASE buffer = {}
      BY <1>7, <2>1, <3>1 DEF FlightSteps, Writing
    <3>2. CASE buffer # {}
      BY <2>1, <3>2 DEF FlightSteps, Writing
    <3> QED BY <3>1, <3>2
  <2>6. BatchCovers'
    BY <2>1 DEF BatchCovers
  <2>7. pc.then = "end" => \A p \in Positions : EventAt(1, p) => Pending(p)'
    <3>1. pc.then = "end" /\ Head1.kind = "event" => Head1.pos \in buffer
      BY <1>8 DEF FlushTake, NoLossInv, BatchStands
    <3> QED BY <2>1, <3>1 DEF EventAt, Head1, Pending
  <2>8. QueueCovers' /\ BatchStands'
    BY <1>1, <1>3, <1>6, <2>1, <2>2, <2>7, ReturnCovers
  <2> QED BY <1>5, <2>3, <2>4, <2>5, <2>6, <2>8 DEF NoLossInv
<1>9. CASE FlushTake /\ ~(Live /\ tail # 0)
  <2>1. UNCHANGED <<flight, buffer, tail>> /\ Return(pc.then)
    BY <1>9 DEF FlushTake, Live
  <2>2. ChainQuiet
    BY <1>1, <1>3, <2>1 DEF ChainQuiet, store
  <2>3. \A p \in Positions : Pending(p) => Pending(p)'
    BY <2>2, QuietPending
  <2>4. BatchCovers'
    BY <1>3, <1>6, <2>1, <2>3, BatchKept
  <2>5. Live => buffer = {}
    BY <1>6, <1>9 DEF BatchCovers
  <2>6. Live /\ pc.then = "end" => Head1.kind # "event"
    BY <1>9, <2>5 DEF FlushTake, NoLossInv, BatchStands
  <2>7. Live' /\ pc.then = "end" => \A p \in Positions : EventAt(1, p) => Pending(p)'
    BY <1>3, <2>6 DEF EventAt, Head1
  <2>8. QueueCovers' /\ BatchStands'
    BY <1>1, <1>3, <1>6, <2>1, <2>3, <2>5, <2>7, ReturnCovers
  <2> QED BY <2>2, <2>4, <2>8, QuietStep
<1>10. CASE NoticeAfterFlush /\ Live
  <2>1. /\ flight' = [NoFlight EXCEPT !.st = "notice", !.work = "notice",
                         !.reach = Head1.pos, !.seq = seq, !.nextSeq = seq + 1]
        /\ pc' = [at |-> "noting", then |-> "end"]
        /\ UNCHANGED <<chain, buffer, tail>>
    BY <1>10 DEF NoticeAfterFlush, Live, batch
  <2>2. /\ flight'.items = {} /\ flight'.st = "notice" /\ flight'.work = "notice"
        /\ flight'.reach = Head1.pos /\ flight'.seq = seq /\ flight'.nextSeq = seq + 1
    BY <2>1 DEF NoFlight
  <2>3. Head1.kind = "event" /\ ~IsRow(Head1.pos)
    BY <1>10 DEF NoticeAfterFlush, TypeInv, TaskStands, IsRow
  <2>4. buffer = {}
    BY <1>10 DEF NoticeAfterFlush, NoLossInv, BatchStands
  <2>5. \A p \in Positions : Pending(p) => Pending(p)'
    BY <1>2, <1>4, <2>4 DEF Pending
  <2>6. FlightCovers'
    <3>1. \A p \in 1 .. Head1.pos - 1 : Settled(p)
      BY <1>2, <1>6, <1>10, <2>3, <2>4, HeadPending DEF Pending
    <3>2. Settled(Head1.pos)
      BY <2>3 DEF Settled
    <3>3. Head1.pos \in Nat
      BY <2>3, HeadPos, LastPosNat DEF TypeInv, TypeOK, Positions
    <3>4. \A p \in 1 .. Head1.pos : Settled(p)
      <4>1. \A p \in 1 .. Head1.pos : p \in 1 .. Head1.pos - 1 \/ p = Head1.pos
        BY <3>3
      <4> QED BY <3>1, <3>2, <4>1
    <3> QED BY <1>1, <1>4, <2>2, <3>4 DEF FlightCovers
  <2>7. FlightSteps' /\ FlightWork'
    BY <2>2 DEF FlightSteps, FlightWork, Writing
  <2>8. BatchCovers'
    BY <1>3, <1>6, <2>1, <2>5, BatchKept
  <2>9. QueueCovers'
    BY <1>1, <1>3, <1>6, <2>1, <2>5, QueueKeep
  <2>10. BatchStands'
    BY <2>1 DEF BatchStands
  <2> QED BY <1>5, <2>6, <2>7, <2>8, <2>9, <2>10 DEF NoLossInv
<1>11. CASE NoticeAfterFlush /\ ~Live
  <2>1. UNCHANGED <<flight, buffer, tail>>
    BY <1>11 DEF NoticeAfterFlush, Live, batch, TypeInv, TypeOK, LifeOK
  <2>2. ChainQuiet
    BY <1>1, <1>3, <2>1 DEF ChainQuiet, store
  <2>3. BatchCovers' /\ QueueCovers' /\ BatchStands'
    BY <1>3, <1>6, <1>11, <2>1 DEF BatchCovers, QueueCovers, BatchStands
  <2> QED BY <2>2, <2>3, QuietStep
<1> QED BY <1>8, <1>9, <1>10, <1>11

(* The steps of the event chain lose nothing. *)
LEMMA NoLossChain == TypeInv /\ NoLossInv /\ ChainStep => NoLossInv'
<1> SUFFICES ASSUME TypeInv, NoLossInv, ChainStep PROVE NoLossInv'
  OBVIOUS
<1>1. TypeInv'
  BY TypeChain
<1>2. chain # <<>>
  BY DEF ChainStep, DropTask, PassSkip, Look, FlushFirst, PassDropped, Join, DriftStop,
     RereadFails, FlushTake, JoinAfterFlush, TruncateAfterFlush, NoticeAfterFlush,
     NoticeDone, StopAfterFlush, TaskReady, TypeInv, TaskStands
<1>3. phase # "none"
  BY <1>2 DEF NoLossInv, StreamGone
<1> QED BY <1>1, <1>2, <1>3, NoLossQuiet, NoLossTake DEF ChainStep

(* A step of the delivery leaves the reader alone. *)
LEMMA ReaderKept ==
  ASSUME TypeInv, NoLossInv, Live' => Live,
         UNCHANGED <<next, phase, buffer, tail, timer, chain, pc>>,
         Live' => \A p \in Positions : Pending(p) => Pending(p)'
  PROVE  BatchCovers' /\ QueueCovers' /\ BatchStands' /\ StreamGone'
<1>1. BatchCovers'
  BY BatchKept DEF NoLossInv
<1>2. QueueCovers'
  BY QueueKeep DEF NoLossInv
<1> QED BY <1>1, <1>2 DEF NoLossInv, BatchStands, StreamGone, Head1

(* What every step of a delivery has in common, short of its checkpoint. *)
FlightQuiet ==
  /\ UNCHANGED <<log, slot, next, phase, wm, seq, buffer, tail, timer, chain, pc>>
  /\ job'.offset = job.offset /\ job'.cursor = job.cursor
  /\ landed \subseteq landed' /\ (Live' => Live)
  /\ \A e \in dlq : e.seq < job.offset => e \in dlq'
  /\ \A c \in cells : c.seq < job.offset => c \in cells'

(* A step of the flight that stores nothing keeps what is settled. *)
LEMMA FlightPreserves ==
  ASSUME TypeInv, TypeInv', NoLossInv, FlightQuiet
  PROVE  SavedSettled' /\ Preserved /\ \A p : Settled(p) => Settled(p)'
<1>1. Preserved
  BY DEF FlightQuiet, Preserved, TypeInv, TypeOK, StoreOK
<1>2. \A p : Settled(p) => Settled(p)'
  BY <1>1, SettledStaysSettled
<1> QED BY <1>1, <1>2 DEF FlightQuiet, NoLossInv, SavedSettled, SettledTo

(* The delivery goes on with what it carries. *)
LEMMA FlightGoesOn ==
  ASSUME TypeInv, TypeInv', NoLossInv, FlightQuiet, Writing,
         flight'.items = flight.items, flight'.reach = flight.reach,
         flight'.seq = flight.seq, FlightSteps', FlightWork'
  PROVE  NoLossInv'
<1>1. SavedSettled' /\ Preserved /\ \A p : Settled(p) => Settled(p)'
  BY FlightPreserves
<1>2. FlightCovers'
  BY <1>1 DEF FlightQuiet, NoLossInv, FlightCovers
<1>3. \A p \in Positions : Pending(p) => Pending(p)'
  BY <1>1 DEF Pending, FlightQuiet
<1>4. BatchCovers' /\ QueueCovers' /\ BatchStands' /\ StreamGone'
  BY <1>3, ReaderKept DEF FlightQuiet
<1> QED BY <1>1, <1>2, <1>4 DEF NoLossInv

(* The delivery is given up, and the stream with it. *)
LEMMA FlightGivenUp ==
  ASSUME TypeInv, TypeInv', NoLossInv, FlightQuiet, flight' = NoFlight, ~Live'
  PROVE  NoLossInv'
<1>1. SavedSettled'
  BY FlightPreserves
<1>2. FlightCovers' /\ FlightSteps' /\ FlightWork'
  BY DEF NoFlight, FlightCovers, FlightSteps, FlightWork, Writing, AtFault, FailedSeq
<1>3. BatchCovers' /\ QueueCovers' /\ BatchStands' /\ StreamGone'
  BY ReaderKept DEF FlightQuiet
<1> QED BY <1>1, <1>2, <1>3 DEF NoLossInv

(* Where no answer may be lost, none is. *)
LEMMA NoReply ==
  ASSUME budget["reply"] = 0 PROVE ~Spend("reply")
BY DEF Spend

(* An answer that arrives. *)
LEMMA AnswerArrives ==
  ASSUME budget["reply"] = 0, NEW st, Answered(st)
  PROVE  flight' = [flight EXCEPT !.st = st] /\ UNCHANGED <<job, halted, budget>>
BY NoReply DEF Answered

(* record(): a delivery in flight is recorded at the saved sequence or after. *)
LEMMA RecordedAfter ==
  ASSUME TypeInv, NoLossInv, Writing, NEW s \in {flight.seq, FailedSeq}, NEW S, NEW a,
         Recorded(s, S, a)
  PROVE  \A c \in cells : c.seq < job.offset => c \in cells'
<1>1. flight.seq \in Nat /\ job.offset \in Nat /\ flight.seq = job.offset
  BY DEF TypeInv, TypeOK, StoreOK, Flight, NoLossInv, FlightCovers, SavedSettled
<1>2. s \in Nat /\ s >= job.offset
  BY <1>1 DEF FailedSeq
<1>3. \A c \in cells : c.seq \in Nat
  BY DEF TypeInv, TypeOK, StoreOK
<1>4. \A c \in cells : c.seq < job.offset => c.seq # s
  BY <1>1, <1>2, <1>3
<1> QED BY <1>4 DEF Recorded

(* Delivering a batch loses nothing. *)
LEMMA NoLossDeliver ==
  ASSUME TypeInv, TypeInv', NoLossInv, DeliverOk \/ DeliverFails
  PROVE  NoLossInv'
<1>1. flight.st = "write" /\ Writing /\ flight.work = "ok"
  BY DEF DeliverOk, DeliverFails, Writing, NoLossInv, FlightWork
<1>2. landed \subseteq landed'
  BY DEF DeliverOk, DeliverFails, Land
<1>3. FlightQuiet /\ halted' = halted
  BY <1>2 DEF DeliverOk, DeliverFails, FlightQuiet, flightFrame, source, store, batch,
     Live, Registered
<1>4. CASE halted = "yes"
  <2>1. flight' = NoFlight
    BY <1>4 DEF DeliverOk, DeliverFails
  <2> QED BY <1>3, <1>4, <2>1, FlightGivenUp DEF Live
<1>5. CASE halted # "yes" /\ DeliverOk
  <2>1. flight' = [flight EXCEPT !.st = "record", !.del = flight.items,
                                 !.nextSeq = flight.seq + 1]
    BY <1>5 DEF DeliverOk
  <2>2. flight \in Flight
    BY DEF TypeInv, TypeOK
  <2>3. /\ flight'.st = "record" /\ flight'.work = "ok" /\ flight'.items = flight.items
        /\ flight'.reach = flight.reach /\ flight'.seq = flight.seq
        /\ flight'.nextSeq = flight.seq + 1
    BY <1>1, <2>1, <2>2 DEF Flight
  <2>4. flight.items \subseteq landed'
    BY <1>5 DEF DeliverOk, Land
  <2>5. FlightSteps' /\ FlightWork'
    BY <2>3, <2>4 DEF FlightSteps, FlightWork, Writing
  <2> QED BY <1>1, <1>3, <2>3, <2>5, FlightGoesOn
<1>6. CASE halted # "yes" /\ DeliverFails
  <2>1. flight' = [flight EXCEPT !.st = "failed", !.work = "failed"]
    BY <1>6 DEF DeliverFails
  <2>2. flight \in Flight
    BY DEF TypeInv, TypeOK
  <2>3. /\ flight'.st = "failed" /\ flight'.work = "failed"
        /\ flight'.items = flight.items /\ flight'.reach = flight.reach
        /\ flight'.seq = flight.seq
    BY <2>1, <2>2 DEF Flight
  <2>4. FlightSteps' /\ FlightWork'
    BY <2>3 DEF FlightSteps, FlightWork, Writing
  <2> QED BY <1>1, <1>3, <2>3, <2>4, FlightGoesOn
<1> QED BY <1>4, <1>5, <1>6

(* A green cell of a row that landed tells the truth. *)
LEMMA GreenTold ==
  ASSUME NEW p, NEW s \in Nat, NEW n \in Nat, s < n, p \in landed',
         [seq |-> s, pos |-> p, as |-> "delivered"] \in cells'
  PROVE  ToldBelow(p, n)'
<1>1. PICK c \in cells' : c = [seq |-> s, pos |-> p, as |-> "delivered"]
  OBVIOUS
<1>2. c.pos = p /\ c.seq = s /\ c.as = "delivered"
  BY <1>1
<1> QED BY <1>2 DEF ToldBelow

(* So does a red one of a row that is parked under its sequence. *)
LEMMA RedTold ==
  ASSUME NEW p, NEW s \in Nat, NEW n \in Nat, s < n, [seq |-> s, pos |-> p] \in dlq',
         [seq |-> s, pos |-> p, as |-> "failed"] \in cells'
  PROVE  ToldBelow(p, n)'
<1>1. PICK c \in cells' : c = [seq |-> s, pos |-> p, as |-> "failed"]
  OBVIOUS
<1>2. c.pos = p /\ c.seq = s /\ c.as = "failed"
  BY <1>1
<1> QED BY <1>2 DEF ToldBelow

(* Recording its outcome loses nothing. *)
LEMMA NoLossRecord ==
  ASSUME TypeInv, TypeInv', NoLossInv, budget["reply"] = 0,
         RecordOk \/ RecordNotice \/ RecordDelivered \/ RecordFailed
  PROVE  NoLossInv'
<1>1. PICK st \in {"persist", "recordFailed"} :
        /\ Answered(st)
        /\ st = "recordFailed" <=> flight.st = "recordDelivered"
  BY DEF RecordOk, RecordNotice, RecordDelivered, RecordFailed
<1>2. flight' = [flight EXCEPT !.st = st] /\ UNCHANGED <<job, halted>>
  BY <1>1, AnswerArrives
<1>0. Writing /\ \E s \in {flight.seq, FailedSeq} : \E S, a : Recorded(s, S, a)
  BY DEF RecordOk, RecordNotice, RecordDelivered, RecordFailed, Writing
<1>a. \A c \in cells : c.seq < job.offset => c \in cells'
  BY <1>0, RecordedAfter
<1>3. FlightQuiet /\ UNCHANGED <<landed, dlq>>
  BY <1>2, <1>a DEF RecordOk, RecordNotice, RecordDelivered, RecordFailed, FlightQuiet,
     flightFrame, source, target, batch, Live, Registered
<1>4. flight \in Flight
  BY DEF TypeInv, TypeOK
<1>5. /\ flight'.st = st /\ flight'.work = flight.work /\ flight'.items = flight.items
      /\ flight'.reach = flight.reach /\ flight'.seq = flight.seq
      /\ flight'.nextSeq = flight.nextSeq /\ flight'.del = flight.del
  BY <1>2, <1>4 DEF Flight
<1>6. flight.st \in {"record", "notice", "recordDelivered", "recordFailed"} /\ Writing
  BY DEF RecordOk, RecordNotice, RecordDelivered, RecordFailed, Writing
<1>7. FlightWork'
  BY <1>1, <1>5, <1>6 DEF NoLossInv, FlightWork, Writing
<1>8. FailedSeq' = FailedSeq /\ AtFault' = AtFault
  BY <1>5 DEF FailedSeq, AtFault
<1>9. flight.seq \in Nat /\ flight.nextSeq \in Nat
  BY <1>4 DEF Flight
<1>10. CASE flight.st = "recordDelivered"
  <2>1. flight'.st = "recordFailed" /\ flight.work = "failed"
    BY <1>1, <1>5, <1>10 DEF NoLossInv, FlightWork
  <2>2. \A p \in flight.del : [seq |-> flight.seq, pos |-> p, as |-> "delivered"] \in cells'
    BY <1>10 DEF RecordOk, RecordNotice, RecordDelivered, RecordFailed, Recorded
  <2>3. FlightSteps'
    BY <1>3, <1>5, <1>8, <1>10, <2>1, <2>2 DEF NoLossInv, FlightSteps, Writing
  <2> QED BY <1>3, <1>5, <1>6, <1>7, <2>3, FlightGoesOn
<1>11. CASE flight.st # "recordDelivered"
  <2>1. flight'.st = "persist"
    BY <1>1, <1>5, <1>11
  <2>0. PICK n \in Nat : n = flight.nextSeq
    BY <1>9
  <2>2. n >= flight.seq /\ \A p \in flight.items : ToldBelow(p, n)'
    <3>1. CASE flight.st = "record"
      <4>1. flight.items \subseteq landed' /\ n = flight.seq + 1
        BY <1>3, <2>0, <3>1 DEF NoLossInv, FlightSteps
      <4>2. \A p \in flight.items :
              [seq |-> flight.seq, pos |-> p, as |-> "delivered"] \in cells'
        BY <3>1 DEF RecordOk, RecordNotice, RecordDelivered, RecordFailed, Recorded
      <4>3. flight.seq < n /\ n >= flight.seq
        BY <1>9, <4>1
      <4>4. ASSUME NEW p \in flight.items PROVE ToldBelow(p, n)'
        <5>1. p \in landed'
          BY <4>1
        <5>2. [seq |-> flight.seq, pos |-> p, as |-> "delivered"] \in cells'
          BY <4>2
        <5> QED BY <1>9, <4>3, <5>1, <5>2, GreenTold, Zenon
      <4> QED BY <4>3, <4>4
    <3>2. CASE flight.st = "notice"
      BY <1>9, <2>0, <3>2 DEF NoLossInv, FlightSteps, FlightWork
    <3>3. CASE flight.st = "recordFailed"
      <4>1. /\ flight.del \subseteq landed' /\ n = FailedSeq + 1
            /\ \A p \in AtFault : [seq |-> FailedSeq, pos |-> p] \in dlq'
            /\ \A p \in flight.del :
                 [seq |-> flight.seq, pos |-> p, as |-> "delivered"] \in cells
        BY <1>3, <2>0, <3>3 DEF NoLossInv, FlightSteps
      <4>2. FailedSeq \in Nat /\ FailedSeq >= flight.seq
        BY <1>9 DEF FailedSeq
      <4>3. Recorded(FailedSeq, AtFault, "failed")
        BY <3>3 DEF RecordOk, RecordNotice, RecordDelivered, RecordFailed
      <4>4. \A p \in AtFault : [seq |-> FailedSeq, pos |-> p, as |-> "failed"] \in cells'
        BY <4>3 DEF Recorded
      <4>5. ASSUME NEW p \in flight.del PROVE ToldBelow(p, n)'
        <5>1. flight.seq # FailedSeq
          BY <1>9 DEF FailedSeq
        <5>2. [seq |-> flight.seq, pos |-> p, as |-> "delivered"] \in cells'
          BY <4>1, <4>3, <5>1 DEF Recorded
        <5>3. flight.seq < n /\ p \in landed'
          BY <1>9, <4>1, <4>2
        <5> QED BY <1>9, <5>2, <5>3, GreenTold, Zenon
      <4>6. ASSUME NEW p \in AtFault PROVE ToldBelow(p, n)'
        <5>1. FailedSeq < n
          BY <4>1, <4>2
        <5>2. /\ [seq |-> FailedSeq, pos |-> p] \in dlq'
              /\ [seq |-> FailedSeq, pos |-> p, as |-> "failed"] \in cells'
          BY <4>1, <4>4
        <5> QED BY <4>2, <5>1, <5>2, RedTold, Zenon
      <4> QED BY <1>9, <4>1, <4>2, <4>5, <4>6 DEF AtFault
    <3> QED BY <1>6, <1>11, <3>1, <3>2, <3>3
  <2>3. FlightSteps'
    <3>1. flight.st # "write"
      BY <1>6
    <3>2. \A p \in flight'.items : ToldBelow(p, flight.nextSeq)'
      BY <1>5, <2>0, <2>2 DEF ToldBelow
    <3> QED BY <1>3, <1>5, <2>0, <2>1, <2>2, <3>1, <3>2 DEF NoLossInv, FlightSteps, Writing
  <2> QED BY <1>3, <1>5, <1>6, <1>7, <2>3, FlightGoesOn
<1> QED BY <1>10, <1>11

(* Handling a failed delivery loses nothing. *)
LEMMA NoLossFailed ==
  ASSUME TypeInv, TypeInv', NoLossInv, HandleFailed
  PROVE  NoLossInv'
<1>1. flight.st = "failed" /\ Writing /\ flight.work = "failed"
  BY DEF HandleFailed, Writing, NoLossInv, FlightWork
<1>2. landed \subseteq landed'
  BY DEF HandleFailed, Land, target
<1>3. FlightQuiet
  BY <1>2 DEF HandleFailed, FlightQuiet, flightFrame, source, store, batch, Live,
     Registered
<1>4. flight \in Flight /\ flight.seq \in Nat
  BY DEF TypeInv, TypeOK, Flight
<1>5. CASE flight' = [flight EXCEPT !.st = "halting"]
  <2>1. /\ flight'.st = "halting" /\ flight'.work = "failed"
        /\ flight'.items = flight.items /\ flight'.reach = flight.reach
        /\ flight'.seq = flight.seq
    BY <1>1, <1>4, <1>5 DEF Flight
  <2>2. FlightSteps' /\ FlightWork'
    BY <2>1 DEF FlightSteps, FlightWork, Writing
  <2> QED BY <1>1, <1>3, <2>1, <2>2, FlightGoesOn
<1>6. CASE flight' # [flight EXCEPT !.st = "halting"]
  <2>1. PICK D \in SUBSET flight.items :
          /\ Land(D)
          /\ flight' =
               [flight EXCEPT
                  !.del = D,
                  !.nextSeq = flight.seq
                                + IF D # {} /\ D # flight.items THEN 2 ELSE 1,
                  !.st = IF D = flight.items THEN "record"
                           ELSE IF consec' >= MaxConsecutive THEN "halting" ELSE "park"]
    <3>1. PICK D \in IF CanIsolate /\ Cardinality(flight.items) > 1
                       THEN SUBSET flight.items ELSE {{}} :
          /\ Land(D)
          /\ flight' =
               [flight EXCEPT
                  !.del = D,
                  !.nextSeq = flight.seq
                                + IF D # {} /\ D # flight.items THEN 2 ELSE 1,
                  !.st = IF D = flight.items THEN "record"
                           ELSE IF consec' >= MaxConsecutive THEN "halting" ELSE "park"]
      BY <1>6 DEF HandleFailed
    <3>2. D \in SUBSET flight.items
      OBVIOUS
    <3> QED BY <3>1, <3>2
  <2> DEFINE n == flight.seq + IF D # {} /\ D # flight.items THEN 2 ELSE 1
             s == IF D = flight.items THEN "record"
                    ELSE IF consec' >= MaxConsecutive THEN "halting" ELSE "park"
  <2>2. n = flight.seq + IF D # {} /\ D # flight.items THEN 2 ELSE 1
    OBVIOUS
  <2>3. \/ s = "record" /\ D = flight.items
        \/ s \in {"halting", "park"} /\ D # flight.items
    <3>1. CASE D = flight.items
      BY <3>1
    <3>2. CASE D # flight.items /\ consec' >= MaxConsecutive
      BY <3>2
    <3>3. CASE D # flight.items /\ ~(consec' >= MaxConsecutive)
      BY <3>3
    <3> QED BY <3>1, <3>2, <3>3
  <2>4. flight' = [flight EXCEPT !.del = D, !.nextSeq = n, !.st = s]
    BY <2>1
  <2> HIDE DEF n, s
  <2>5. /\ flight'.st = s /\ flight'.work = "failed" /\ flight'.items = flight.items
        /\ flight'.reach = flight.reach /\ flight'.seq = flight.seq
        /\ flight'.nextSeq = n /\ flight'.del = D
    BY <1>1, <1>4, <2>4 DEF Flight
  <2>6. D \subseteq landed'
    BY <2>1 DEF Land
  <2>7. FailedSeq' = IF D # {} THEN flight.seq + 1 ELSE flight.seq
    BY <2>5 DEF FailedSeq
  <2>8. FlightWork'
    BY <2>3, <2>5 DEF FlightWork, Writing
  <2>9. CASE s = "record" /\ D = flight.items
    <3>1. n = flight.seq + 1
      BY <1>4, <2>2, <2>9
    <3>2. FlightSteps'
      BY <2>5, <2>6, <2>9, <3>1 DEF FlightSteps, Writing
    <3> QED BY <1>1, <1>3, <2>5, <2>8, <3>2, FlightGoesOn
  <2>10. CASE s \in {"halting", "park"} /\ D # flight.items
    <3>1. n = FailedSeq' + 1
      BY <1>4, <2>2, <2>7, <2>10
    <3>2. FlightSteps'
      BY <2>5, <2>6, <2>10, <3>1 DEF FlightSteps, Writing
    <3> QED BY <1>1, <1>3, <2>5, <2>8, <3>2, FlightGoesOn
  <2> QED BY <2>3, <2>9, <2>10
<1> QED BY <1>5, <1>6

(* Parking the rows at fault loses nothing. *)
LEMMA NoLossPark ==
  ASSUME TypeInv, TypeInv', NoLossInv, budget["reply"] = 0, Park
  PROVE  NoLossInv'
<1>1. flight.st = "park" /\ Writing /\ flight.work = "failed"
  BY DEF Park, Writing, NoLossInv, FlightWork
<1>2. flight \in Flight
  BY DEF TypeInv, TypeOK
<1>3. flight.seq = job.offset
  BY <1>1 DEF NoLossInv, FlightCovers, SavedSettled
<1>4. CASE Cardinality(dlq) + Cardinality(AtFault) > DeadLetterMax
  <2>1. flight' = [flight EXCEPT !.st = "halting"] /\ UNCHANGED <<dlq, job, halted>>
    BY <1>4 DEF Park
  <2>2. FlightQuiet
    BY <2>1 DEF Park, FlightQuiet, flightFrame, source, target, batch, Live, Registered
  <2>3. /\ flight'.st = "halting" /\ flight'.work = "failed"
        /\ flight'.items = flight.items /\ flight'.reach = flight.reach
        /\ flight'.seq = flight.seq
    BY <1>1, <1>2, <2>1 DEF Flight
  <2>4. FlightSteps' /\ FlightWork'
    BY <2>3 DEF FlightSteps, FlightWork, Writing
  <2> QED BY <1>1, <2>2, <2>3, <2>4, FlightGoesOn
<1>5. CASE ~(Cardinality(dlq) + Cardinality(AtFault) > DeadLetterMax)
  <2>1. PICK st \in {"recordDelivered", "recordFailed"} :
          Answered(st) /\ (st = "recordFailed" => flight.del = {})
    BY <1>5 DEF Park
  <2>2. flight' = [flight EXCEPT !.st = st] /\ UNCHANGED <<job, halted>>
    BY <2>1, AnswerArrives
  <2>3. dlq' = {e \in dlq : e.seq < flight.seq}
                 \cup {[seq |-> FailedSeq, pos |-> p] : p \in AtFault}
    BY <1>5 DEF Park
  <2>4. FlightQuiet /\ landed' = landed
    BY <1>3, <2>2, <2>3 DEF Park, FlightQuiet, flightFrame, source, target, batch, Live,
       Registered
  <2>5. /\ flight'.st = st /\ flight'.work = "failed" /\ flight'.items = flight.items
        /\ flight'.reach = flight.reach /\ flight'.seq = flight.seq
        /\ flight'.nextSeq = flight.nextSeq /\ flight'.del = flight.del
    BY <1>1, <1>2, <2>2 DEF Flight
  <2>6. FailedSeq' = FailedSeq /\ AtFault' = AtFault
    BY <2>5 DEF FailedSeq, AtFault
  <2>7. FlightWork'
    BY <2>5 DEF FlightWork, Writing
  <2>8. \A p \in AtFault : [seq |-> FailedSeq, pos |-> p] \in dlq'
    BY <2>3
  <2>9. flight.del \subseteq landed /\ flight.nextSeq = FailedSeq + 1
    BY <1>1 DEF NoLossInv, FlightSteps
  <2>10. FlightSteps'
    BY <2>1, <2>4, <2>5, <2>6, <2>8, <2>9 DEF FlightSteps, Writing
  <2> QED BY <1>1, <2>4, <2>5, <2>7, <2>10, FlightGoesOn
<1> QED BY <1>4, <1>5

(* Stopping at a failed batch loses nothing. *)
LEMMA NoLossStop ==
  ASSUME TypeInv, TypeInv', NoLossInv, budget["reply"] = 0, StopBatch \/ PersistHalted
  PROVE  NoLossInv'
<1>1. flight' = NoFlight /\ halted' = "yes"
  BY NoReply DEF StopBatch, PersistHalted, HaltTo
<1>2. job'.offset = job.offset /\ job'.cursor = job.cursor
  BY NoReply DEF StopBatch, PersistHalted, HaltTo, store, TypeInv, TypeOK, StoreOK
<1>3. ~Live'
  BY <1>1 DEF Live
<1>a. \A c \in cells : c.seq < job.offset => c \in cells'
  <2>1. CASE StopBatch
    BY <2>1, RecordedAfter DEF StopBatch, Writing
  <2>2. CASE PersistHalted
    BY <2>2 DEF PersistHalted, store
  <2> QED BY <2>1, <2>2
<1>4. FlightQuiet
  BY <1>2, <1>3, <1>a DEF StopBatch, PersistHalted, FlightQuiet, flightFrame, source, store,
     target, batch
<1> QED BY <1>1, <1>3, <1>4, FlightGivenUp

(* checkpoint(): what was in flight is settled under the new sequence. *)
LEMMA NoLossPersist ==
  ASSUME TypeInv, TypeInv', NoLossInv, Persist
  PROVE  NoLossInv'
<1>1. flight.st = "persist" /\ Writing /\ flight \in Flight
  BY DEF Persist, Writing, TypeInv, TypeOK
<1>2. /\ phase # "none" /\ flight.seq = seq /\ seq = job.offset
      /\ \A p \in 1 .. flight.reach : Settled(p) \/ p \in flight.items
  BY <1>1 DEF NoLossInv, FlightCovers, SavedSettled
<1>3. /\ flight.nextSeq >= flight.seq
      /\ \A p \in flight.items : ToldBelow(p, flight.nextSeq)
  BY <1>1 DEF NoLossInv, FlightSteps
<1>4. job'.offset = flight.nextSeq /\ job'.cursor = flight.reach
  BY DEF Persist, Saved, TypeInv, TypeOK, StoreOK
<1>5. /\ seq' = flight.nextSeq /\ wm' = flight.reach /\ flight' = NoFlight
      /\ UNCHANGED <<log, next, phase, buffer, tail, timer, chain, pc, dlq, cells, target,
                     halted>>
      /\ slot' \in {slot, flight.reach}
  BY DEF Persist, AckTo, batch
<1>6. Preserved
  BY <1>2, <1>3, <1>4, <1>5 DEF Preserved, target, TypeInv, TypeOK, StoreOK
<1>7. \A p : Settled(p) => Settled(p)'
  BY <1>6, SettledStaysSettled
<1>8. \A p \in flight.items : Settled(p)'
  BY <1>3, <1>4, <1>5 DEF Settled, ToldBelow, target
<1>9. \A p \in 1 .. flight.reach : Settled(p)'
  BY <1>2, <1>7, <1>8
<1>10. SavedSettled'
  BY <1>4, <1>5, <1>7, <1>9 DEF NoLossInv, SavedSettled, SettledTo
<1>11. FlightCovers' /\ FlightSteps' /\ FlightWork'
  BY <1>5 DEF NoFlight, FlightCovers, FlightSteps, FlightWork, Writing, AtFault, FailedSeq
<1>12. \A p \in Positions : Pending(p) => Pending(p)'
  BY <1>5, <1>7, <1>8 DEF Pending
<1>13. Live' => Live
  BY <1>5 DEF Live, Registered
<1>14. BatchCovers' /\ QueueCovers' /\ BatchStands' /\ StreamGone'
  BY <1>5, <1>12, <1>13, ReaderKept
<1> QED BY <1>10, <1>11, <1>14 DEF NoLossInv

(* settle(): the work begins again on what stands, or the bridge stops. *)
LEMMA NoLossStoreFails ==
  ASSUME TypeInv, TypeInv', NoLossInv, StoreFails
  PROVE  NoLossInv'
<1>1. Writing /\ flight.st # "write" /\ flight \in Flight
  BY DEF StoreFails, Writing, TypeInv, TypeOK
<1>2. job'.offset = job.offset /\ job'.cursor = job.cursor
  BY DEF StoreFails, RetryStatus, TypeInv, TypeOK, StoreOK
<1>3. halted' \in {halted, "yes"}
  BY DEF StoreFails, Retry
<1>4. FlightQuiet /\ UNCHANGED <<landed, dlq, cells>>
  BY <1>2, <1>3 DEF StoreFails, FlightQuiet, flightFrame, source, target, batch, Live,
     Registered
<1>5. CASE halted = "yes" \/ ~(flight.tries + 1 < SettleAttempts)
  <2>1. flight' = NoFlight /\ halted' = "yes"
    BY <1>5 DEF StoreFails, Retry
  <2> QED BY <1>4, <2>1, FlightGivenUp DEF Live
<1>6. CASE ~(halted = "yes" \/ ~(flight.tries + 1 < SettleAttempts))
  <2>1. flight' = [flight EXCEPT !.st = Restart, !.tries = @ + 1]
    BY <1>6 DEF StoreFails, Retry
  <2> DEFINE r == Restart
  <2>2. /\ flight.work = "ok" => r = "record"
        /\ flight.work = "failed" => r = "failed"
        /\ flight.work = "notice" => r = "notice"
        /\ flight.work = "empty" => r = "persist"
    BY DEF Restart
  <2> HIDE DEF r
  <2>3. /\ flight'.st = r /\ flight'.work = flight.work /\ flight'.items = flight.items
        /\ flight'.reach = flight.reach /\ flight'.seq = flight.seq
        /\ flight'.nextSeq = flight.nextSeq /\ flight'.del = flight.del
    BY <1>1, <2>1 DEF Flight, r
  <2>4. flight.work \in {"ok", "failed", "notice", "empty"}
    BY <1>1 DEF NoLossInv, FlightWork, Flight
  <2>5. flight.seq \in Nat /\ flight.nextSeq \in Nat
    BY <1>1 DEF Flight
  <2>6. FlightWork'
    BY <2>2, <2>3, <2>4 DEF FlightWork, Writing
  <2>7. FlightSteps'
    BY <1>1, <1>4, <2>2, <2>3, <2>4, <2>5 DEF NoLossInv, FlightSteps, Writing
  <2> QED BY <1>1, <1>4, <2>3, <2>6, <2>7, FlightGoesOn
<1> QED BY <1>5, <1>6

(* The steps of a batch in flight lose nothing. *)
LEMMA NoLossFlight ==
  TypeInv /\ NoLossInv /\ budget["reply"] = 0 /\ FlightStep => NoLossInv'
<1> SUFFICES ASSUME TypeInv, NoLossInv, budget["reply"] = 0, FlightStep PROVE NoLossInv'
  OBVIOUS
<1>1. TypeInv'
  BY TypeFlight
<1>2. ~PersistUnanswered
  BY NoReply DEF PersistUnanswered
<1> QED BY <1>1, <1>2, NoLossDeliver, NoLossRecord, NoLossFailed, NoLossPark, NoLossStop,
     NoLossPersist, NoLossStoreFails DEF FlightStep

(* Failures are only ever used up. *)
LEMMA ReplyStays ==
  ASSUME TypeInv, TypeInv', budget["reply"] = 0, Next
  PROVE  budget'["reply"] = 0
<1>1. budget \in [FaultKinds -> Nat] /\ budget' \in [FaultKinds -> Nat]
  BY DEF TypeInv, TypeOK, CounterOK
<1>2. \/ UNCHANGED budget
      \/ \E f \in FaultKinds : Spend(f)
  <2>1. CASE Lifecycle
    BY <2>1, FaultNames DEF Lifecycle, Start, Resume, BeginStream, TeardownBegin,
       TeardownDrop, TeardownEnd, Crash
  <2>2. CASE Provider
    BY <2>2, FaultNames DEF Provider, Hand, Reconnect, HandFatal, TimerFire, Heartbeat
  <2>3. CASE ChainStep
    BY <2>3, FaultNames DEF ChainStep, DropTask, PassSkip, Look, FlushFirst, PassDropped,
       Join, DriftStop, RereadFails, FlushTake, JoinAfterFlush, TruncateAfterFlush,
       NoticeAfterFlush, NoticeDone, StopAfterFlush, chainFrame, Spend
  <2>4. CASE FlightStep
    BY <2>4, FaultNames DEF FlightStep, DeliverOk, DeliverFails, RecordOk, RecordNotice,
       HandleFailed, StopBatch, Park, RecordDelivered, RecordFailed, PersistHalted,
       Persist, PersistUnanswered, StoreFails, Answered
  <2> QED BY <2>1, <2>2, <2>3, <2>4 DEF Next
<1>3. ASSUME NEW f \in FaultKinds, Spend(f) PROVE budget'["reply"] = 0
  <2>1. budget'["reply"] <= budget["reply"]
    BY <1>1, <1>3, SpendType, FaultNames
  <2> QED BY <1>1, <2>1, FaultNames
<1> QED BY <1>2, <1>3

(* At the start nothing was read. *)
LEMMA NoLossInit == Init => NoLossInv
<1> SUFFICES ASSUME Init PROVE NoLossInv
  OBVIOUS
<1>1. FlightCovers /\ FlightSteps /\ FlightWork
  BY DEF Init, NoFlight, FlightCovers, FlightSteps, FlightWork, Writing, AtFault,
     FailedSeq
<1>2. SavedSettled /\ BatchCovers /\ QueueCovers /\ BatchStands /\ StreamGone
  BY DEF Init, SavedSettled, SettledTo, BatchCovers, QueueCovers, BatchStands,
     StreamGone, Live, Registered, Idle
<1> QED BY <1>1, <1>2 DEF NoLossInv

(* Settled up to the saved cursor: nothing before it is lost. *)
LEMMA SettledAccounted == SavedSettled => NothingLost
<1> SUFFICES ASSUME NEW p, IsRow(p), Settled(p) PROVE Accounted(p)
  BY DEF SavedSettled, SettledTo, NothingLost, Covered, Accounted
<1>1. p \in landed \/ \E n : [seq |-> n, pos |-> p] \in dlq
  BY DEF Settled, ToldBelow
<1>2. \A n : [seq |-> n, pos |-> p].pos = p
  OBVIOUS
<1> QED BY <1>1, <1>2 DEF Accounted

(* Every step keeps the invariant. *)
LEMMA InvStep == Inv /\ [Next]_vars => Inv'
<1> SUFFICES ASSUME Inv, [Next]_vars PROVE Inv'
  OBVIOUS
<1>1. CASE Next
  <2>1. TypeInv'
    BY <1>1, TypeNext DEF Inv
  <2>2. NoLossInv'
    BY <1>1, NoLossLifecycle, NoLossProvider, NoLossChain, NoLossFlight DEF Inv, Next
  <2>3. budget'["reply"] = 0
    BY <1>1, <2>1, ReplyStays DEF Inv
  <2> QED BY <2>1, <2>2, <2>3 DEF Inv
<1>2. CASE UNCHANGED vars
  <2>1. TypeInv'
    BY <1>2, TypeStutter DEF Inv
  <2>2. ChainQuiet /\ UNCHANGED <<buffer, tail, chain, pc, timer, halted, budget>>
    BY <1>2 DEF vars, source, store, target, life, batch, ChainQuiet, Live, Registered
  <2>3. \A p \in Positions : Pending(p) => Pending(p)'
    BY <2>1, <2>2, QuietPending DEF Inv
  <2>4. BatchCovers' /\ QueueCovers' /\ BatchStands' /\ StreamGone'
    BY <2>2, <2>3, ReaderKept DEF Inv, ChainQuiet
  <2>5. SavedSettled' /\ FlightCovers' /\ FlightSteps'
    BY <2>1, <2>2, SavedKept DEF Inv, NoLossInv, ChainQuiet
  <2>6. FlightWork'
    BY <2>2 DEF Inv, NoLossInv, ChainQuiet, FlightWork, Writing
  <2> QED BY <2>1, <2>2, <2>4, <2>5, <2>6 DEF Inv, NoLossInv
<1> QED BY <1>1, <1>2

(* No row is ever lost: in every behaviour of the pipeline in which no     *)
(* answer of the metadata store is lost, every row at or behind the saved  *)
(* cursor, or behind what the source may forget, has been applied at the   *)
(* destination or is in the dead-letter queue (checkpoint, flush,          *)
(* handleFailedBatch, park, notePosition).                                 *)
THEOREM NoRowLost == Budgets["reply"] = 0 => (Spec => []NothingLost)
<1> SUFFICES ASSUME Budgets["reply"] = 0 PROVE Spec => []NothingLost
  OBVIOUS
<1>1. Init => Inv
  BY TypeInit, NoLossInit DEF Init, Inv
<1>2. Inv => NothingLost
  BY SettledAccounted DEF Inv, NoLossInv
<1> QED BY <1>1, <1>2, InvStep, PTL DEF Spec

(* The timeline is truthful: every row behind the saved cursor has a cell  *)
(* below the saved sequence, green only if the row landed and red only if  *)
(* it is in the dead-letter queue under that very sequence (record, park,  *)
(* checkpoint), through crashes, reconnects, failed saves and split        *)
(* batches, as long as no answer of the metadata store is lost.            *)
THEOREM TimelineTellsTruth == Budgets["reply"] = 0 => (Spec => []TimelineTruthful)
<1> SUFFICES ASSUME Budgets["reply"] = 0 PROVE Spec => []TimelineTruthful
  OBVIOUS
<1>1. Init => Inv
  BY TypeInit, NoLossInit DEF Init, Inv
<1>2. Inv => TimelineTruthful
  BY DEF Inv, NoLossInv, SavedSettled, SettledTo, Settled, ToldBelow, TimelineTruthful
<1> QED BY <1>1, <1>2, InvStep, PTL DEF Spec

(* Records and parked rows go to the saved sequence or beyond it. *)
LEMMA SettledStep ==
  ASSUME Inv, Next
  PROVE  /\ \A c \in cells : c.seq < job.offset => c \in cells'
         /\ \A e \in dlq : e.seq < job.offset => e \in dlq'
<1> USE DEF Inv
<1>3. Writing => flight.seq = job.offset
  BY DEF NoLossInv, FlightCovers, SavedSettled
<1>5. CASE RecordOk \/ RecordNotice \/ StopBatch \/ RecordDelivered \/ RecordFailed
  <2>1. dlq' = dlq /\ Writing
    BY <1>5 DEF RecordOk, RecordNotice, StopBatch, RecordDelivered, RecordFailed, Writing
  <2>2. \E s \in {flight.seq, FailedSeq} : \E S, a : Recorded(s, S, a)
    BY <1>5 DEF RecordOk, RecordNotice, StopBatch, RecordDelivered, RecordFailed
  <2> QED BY <2>1, <2>2, RecordedAfter
<1>6. CASE Park
  <2>1. cells' = cells /\ flight.seq = job.offset
    BY <1>3, <1>6 DEF Park, Writing
  <2>2. \A e \in dlq : e.seq < flight.seq => e \in dlq'
    BY <1>6 DEF Park
  <2> QED BY <2>1, <2>2
<1>7. CASE UNCHANGED <<cells, dlq>>
  BY <1>7
<1>8. CASE Lifecycle \/ Provider
  BY <1>7, <1>8 DEF Lifecycle, Start, Resume, BeginStream, TeardownBegin, TeardownDrop,
     TeardownEnd, Crash, Provider, Hand, Reconnect, HandFatal, TimerFire, Heartbeat, store
<1>9. CASE ChainStep
  BY <1>7, <1>9 DEF ChainStep, DropTask, PassSkip, Look, FlushFirst, PassDropped, Join,
     DriftStop, RereadFails, FlushTake, JoinAfterFlush, TruncateAfterFlush,
     NoticeAfterFlush, NoticeDone, StopAfterFlush, chainFrame, store
<1>10. CASE FlightStep
  <2>1. CASE DeliverOk \/ DeliverFails \/ HandleFailed \/ PersistHalted \/ Persist
             \/ PersistUnanswered \/ StoreFails
    BY <1>7, <2>1 DEF DeliverOk, DeliverFails, HandleFailed, PersistHalted, Persist,
       PersistUnanswered, StoreFails, store
  <2> QED BY <1>5, <1>6, <1>10, <2>1 DEF FlightStep
<1> QED BY <1>8, <1>9, <1>10 DEF Next

(* What is settled stays: no step, and no batch read again after a crash,  *)
(* rewrites a cell or replaces a dead letter whose sequence is below the   *)
(* saved one (record, park's replaceFrom), as long as no answer of the     *)
(* metadata store is lost.                                                 *)
THEOREM SettledNeverRewritten == Budgets["reply"] = 0 => (Spec => SettledStays)
<1> SUFFICES ASSUME Budgets["reply"] = 0 PROVE Spec => SettledStays
  OBVIOUS
<1>1. Init => Inv
  BY TypeInit, NoLossInit DEF Init, Inv
<1>2. Inv /\ [Next]_vars =>
        [/\ \A c \in cells : c.seq < job.offset => c \in cells'
         /\ \A e \in dlq : e.seq < job.offset => e \in dlq']_<<cells, dlq>>
  BY SettledStep DEF vars, store
<1> QED BY <1>1, <1>2, InvStep, PTL DEF Spec, SettledStays

-----------------------------------------------------------------------------
(***************************************************************************)
(* No stale row lands on top of a fresh one in the direct pipeline, as long *)
(* as the source connection does not drop and no answer of the metadata     *)
(* store is lost.                                                           *)
(*                                                                          *)
(* To the invariant above it adds the order of things: what  *)
(* is done (wm, the saved cursor), in flight, batched and queued follow one *)
(* another in the log without overlap, and no row between                   *)
(* them is missing.  So whatever lands lies ahead of the saved cursor, and   *)
(* never overwrites what the cursor vouches for.  A reconnect breaks the    *)
(* order: the source hands over again what is queued already.               *)
(***************************************************************************)

(* the change at p is in the destination, under what came later at most *)
Written(p) == \A k \in Keys : Hits(p, k) => dest[k] >= p

(* ...or set aside under a sequence below n *)
ParkedBelow(p, n) == \E e \in dlq : e.pos = p /\ e.seq < n

(* how far the delivery in flight reaches, or else what is done *)
Base == IF Writing THEN flight.reach ELSE wm

(* how far the batch reaches, or else what was taken before it *)
Top == IF tail # 0 THEN tail ELSE Base

(* the running task has put its event into the batch, or into the flight *)
Taken == pc.at = "noting" \/ (pc.at = "await" /\ pc.then = "end")

(* ...or is about to *)
Taking ==
  pc.at = "look" \/ (pc.at \in {"await", "ready"} /\ pc.then \in {"join", "truncate", "notice"})

(* behind the saved cursor everything is written or parked, and a stream    *)
(* goes on from there; the source forgets no row beyond it                  *)
SavedFresh ==
  /\ \A p \in 1 .. slot : IsRow(p) => p <= job.cursor
  /\ \A p \in 1 .. job.cursor : IsRow(p) => Written(p) \/ ParkedBelow(p, job.offset)
  /\ phase # "none" => wm = job.cursor

(* a delivery carries every row between what is done and where it reaches, *)
(* and none outside of them                                                 *)
FlightAhead ==
  Writing =>
    /\ wm <= flight.reach
    /\ \A p \in flight.items : wm < p /\ p <= flight.reach
    /\ \A p \in 1 .. flight.reach : IsRow(p) /\ wm < p => p \in flight.items

(* what its settlement has established of its rows *)
FlightFresh ==
  /\ flight.st = "record" \/ (flight.work = "ok" /\ flight.st # "write") =>
       \A p \in flight.items : Written(p)
  /\ flight.st \in {"park", "recordDelivered", "recordFailed"} =>
       \A p \in flight.del : Written(p)
  /\ flight.st = "persist" =>
       \A p \in flight.items : Written(p) \/ ParkedBelow(p, flight.nextSeq)

(* the batch begins where the flight ends and has every row up to its end *)
BatchAhead ==
  /\ \A p \in buffer : Base < p /\ p <= tail
  /\ tail # 0 => Base < tail
  /\ Live => \A p \in 1 .. tail : IsRow(p) /\ Base < p => p \in buffer
  /\ Live /\ pc.at = "ready" => tail = 0

(* events are queued in the order of the log, none of them taken already *)
QueueOrder ==
  /\ \A i \in 1 .. Len(chain) : chain[i].kind = "event" => chain[i].pos < next
  /\ \A i, j \in 1 .. Len(chain) :
       i < j /\ chain[i].kind = "event" /\ chain[j].kind = "event" => chain[i].pos < chain[j].pos
(* ...what the provider will hand over neither *)
QueueAhead ==
  /\ \A i \in 1 .. Len(chain) : chain[i].kind = "event" =>
       chain[i].pos <= wm \/ Top < chain[i].pos \/ (i = 1 /\ Taken)
  /\ Taking => Top < Head1.pos
  /\ phase # "none" => Top < next \/ (next <= wm /\ Top <= wm)

(* every row handed over was taken or is queued *)
QueueRows ==
  Live => \A p \in 1 .. next - 1 : IsRow(p) =>
            p <= Top \/ \E j \in 1 .. Len(chain) : EventAt(j, p)

(* the invariant: everything in its order, and what is done is fresh *)
FreshInv ==
  /\ SavedFresh /\ FlightAhead /\ FlightFresh /\ BatchAhead /\ QueueOrder /\ QueueAhead
  /\ QueueRows

(* the inductive invariant, while no answer is lost and no connection drops *)
OrderInv == Inv /\ FreshInv /\ budget["connection"] = 0

-----------------------------------------------------------------------------
(* numbers *)

(* Every place in the log is a natural number. *)
LEMMA Places ==
  ASSUME TypeInv
  PROVE  /\ wm \in Nat /\ tail \in Nat /\ next \in Nat /\ slot \in Nat
         /\ job.cursor \in Nat /\ job.offset \in Nat /\ flight.reach \in Nat
         /\ Base \in Nat /\ Top \in Nat
         /\ buffer \subseteq Positions /\ flight.items \subseteq Positions
         /\ Positions \subseteq Nat
<1>1. /\ wm \in Nat /\ tail \in Nat /\ next \in Nat /\ slot \in Nat
      /\ job.cursor \in Nat /\ job.offset \in Nat
      /\ buffer \subseteq Positions
  BY LastPosNat DEF TypeInv, TypeOK, SourceOK, StoreOK, CounterOK, BatchOK
<1>2. flight.reach \in Nat /\ flight.items \subseteq Positions
  BY LastPosNat, FlightFields DEF TypeInv, TypeOK
<1>3. Positions \subseteq Nat
  BY LastPosNat DEF Positions
<1> QED BY <1>1, <1>2, <1>3 DEF Base, Top

(* ...and stays one. *)
LEMMA PlacesNext ==
  ASSUME TypeInv'
  PROVE  /\ wm' \in Nat /\ tail' \in Nat /\ next' \in Nat /\ slot' \in Nat
         /\ job'.cursor \in Nat /\ job'.offset \in Nat /\ flight'.reach \in Nat
         /\ Base' \in Nat /\ Top' \in Nat
         /\ buffer' \subseteq Positions /\ flight'.items \subseteq Positions
<1>1. /\ wm' \in Nat /\ tail' \in Nat /\ next' \in Nat /\ slot' \in Nat
      /\ job'.cursor \in Nat /\ job'.offset \in Nat
      /\ buffer' \subseteq Positions
  BY LastPosNat DEF TypeInv, TypeOK, SourceOK, StoreOK, CounterOK, BatchOK
<1>2. flight'.reach \in Nat /\ flight'.items \subseteq Positions
  BY LastPosNat DEF TypeInv, TypeOK, Flight
<1> QED BY <1>1, <1>2 DEF Base, Top

(* What is done, in flight and batched follow one another. *)
LEMMA InOrder ==
  ASSUME TypeInv, FlightAhead, BatchAhead
  PROVE  wm <= Base /\ Base <= Top
BY Places DEF FlightAhead, BatchAhead, Base, Top

(* An event of the chain is at a position. *)
LEMMA EventNat ==
  ASSUME TypeInv
  PROVE  /\ Len(chain) \in Nat /\ chain \in Seq(Task)
         /\ \A i \in 1 .. Len(chain) : chain[i].pos \in Nat
<1>1. \A i \in 1 .. Len(chain) : chain[i].pos \in 0 .. LastPos
  BY EventPos
<1> QED BY <1>1, EventPos, LastPosNat DEF TypeInv, TypeOK, ChainOK

(* A non-empty set of positions has a last one. *)
LEMMA LastOfSome ==
  ASSUME NEW S, S \subseteq Positions, S # {}
  PROVE  \E p \in S : \A q \in S : q <= p
<1> DEFINE T == {LastPos - q : q \in S}
<1>0. \A q \in S : q \in Nat /\ LastPos - q \in Nat
  BY LastPosNat DEF Positions
<1>1. T \subseteq Nat /\ T # {}
  BY <1>0
<1> HIDE DEF T
<1>2. PICK x \in T : \A y \in T : ~(<<y, x>> \in OpToRel(<, Nat))
  <2>1. IsWellFoundedOn(OpToRel(<, Nat), Nat)
    BY NatLessThanWellFounded
  <2> QED BY <1>1, <2>1, WFMin, Zenon
<1>3. \A i, j \in Nat : i < j => <<i, j>> \in OpToRel(<, Nat)
  BY DEF OpToRel
<1>4. PICK p \in S : x = LastPos - p
  BY DEF T
<1>5. ASSUME NEW q \in S PROVE q <= p
  <2>1. PICK y \in T : y = LastPos - q
    BY DEF T
  <2>2. x \in Nat /\ y \in Nat
    BY <1>1, <2>1
  <2>3. ~(y < x)
    BY <1>2, <1>3, <2>2, Zenon
  <2> QED BY <1>0, <1>4, <2>1, <2>2, <2>3, LastPosNat
<1> QED BY <1>5

-----------------------------------------------------------------------------
(* landing *)

(* What lands is written, and takes nothing's place that was not hit. *)
LEMMA LandWrites ==
  ASSUME TypeInv, NEW S \in SUBSET Positions, Land(S), log' = log
  PROVE  /\ \A p \in S : Written(p)'
         /\ \A k \in Keys : dest'[k] = dest[k] \/ dest'[k] \in S
<1>1. ASSUME NEW k \in Keys, \E p \in S : LastHit(p, S, k)
      PROVE  dest'[k] \in S /\ LastHit(dest'[k], S, k)
  <2>1. dest'[k] = CHOOSE p \in S : LastHit(p, S, k)
    BY <1>1 DEF Land, Applied
  <2> QED BY <1>1, <2>1
<1>2. ASSUME NEW k \in Keys, ~\E p \in S : LastHit(p, S, k)
      PROVE  dest'[k] = dest[k]
  BY <1>2 DEF Land, Applied
<1>3. ASSUME NEW p \in S, NEW k \in Keys, Hits(p, k)
      PROVE  dest'[k] >= p
  <2> DEFINE H == {q \in S : Hits(q, k)}
  <2>1. H \subseteq Positions /\ H # {}
    BY <1>3
  <2>2. PICK m \in H : \A q \in H : q <= m
    BY <2>1, LastOfSome
  <2>3. LastHit(m, S, k) /\ m \in S
    BY <2>2 DEF LastHit
  <2>4. LastHit(dest'[k], S, k) /\ dest'[k] \in S
    BY <1>1, <2>3
  <2>5. p <= dest'[k]
    BY <1>3, <2>4 DEF LastHit
  <2> QED BY <2>4, <2>5, Places
<1>4. \A p \in S : Written(p)'
  BY <1>3 DEF Written, Hits
<1> QED BY <1>1, <1>2, <1>4

(* What a delivery lands leaves fresh what the cursor vouches for. *)
LEMMA LandAhead ==
  ASSUME TypeInv, Writing, FlightAhead, phase # "none", SavedFresh, log' = log,
         NEW S \in SUBSET flight.items, Land(S)
  PROVE  /\ \A p \in 1 .. job.cursor : Written(p) => Written(p)'
         /\ \A p \in S : Written(p)'
<1>1. S \in SUBSET Positions
  BY Places
<1>2. /\ \A p \in S : Written(p)'
      /\ \A k \in Keys : dest'[k] = dest[k] \/ dest'[k] \in S
  BY <1>1, LandWrites
<1>3. wm = job.cursor /\ \A q \in S : q \in Nat /\ wm < q
  BY Places DEF SavedFresh, FlightAhead
<1>4. ASSUME NEW p \in 1 .. job.cursor, Written(p) PROVE Written(p)'
  <2> SUFFICES ASSUME NEW k \in Keys, Hits(p, k) PROVE dest'[k] >= p
    BY DEF Written, Hits
  <2>1. CASE dest'[k] = dest[k]
    BY <1>4, <2>1 DEF Written
  <2>2. CASE dest'[k] \in S
    <3>1. PICK q \in S : q = dest'[k]
      BY <2>2
    <3>2. q >= p
      BY <1>3, <3>1, Places
    <3> QED BY <3>1, <3>2
  <2> QED BY <1>2, <2>1, <2>2
<1> QED BY <1>2, <1>4

-----------------------------------------------------------------------------
(* the queue *)

(* Rows before the running event were taken. *)
LEMMA HeadRows ==
  ASSUME TypeInv, QueueOrder, QueueRows, Live, chain # <<>>, Head1.kind = "event"
  PROVE  \A p \in 1 .. Head1.pos - 1 : IsRow(p) => p <= Top
<1> SUFFICES ASSUME NEW p \in 1 .. Head1.pos - 1, IsRow(p), ~(p <= Top) PROVE FALSE
  OBVIOUS
<1>1. /\ Len(chain) \in Nat /\ 1 \in 1 .. Len(chain) /\ Head1.pos \in Nat
      /\ chain[1].kind = "event" /\ chain[1].pos = Head1.pos
  BY EventNat DEF Head1
<1>2. Head1.pos < next /\ next \in Nat
  BY <1>1, Places DEF QueueOrder
<1>3. p \in 1 .. next - 1
  BY <1>1, <1>2
<1>4. PICK j \in 1 .. Len(chain) : EventAt(j, p)
  BY <1>3 DEF QueueRows
<1>5. chain[j].kind = "event" /\ chain[j].pos = p
  BY <1>4 DEF EventAt
<1>6. j # 1 /\ 1 < j
  BY <1>1, <1>5
<1>7. chain[1].pos < chain[j].pos
  BY <1>1, <1>5, <1>6 DEF QueueOrder
<1> QED BY <1>1, <1>5, <1>7

(* The running task is done; the batch or the flight may reach its event. *)
LEMMA PopOrder ==
  ASSUME TypeInv, TypeInv', QueueOrder, QueueAhead, QueueRows, chain # <<>>, Pop, next' = next,
         wm' = wm, phase' = phase, log' = log, phase # "none", Live' => Live,
         Top' <= Top \/ (Head1.kind = "event" /\ Top' <= Head1.pos),
         Live' => Top <= Top',
         Live' /\ Head1.kind = "event" /\ IsRow(Head1.pos) => Head1.pos <= Top'
  PROVE  QueueOrder' /\ QueueAhead' /\ QueueRows'
<1>0. chain' = Tail(chain) /\ pc' = Idle
  BY DEF Pop
<1>1. /\ Len(chain) \in Nat /\ 1 \in 1 .. Len(chain)
      /\ Len(chain') = Len(chain) - 1
      /\ \A i \in 1 .. Len(chain') : i + 1 \in 1 .. Len(chain) /\ chain'[i] = chain[i + 1]
      /\ \A i \in 1 .. Len(chain) : chain[i].pos \in Nat
  BY <1>0, EventNat
<1>2. Top \in Nat /\ Top' \in Nat /\ wm \in Nat /\ next \in Nat
  BY Places, PlacesNext
<1>3. QueueOrder'
  <2>1. ASSUME NEW i \in 1 .. Len(chain'), chain'[i].kind = "event" PROVE chain'[i].pos < next'
    BY <1>1, <2>1 DEF QueueOrder
  <2>2. ASSUME NEW i \in 1 .. Len(chain'), NEW j \in 1 .. Len(chain'), i < j,
               chain'[i].kind = "event", chain'[j].kind = "event"
        PROVE  chain'[i].pos < chain'[j].pos
    <3>1. PICK a, b \in 1 .. Len(chain) : a = i + 1 /\ b = j + 1
      BY <1>1
    <3>2. a < b /\ chain'[i] = chain[a] /\ chain'[j] = chain[b]
      BY <1>1, <2>2, <3>1
    <3> QED BY <2>2, <3>2 DEF QueueOrder
  <2> QED BY <2>1, <2>2 DEF QueueOrder
<1>4. ASSUME NEW i \in 1 .. Len(chain'), chain'[i].kind = "event"
      PROVE  chain'[i].pos <= wm' \/ Top' < chain'[i].pos
  <2>1. PICK j \in 1 .. Len(chain) : j = i + 1 /\ chain'[i] = chain[j] /\ 1 < j
    BY <1>1
  <2>2. chain[j].pos <= wm \/ Top < chain[j].pos
    BY <1>4, <2>1 DEF QueueAhead
  <2>3. Head1.kind = "event" => Head1.pos < chain[j].pos
    BY <1>1, <1>4, <2>1 DEF QueueOrder, Head1
  <2>4. chain[j].pos \in Nat /\ (Head1.kind = "event" => Head1.pos \in Nat)
    BY <1>1 DEF Head1
  <2> QED BY <1>2, <2>1, <2>2, <2>3, <2>4
<1>5. ~Taking'
  BY <1>0 DEF Taking, Idle
<1>6. Top' < next' \/ (next' <= wm' /\ Top' <= wm')
  <2>1. Top < next \/ (next <= wm /\ Top <= wm)
    BY DEF QueueAhead
  <2>2. Head1.kind = "event" => Head1.pos < next /\ Head1.pos \in Nat
    BY <1>1 DEF QueueOrder, Head1
  <2> QED BY <1>2, <2>1, <2>2
<1>7. QueueAhead'
  BY <1>4, <1>5, <1>6 DEF QueueAhead
<1>8. ASSUME Live', NEW p \in 1 .. next' - 1, IsRow(p)', ~(p <= Top')
      PROVE  \E j \in 1 .. Len(chain') : EventAt(j, p)'
  <2>1. IsRow(p) /\ p \in 1 .. next - 1 /\ p \in Nat
    BY <1>2, <1>8 DEF IsRow
  <2>2. ~(p <= Top)
    BY <1>2, <1>8, <2>1
  <2>3. PICK j \in 1 .. Len(chain) : EventAt(j, p)
    BY <1>8, <2>1, <2>2 DEF QueueRows
  <2>4. chain[j].kind = "event" /\ chain[j].pos = p
    BY <2>3 DEF EventAt
  <2>5. j # 1
    BY <1>8, <2>1, <2>4 DEF Head1
  <2>6. PICK i \in 1 .. Len(chain') : i = j - 1
    BY <1>1, <2>5
  <2>7. chain'[i] = chain[j]
    BY <1>1, <2>6
  <2> QED BY <2>4, <2>7 DEF EventAt
<1>9. QueueRows'
  BY <1>8 DEF QueueRows
<1> QED BY <1>3, <1>7, <1>9

(* No task is done; the running one may have put its event into the batch. *)
LEMMA KeepOrder ==
  ASSUME TypeInv, TypeInv', QueueOrder, QueueAhead, QueueRows, chain' = chain, next' = next,
         wm <= wm', log' = log, phase' # "none" => phase # "none", Live' => Live,
         \/ Top' <= Top /\ (Taken => Taken')
         \/ chain # <<>> /\ Head1.kind = "event" /\ Top' <= Head1.pos /\ Taken',
         Taking' => Top' < Head1.pos, Live' => Top <= Top'
  PROVE  QueueOrder' /\ QueueAhead' /\ QueueRows'
<1>1. /\ Len(chain) \in Nat /\ \A i \in 1 .. Len(chain) : chain[i].pos \in Nat
      /\ chain # <<>> => 1 \in 1 .. Len(chain)
  BY EventNat
<1>2. Top \in Nat /\ Top' \in Nat /\ wm \in Nat /\ wm' \in Nat /\ next \in Nat
  BY Places, PlacesNext
<1>3. QueueOrder'
  BY DEF QueueOrder
<1>4. ASSUME NEW i \in 1 .. Len(chain), chain[i].kind = "event"
      PROVE  chain[i].pos <= wm' \/ Top' < chain[i].pos \/ (i = 1 /\ Taken')
  <2>1. chain[i].pos <= wm \/ Top < chain[i].pos \/ (i = 1 /\ Taken)
    BY <1>4 DEF QueueAhead
  <2>2. CASE Top' <= Top /\ (Taken => Taken')
    BY <1>1, <1>2, <2>1, <2>2
  <2>3. CASE chain # <<>> /\ Head1.kind = "event" /\ Top' <= Head1.pos /\ Taken'
    <3>1. CASE i = 1
      BY <2>3, <3>1
    <3>2. CASE i # 1
      <4>1. chain[1].pos < chain[i].pos
        BY <1>1, <1>4, <2>3, <3>2 DEF QueueOrder, Head1
      <4> QED BY <1>1, <1>2, <2>3, <4>1 DEF Head1
    <3> QED BY <3>1, <3>2
  <2> QED BY <2>2, <2>3
<1>5. phase' # "none" => Top' < next \/ (next <= wm' /\ Top' <= wm')
  <2>1. phase # "none" => Top < next \/ (next <= wm /\ Top <= wm)
    BY DEF QueueAhead
  <2>2. chain # <<>> /\ Head1.kind = "event" => Head1.pos < next /\ Head1.pos \in Nat
    BY <1>1 DEF QueueOrder, Head1
  <2> QED BY <1>2, <2>1, <2>2
<1>6. QueueAhead'
  BY <1>4, <1>5 DEF QueueAhead, Head1
<1>7. ASSUME Live', NEW p \in 1 .. next' - 1, IsRow(p)', ~(p <= Top')
      PROVE  \E j \in 1 .. Len(chain') : EventAt(j, p)'
  <2>1. IsRow(p) /\ p \in 1 .. next - 1 /\ ~(p <= Top)
    BY <1>2, <1>7 DEF IsRow
  <2> QED BY <1>7, <2>1 DEF QueueRows, EventAt
<1>8. QueueRows'
  BY <1>7 DEF QueueRows
<1> QED BY <1>3, <1>6, <1>8

(* One event more is queued, where the provider stands; or another task. *)
LEMMA AppendOrder ==
  ASSUME TypeInv, TypeInv', QueueOrder, QueueAhead, QueueRows, NEW t, chain' = Append(chain, t),
         \/ t.kind # "event" /\ next' = next
         \/ t.kind = "event" /\ t.pos = next /\ next' = next + 1,
         wm' = wm, Top' = Top, log' = log, pc' = pc, phase # "none", Live' => Live
  PROVE  QueueOrder' /\ QueueAhead' /\ QueueRows'
<1>0. PICK n \in Nat : n = Len(chain)
  BY EventNat
<1>1. /\ Len(chain') = n + 1 /\ chain'[n + 1] = t
      /\ \A i \in 1 .. n : chain'[i] = chain[i] /\ chain[i].pos \in Nat
  BY <1>0, EventNat
<1>2. Top \in Nat /\ wm \in Nat /\ next \in Nat /\ next' \in Nat /\ next <= next'
  BY Places, PlacesNext, SMTT(30)
<1>3. \A i \in 1 .. n + 1 : i \in 1 .. n \/ i = n + 1
  BY <1>0
<1>4. \A i \in 1 .. n : chain[i].kind = "event" => chain[i].pos < next
  BY <1>0 DEF QueueOrder
<1>5. t.kind = "event" => t.pos = next /\ next < next'
  BY <1>2
<1>6. QueueOrder'
  <2>1. ASSUME NEW i \in 1 .. n + 1, chain'[i].kind = "event" PROVE chain'[i].pos < next'
    BY <1>1, <1>2, <1>3, <1>4, <1>5, <2>1
  <2>2. ASSUME NEW i \in 1 .. n + 1, NEW j \in 1 .. n + 1, i < j,
               chain'[i].kind = "event", chain'[j].kind = "event"
        PROVE  chain'[i].pos < chain'[j].pos
    <3>1. i \in 1 .. n
      BY <1>0, <2>2
    <3>2. CASE j \in 1 .. n
      BY <1>0, <1>1, <2>2, <3>1, <3>2 DEF QueueOrder
    <3>3. CASE j = n + 1
      BY <1>1, <1>4, <1>5, <2>2, <3>1, <3>3
    <3> QED BY <1>3, <3>2, <3>3
  <2> QED BY <1>1, <2>1, <2>2 DEF QueueOrder
<1>7. Taken => chain # <<>>
  BY DEF Taken, TypeInv, TaskStands
<1>8. Taking => chain # <<>>
  BY DEF Taking, TypeInv, TaskStands
<1>9. chain # <<>> => 1 \in 1 .. n /\ Head1' = Head1
  BY <1>0, <1>1, EventNat DEF Head1
<1>10. ASSUME NEW i \in 1 .. n + 1, chain'[i].kind = "event"
       PROVE  chain'[i].pos <= wm \/ Top < chain'[i].pos \/ (i = 1 /\ Taken)
  <2>1. CASE i \in 1 .. n
    BY <1>0, <1>1, <1>10, <2>1 DEF QueueAhead
  <2>2. CASE i = n + 1
    BY <1>1, <1>5, <1>10, <2>2 DEF QueueAhead
  <2> QED BY <1>3, <2>1, <2>2
<1>11. Taken' = Taken /\ Taking' = Taking
  BY DEF Taken, Taking
<1>12. Top' < next' \/ (next' <= wm' /\ Top' <= wm')
  <2>1. Top < next \/ (next <= wm /\ Top <= wm)
    BY DEF QueueAhead
  <2>2. CASE t.kind # "event"
    BY <2>1, <2>2
  <2>3. CASE t.kind = "event"
    <3>1. next' = next + 1
      BY <2>3
    <3> QED BY <1>2, <2>1, <3>1
  <2> QED BY <2>2, <2>3
<1>13. Taking' => Top' < Head1'.pos
  BY <1>8, <1>9, <1>11 DEF QueueAhead
<1>14. QueueAhead'
  BY <1>1, <1>10, <1>11, <1>12, <1>13 DEF QueueAhead
<1>15. ASSUME Live', NEW p \in 1 .. next' - 1, IsRow(p)', ~(p <= Top')
       PROVE  \E j \in 1 .. Len(chain') : EventAt(j, p)'
  <2>1. CASE p \in 1 .. next - 1
    <3>1. PICK j \in 1 .. n : EventAt(j, p)
      BY <1>0, <1>15, <2>1 DEF QueueRows, IsRow
    <3>2. j \in 1 .. Len(chain') /\ chain'[j] = chain[j]
      BY <1>0, <1>1
    <3> QED BY <3>1, <3>2 DEF EventAt
  <2>2. CASE ~(p \in 1 .. next - 1)
    <3>0. p \in Nat
      BY <1>2
    <3>1. next' # next
      BY <2>2
    <3>2. next' = next + 1 /\ t.kind = "event"
      BY <3>1
    <3>3. p = next
      BY <1>2, <1>15, <2>2, <3>2
    <3>4. PICK j \in 1 .. Len(chain') : j = n + 1
      BY <1>0, <1>1
    <3>5. chain'[j].kind = "event" /\ chain'[j].pos = p
      BY <1>1, <1>5, <3>2, <3>3, <3>4
    <3> QED BY <3>5 DEF EventAt
  <2> QED BY <2>1, <2>2
<1>16. QueueRows'
  BY <1>15 DEF QueueRows
<1> QED BY <1>6, <1>14, <1>16

-----------------------------------------------------------------------------
(* the chain *)

(* A step of the chain that leaves deliveries alone leaves alone what they  *)
(* have established.                                                        *)
LEMMA QuietFresh ==
  ASSUME TypeInv, TypeInv', SavedFresh, FlightAhead, FlightFresh, ChainQuiet
  PROVE  SavedFresh' /\ FlightAhead' /\ FlightFresh' /\ Base' = Base
<1>1. /\ \A p : Written(p)' = Written(p)
      /\ \A p, n : ParkedBelow(p, n)' = ParkedBelow(p, n)
      /\ \A p : IsRow(p)' = IsRow(p)
  BY DEF ChainQuiet, Written, ParkedBelow, IsRow, Hits, target
<1>2. SavedFresh'
  BY <1>1 DEF ChainQuiet, SavedFresh, ParkedBelow
<1>3. FlightAhead'
  BY <1>1 DEF ChainQuiet, FlightAhead, Writing
<1>4. FlightFresh'
  BY <1>1 DEF ChainQuiet, FlightFresh, ParkedBelow
<1> QED BY <1>2, <1>3, <1>4 DEF ChainQuiet, Base, Writing

(* The batch when nothing joins it. *)
LEMMA BatchSame ==
  ASSUME BatchAhead, buffer' = buffer, tail' = tail, Base' = Base, log' = log, Live' => Live,
         Live' /\ pc'.at = "ready" => tail' = 0
  PROVE  BatchAhead' /\ Top' = Top
BY DEF BatchAhead, Top, IsRow

(* The position of the running event is a number, beyond what was taken. *)
LEMMA HeadNat ==
  ASSUME TypeInv, chain # <<>>, Head1.kind = "event"
  PROVE  Head1.pos \in Nat \ {0} /\ Head1.pos \in Positions
BY HeadPos, LastPosNat DEF TypeInv, TypeOK, Positions

(* The batch when the running event joins it, or is noted. *)
LEMMA BatchReaches ==
  ASSUME TypeInv, FlightAhead, BatchAhead, QueueOrder, QueueRows, chain # <<>>,
         Head1.kind = "event", Top < Head1.pos, tail' = Head1.pos, Base' = Base, log' = log,
         Live' => Live, Live' => pc'.at # "ready",
         \/ buffer' = buffer /\ ~IsRow(Head1.pos)
         \/ buffer' = buffer \cup {Head1.pos}
  PROVE  BatchAhead' /\ Top' = Head1.pos
<1>1. Head1.pos \in Nat \ {0}
  BY HeadNat
<1>2. Top' = Head1.pos
  BY <1>1 DEF Top
<1>3. wm <= Base /\ Base <= Top /\ Base \in Nat /\ Top \in Nat /\ tail \in Nat
      /\ buffer \subseteq Nat
  BY InOrder, Places
<1>4. \A p \in buffer' : Base' < p /\ p <= tail'
  <2>1. \A p \in buffer : Base < p /\ p <= tail /\ p \in Nat
    BY <1>3 DEF BatchAhead
  <2>2. tail <= Top
    BY <1>3 DEF Top
  <2>3. \A p \in buffer : Base < p /\ p <= Head1.pos
    BY <1>1, <1>3, <2>1, <2>2
  <2>4. Base < Head1.pos
    BY <1>1, <1>3
  <2> QED BY <1>1, <2>3, <2>4
<1>5. ASSUME Live', NEW p \in 1 .. tail', IsRow(p)', Base' < p PROVE p \in buffer'
  <2>1. IsRow(p) /\ p \in Nat
    BY <1>1, <1>5 DEF IsRow
  <2>2. CASE p = Head1.pos
    BY <2>1, <2>2
  <2>3. CASE p # Head1.pos
    <3>1. p \in 1 .. Head1.pos - 1
      BY <1>1, <1>5, <2>3
    <3>2. p <= Top
      BY <1>5, <2>1, <3>1, HeadRows
    <3>3. Top = tail
      BY <1>3, <1>5, <2>1, <3>2 DEF Top
    <3>4. p \in 1 .. tail
      BY <1>3, <2>1, <3>1, <3>2, <3>3
    <3> QED BY <1>5, <2>1, <3>4 DEF BatchAhead
  <2> QED BY <2>2, <2>3
<1>6. tail' # 0 => Base' < tail'
  BY <1>1, <1>3
<1> QED BY <1>2, <1>4, <1>5, <1>6 DEF BatchAhead

(* A position is noted by the task that runs; then the task is done. *)
LEMMA NoteOrder ==
  ASSUME TypeInv, TypeInv', FreshInv, ChainQuiet, phase # "none", chain # <<>>,
         Head1.kind = "event", ~IsRow(Head1.pos), ~Taken, Note(Head1.pos), buffer' = buffer, Pop
  PROVE  FreshInv'
<1> USE DEF FreshInv
<1>1. SavedFresh' /\ FlightAhead' /\ FlightFresh' /\ Base' = Base
  BY QuietFresh
<1>2. UNCHANGED <<log, next, wm, phase>> /\ (Live' => Live) /\ pc'.at = "idle"
  BY DEF ChainQuiet, Pop, Idle
<1>3. Head1.pos \in Nat /\ wm \in Nat /\ tail \in Nat /\ Top \in Nat /\ Base \in Nat
      /\ wm <= Base /\ Base <= Top
  BY HeadNat, Places, InOrder
<1>4. CASE tail' = tail
  <2>1. BatchAhead' /\ Top' = Top
    BY <1>1, <1>2, <1>4, BatchSame
  <2> QED BY <1>1, <1>2, <1>3, <2>1, PopOrder
<1>5. CASE tail' # tail
  <2>1. tail' = Head1.pos /\ Head1.pos > (IF tail # 0 THEN tail ELSE wm)
    BY <1>5 DEF Note
  <2>2. 1 \in 1 .. Len(chain) /\ chain[1].kind = "event" /\ chain[1].pos = Head1.pos
    BY EventNat DEF Head1
  <2>3. Head1.pos <= wm \/ Top < Head1.pos
    BY <2>2 DEF QueueAhead
  <2>4. Top < Head1.pos
    <3>1. CASE tail # 0
      BY <2>1, <3>1, <1>3 DEF Top
    <3>2. CASE tail = 0
      <4>1. Head1.pos > wm
        BY <2>1, <3>2
      <4> QED BY <1>3, <2>3, <4>1
    <3> QED BY <3>1, <3>2
  <2>5. BatchAhead' /\ Top' = Head1.pos
    BY <1>1, <1>2, <2>1, <2>4, BatchReaches
  <2> QED BY <1>1, <1>2, <1>3, <2>4, <2>5, PopOrder
<1> QED BY <1>4, <1>5

(* A task is done that leaves the batch alone: its event was taken, or is    *)
(* behind the watermark, or carries no row, or the stream is at its end.    *)
LEMMA DoneOrder ==
  ASSUME TypeInv, TypeInv', FreshInv, ChainQuiet, phase # "none", chain # <<>>,
         UNCHANGED <<buffer, tail>>, Pop,
         Live' /\ Head1.kind = "event" /\ IsRow(Head1.pos) => Head1.pos <= Top
  PROVE  FreshInv'
<1> USE DEF FreshInv
<1>1. SavedFresh' /\ FlightAhead' /\ FlightFresh' /\ Base' = Base
  BY QuietFresh
<1>2. UNCHANGED <<log, next, wm, phase>> /\ (Live' => Live) /\ pc'.at = "idle"
  BY DEF ChainQuiet, Pop, Idle
<1>3. BatchAhead' /\ Top' = Top
  BY <1>1, <1>2, BatchSame
<1>4. Top \in Nat
  BY Places
<1> QED BY <1>1, <1>2, <1>3, <1>4, PopOrder

(* A task goes on without touching the batch: it looks at its event, or     *)
(* waits for a flush, or is back from one.                                  *)
LEMMA GoOnOrder ==
  ASSUME TypeInv, TypeInv', FreshInv, ChainQuiet, phase # "none",
         UNCHANGED <<buffer, tail, chain>>, Taken => Taken', Taking' => Top < Head1.pos,
         Live' /\ pc'.at = "ready" => tail = 0
  PROVE  FreshInv'
<1> USE DEF FreshInv
<1>1. SavedFresh' /\ FlightAhead' /\ FlightFresh' /\ Base' = Base
  BY QuietFresh
<1>2. UNCHANGED <<log, next, wm, phase>> /\ (Live' => Live)
  BY DEF ChainQuiet
<1>3. BatchAhead' /\ Top' = Top
  BY <1>1, <1>2, BatchSame
<1>4. Top \in Nat /\ wm \in Nat
  BY Places
<1> QED BY <1>1, <1>2, <1>3, <1>4, KeepOrder

(* A task that only flushes what is there. *)
LEMMA FlushOrder ==
  ASSUME TypeInv, TypeInv', FreshInv, ChainQuiet, phase # "none", chain # <<>>,
         UNCHANGED <<buffer, tail, halted>>, ~Taken, NEW then, EnterFlush(then, tail),
         then = "end" => Head1.kind # "event",
         then \in {"join", "truncate", "notice"} => Top < Head1.pos
  PROVE  FreshInv'
<1>1. CASE tail = 0 \/ halted = "yes"
  <2>1. Return(then)
    BY <1>1 DEF EnterFlush
  <2>2. CASE then = "end"
    BY <2>1, <2>2, DoneOrder DEF Return
  <2>3. CASE then # "end"
    <3>1. pc' = [at |-> "ready", then |-> then] /\ chain' = chain
      BY <2>1, <2>3 DEF Return
    <3>2. Taking' => Top < Head1.pos
      BY <3>1 DEF Taking
    <3>3. Live' => tail = 0
      BY <1>1 DEF Live
    <3> QED BY <3>1, <3>2, <3>3, GoOnOrder
  <2> QED BY <2>2, <2>3
<1>2. CASE ~(tail = 0 \/ halted = "yes")
  <2>1. pc' = [at |-> "await", then |-> then] /\ chain' = chain
    BY <1>2 DEF EnterFlush
  <2>2. Taking' => Top < Head1.pos
    BY <2>1 DEF Taking
  <2>3. pc'.at # "ready"
    BY <2>1
  <2> QED BY <2>1, <2>2, <2>3, GoOnOrder
<1> QED BY <1>1, <1>2

(* The running event joins the batch, and is done or waits for its flush. *)
LEMMA JoinOrder ==
  ASSUME TypeInv, TypeInv', FreshInv, ChainQuiet, phase # "none", chain # <<>>,
         Head1.kind = "event", Top < Head1.pos, buffer' = buffer \cup {Head1.pos},
         tail' = Head1.pos, Pop \/ EnterFlush("end", Head1.pos)
  PROVE  FreshInv'
<1> USE DEF FreshInv
<1>1. SavedFresh' /\ FlightAhead' /\ FlightFresh' /\ Base' = Base
  BY QuietFresh
<1>2. UNCHANGED <<log, next, wm, phase>> /\ (Live' => Live)
  BY DEF ChainQuiet
<1>3. Head1.pos \in Nat \ {0} /\ Top \in Nat /\ wm \in Nat
  BY HeadNat, Places
<1>4. CASE Pop
  <2>1. pc'.at = "idle"
    BY <1>4 DEF Pop, Idle
  <2>2. BatchAhead' /\ Top' = Head1.pos
    BY <1>1, <1>2, <2>1, BatchReaches
  <2> QED BY <1>1, <1>2, <1>3, <1>4, <2>2, PopOrder
<1>5. CASE ~Pop
  <2>1. pc' = [at |-> "await", then |-> "end"] /\ chain' = chain
    BY <1>5 DEF EnterFlush, Return
  <2>2. Taken' /\ ~Taking' /\ pc'.at # "ready"
    BY <2>1 DEF Taken, Taking
  <2>3. BatchAhead' /\ Top' = Head1.pos
    BY <1>1, <1>2, <2>2, BatchReaches
  <2> QED BY <1>1, <1>2, <1>3, <2>1, <2>2, <2>3, KeepOrder
<1> QED BY <1>4, <1>5

(* push, of the running event *)
LEMMA PushOrder ==
  ASSUME TypeInv, TypeInv', FreshInv, ChainQuiet, phase # "none", chain # <<>>,
         Head1.kind = "event", Top < Head1.pos, Push(Head1.pos)
  PROVE  FreshInv'
<1>1. buffer' = buffer \cup {Head1.pos} /\ tail' = Head1.pos
  BY DEF Push
<1>2. Pop \/ EnterFlush("end", Head1.pos)
  BY DEF Push
<1> QED BY <1>1, <1>2, JoinOrder

(* A step of the chain that leaves the deliveries alone. *)
LEMMA FreshQuiet ==
  ASSUME TypeInv, TypeInv', NoLossInv, FreshInv, phase # "none", chain # <<>>,
         \/ DropTask \/ PassSkip \/ Look \/ FlushFirst \/ PassDropped \/ Join
         \/ DriftStop \/ RereadFails \/ JoinAfterFlush \/ TruncateAfterFlush
         \/ NoticeDone \/ StopAfterFlush
  PROVE  FreshInv'
<1>0. /\ wm \in Nat /\ Top \in Nat /\ wm <= Top
      /\ Head1.kind = "event" => Head1.pos \in Nat
      /\ Taking => Top < Head1.pos
      /\ Head1.kind = "event" /\ ~Taken => Head1.pos <= wm \/ Top < Head1.pos
  <2>1. wm \in Nat /\ Top \in Nat /\ wm <= Base /\ Base <= Top /\ Base \in Nat
    BY Places, InOrder DEF FreshInv
  <2>2. Head1.kind = "event" => Head1.pos \in Nat
    BY HeadNat
  <2>3. 1 \in 1 .. Len(chain) /\ chain[1] = Head1
    BY EventNat DEF Head1
  <2> QED BY <2>1, <2>2, <2>3 DEF FreshInv, QueueAhead
<1>1. CASE DropTask
  <2>1. ChainQuiet /\ UNCHANGED <<buffer, tail>> /\ Pop
    BY <1>1 DEF DropTask, ChainQuiet, chainFrame, source, store, batch, Live, Registered
  <2>2. Live' => Live
    BY <2>1 DEF ChainQuiet
  <2>3. Live' /\ Head1.kind = "event" /\ IsRow(Head1.pos) => Head1.pos <= wm
    BY <1>1, <2>2 DEF DropTask, Live, IsRow
  <2>4. Live' /\ Head1.kind = "event" /\ IsRow(Head1.pos) => Head1.pos <= Top
    BY <1>0, <2>3
  <2> QED BY <2>1, <2>4, DoneOrder
<1>2. CASE PassSkip \/ PassDropped
  <2>1. ChainQuiet /\ buffer' = buffer /\ Pop /\ Note(Head1.pos)
    BY <1>2 DEF PassSkip, PassDropped, ChainQuiet, chainFrame, source, store, Live,
       Registered
  <2>2. Head1.kind = "event" /\ ~IsRow(Head1.pos)
    BY <1>2 DEF PassSkip, PassDropped, IsRow, TypeInv, TaskStands
  <2>3. ~Taken
    BY <1>2 DEF PassSkip, PassDropped, TaskReady, Taken
  <2> QED BY <2>1, <2>2, <2>3, NoteOrder
<1>3. CASE Look
  <2>1. ChainQuiet /\ UNCHANGED <<buffer, tail, chain>> /\ pc'.at = "look"
    BY <1>3 DEF Look, ChainQuiet, chainFrame, source, store, batch, Live, Registered
  <2>2. ~Taken /\ Head1.kind = "event" /\ Head1.pos > wm
    BY <1>3 DEF Look, TaskReady, Taken
  <2>3. Top < Head1.pos
    BY <1>0, <2>2
  <2> QED BY <2>1, <2>2, <2>3, GoOnOrder
<1>4. CASE FlushFirst
  <2>1. ChainQuiet /\ UNCHANGED <<buffer, tail, halted>>
    BY <1>4 DEF FlushFirst, ChainQuiet, chainFrame, source, store, Live, Registered
  <2>2. ~Taken
    BY <1>4 DEF FlushFirst, TaskReady, Taken
  <2>3. CASE Head1.kind = "event"
    <3>1. PICK then : EnterFlush(then, tail) /\ then # "end" /\ Head1.pos > wm
      BY <1>4, <2>3 DEF FlushFirst
    <3>2. Top < Head1.pos
      BY <1>0, <2>2, <2>3, <3>1
    <3> QED BY <2>1, <2>2, <3>1, <3>2, FlushOrder
  <2>4. CASE Head1.kind # "event"
    <3>1. PICK then \in {"end", "stop"} : EnterFlush(then, tail)
      BY <1>4, <2>4 DEF FlushFirst
    <3>2. then \notin {"join", "truncate", "notice"}
      BY <3>1
    <3> QED BY <2>1, <2>2, <2>4, <3>1, <3>2, FlushOrder
  <2> QED BY <2>3, <2>4
<1>5. CASE Join
  <2>1. Head1.kind = "event" /\ ~Taken /\ Taking
    BY <1>5 DEF Join, TypeInv, TaskStands, Taken, Taking
  <2>2. buffer \subseteq buffer'
    BY <1>5 DEF Join, Push
  <2>3. ChainQuiet /\ halted' = halted
    BY <1>5, <2>2 DEF Join, ChainQuiet, chainFrame, source, store, Live, Registered
  <2>4. CASE Conflicts(Head1.pos)
    <3>1. EnterFlush("join", tail) /\ UNCHANGED <<buffer, tail>>
      BY <1>5, <2>4 DEF Join
    <3> QED BY <1>0, <2>1, <2>3, <3>1, FlushOrder
  <2>5. CASE ~Conflicts(Head1.pos)
    <3>1. Push(Head1.pos)
      BY <1>5, <2>5 DEF Join
    <3> QED BY <1>0, <2>1, <2>3, <3>1, PushOrder
  <2> QED BY <2>4, <2>5
<1>6. CASE DriftStop
  <2>1. ChainQuiet /\ UNCHANGED <<buffer, tail, halted>>
    BY <1>6 DEF DriftStop, ChainQuiet, source, store, Live, Registered
  <2>2. ~Taken
    BY <1>6 DEF DriftStop, Taken
  <2>3. CASE Live
    <3>1. EnterFlush("stop", tail)
      BY <1>6, <2>3 DEF DriftStop, Live
    <3> QED BY <2>1, <2>2, <3>1, FlushOrder
  <2>4. CASE ~Live
    <3>1. Pop
      BY <1>6, <2>4 DEF DriftStop, Live
    <3>2. ~Live'
      BY <2>1, <2>4 DEF ChainQuiet
    <3> QED BY <2>1, <3>1, <3>2, DoneOrder
  <2> QED BY <2>3, <2>4
<1>7. CASE RereadFails \/ StopAfterFlush
  <2>1. UNCHANGED <<log, slot, next, target, dlq, cells, phase, wm, seq, flight, buffer, tail>>
        /\ Pop
    BY <1>7 DEF RereadFails, StopAfterFlush, source, batch
  <2>2. job'.offset = job.offset /\ job'.cursor = job.cursor
    BY <1>7 DEF RereadFails, StopAfterFlush, HaltTo, TypeInv, TypeOK, StoreOK
  <2>3. ~Live'
    BY <1>7, <2>1 DEF RereadFails, StopAfterFlush, HaltTo, Live, Registered
  <2>4. ChainQuiet
    BY <2>1, <2>2, <2>3 DEF ChainQuiet
  <2> QED BY <2>1, <2>3, <2>4, DoneOrder
<1>8. CASE JoinAfterFlush
  <2>1. Head1.kind = "event" /\ Taking
    BY <1>8 DEF JoinAfterFlush, TypeInv, TaskStands, Taking
  <2>2. buffer \subseteq buffer'
    BY <1>8 DEF JoinAfterFlush, Push, batch
  <2>3. ChainQuiet
    BY <1>8, <2>2 DEF JoinAfterFlush, ChainQuiet, chainFrame, source, store, Live,
       Registered
  <2>4. CASE Registered
    <3>1. Push(Head1.pos)
      BY <1>8, <2>4 DEF JoinAfterFlush
    <3> QED BY <1>0, <2>1, <2>3, <3>1, PushOrder
  <2>5. CASE ~Registered
    <3>1. ~Live' /\ UNCHANGED <<buffer, tail>> /\ Pop
      BY <1>8, <2>3, <2>5 DEF JoinAfterFlush, Live, ChainQuiet, batch
    <3> QED BY <2>3, <3>1, DoneOrder
  <2> QED BY <2>4, <2>5
<1>9. CASE TruncateAfterFlush
  <2>1. Head1.kind = "event" /\ Taking /\ ~Taken
    BY <1>9 DEF TruncateAfterFlush, TypeInv, TaskStands, Taking, Taken
  <2>2. buffer \subseteq buffer'
    BY <1>9 DEF TruncateAfterFlush, batch
  <2>3. ChainQuiet
    BY <1>9, <2>2 DEF TruncateAfterFlush, ChainQuiet, chainFrame, source, store, Live,
       Registered
  <2>4. CASE ~Live
    <3>1. ~Live' /\ UNCHANGED <<buffer, tail>> /\ Pop
      BY <1>9, <2>3, <2>4 DEF TruncateAfterFlush, Live, ChainQuiet, batch, TypeInv,
         TypeOK, LifeOK
    <3> QED BY <2>3, <3>1, DoneOrder
  <2>5. CASE Live /\ log[Head1.pos].drop
    <3>1. Note(Head1.pos) /\ Pop /\ buffer' = buffer
      BY <1>9, <2>5 DEF TruncateAfterFlush, Live
    <3>2. ~IsRow(Head1.pos)
      BY <2>5 DEF IsRow
    <3> QED BY <2>1, <2>3, <3>1, <3>2, NoteOrder
  <2>6. CASE Live /\ ~log[Head1.pos].drop
    <3>1. /\ buffer' = buffer \cup {Head1.pos} /\ tail' = Head1.pos
          /\ EnterFlush("end", Head1.pos)
      BY <1>9, <2>6 DEF TruncateAfterFlush, Live
    <3> QED BY <1>0, <2>1, <2>3, <3>1, JoinOrder
  <2> QED BY <2>4, <2>5, <2>6
<1>10. CASE NoticeDone
  <2>1. ChainQuiet /\ UNCHANGED <<buffer, tail>> /\ Pop
    BY <1>10 DEF NoticeDone, ChainQuiet, chainFrame, source, store, batch, Live, Registered
  <2>2. ~IsRow(Head1.pos)
    BY <1>10 DEF NoticeDone, TypeInv, TaskStands, IsRow
  <2> QED BY <2>1, <2>2, DoneOrder
<1> QED BY <1>1, <1>2, <1>3, <1>4, <1>5, <1>6, <1>7, <1>8, <1>9, <1>10

(* A flush returns to its task after taking the batch, or with nothing to    *)
(* take.                                                                    *)
LEMMA ReturnOrder ==
  ASSUME TypeInv, TypeInv', NoLossInv, FreshInv, phase # "none", chain # <<>>,
         pc.at = "await", Return(pc.then), UNCHANGED <<next, wm, phase, log>>, Live' => Live,
         Top' = Top
  PROVE  QueueOrder' /\ QueueAhead' /\ QueueRows'
<1> USE DEF FreshInv
<1>1. Top \in Nat /\ wm \in Nat
  BY Places
<1>2. CASE pc.then = "end"
  <2>1. Pop
    BY <1>2 DEF Return
  <2>2. Live' /\ Head1.kind = "event" => Head1.pos <= Top
    <3> SUFFICES ASSUME Live, Head1.kind = "event" PROVE Head1.pos <= Top
      OBVIOUS
    <3>1. Head1.pos \in buffer
      BY <1>2 DEF NoLossInv, BatchStands
    <3>2. Head1.pos <= tail /\ Base < Head1.pos /\ tail # 0
      BY <3>1, Places DEF BatchAhead
    <3> QED BY <3>2 DEF Top
  <2> QED BY <1>1, <2>1, <2>2, PopOrder
<1>3. CASE pc.then # "end"
  <2>1. pc' = [at |-> "ready", then |-> pc.then] /\ chain' = chain
    BY <1>3 DEF Return
  <2>2. Taking' = Taking /\ ~Taken
    BY <1>3, <2>1 DEF Taking, Taken
  <2>3. Taking' => Top' < Head1.pos
    BY <2>2 DEF QueueAhead
  <2> QED BY <1>1, <2>1, <2>2, <2>3, KeepOrder
<1> QED BY <1>2, <1>3

(* A step that takes the batch, or a notice, into flight. *)
LEMMA FreshTake ==
  ASSUME TypeInv, TypeInv', NoLossInv, FreshInv, phase # "none", chain # <<>>,
         FlushTake \/ NoticeAfterFlush
  PROVE  FreshInv'
<1> USE DEF FreshInv
<1>1. UNCHANGED <<log, slot, next, target, store, phase, halted, wm, seq>> /\ ~Writing
  BY DEF FlushTake, NoticeAfterFlush, source
<1>2. Live' = Live
  BY <1>1 DEF Live, Registered
<1>3. SavedFresh'
  BY <1>1 DEF SavedFresh, Written, ParkedBelow, IsRow, Hits, target, store
<1>4. /\ Base = wm /\ wm \in Nat /\ Top \in Nat /\ tail \in Nat /\ Base <= Top
      /\ buffer \subseteq Nat
  BY <1>1, Places, InOrder DEF Base
<1>5. \A p : IsRow(p)' = IsRow(p)
  BY <1>1 DEF IsRow
<1>6. CASE FlushTake /\ Live /\ tail # 0
  <2>1. /\ flight'.items = buffer /\ flight'.reach = tail /\ flight'.del = {}
        /\ flight'.st = IF buffer = {} THEN "persist" ELSE "write"
        /\ flight'.work = IF buffer = {} THEN "empty" ELSE "ok"
        /\ buffer' = {} /\ tail' = 0 /\ Return(pc.then) /\ pc.at = "await"
    BY <1>6 DEF FlushTake, Live
  <2>2. Writing' /\ Base' = tail /\ Top' = tail /\ Top = tail
    BY <1>6, <2>1 DEF Writing, Base, Top
  <2>3. FlightAhead'
    <3>1. wm <= tail /\ \A p \in buffer : wm < p /\ p <= tail
      BY <1>4, <1>6 DEF BatchAhead
    <3>2. \A p \in 1 .. tail : IsRow(p) /\ wm < p => p \in buffer
      BY <1>4, <1>6 DEF BatchAhead
    <3> QED BY <1>1, <1>5, <2>1, <3>1, <3>2 DEF FlightAhead
  <2>4. FlightFresh'
    BY <2>1 DEF FlightFresh
  <2>5. BatchAhead'
    BY <2>1 DEF BatchAhead
  <2>6. QueueOrder' /\ QueueAhead' /\ QueueRows'
    BY <1>1, <1>2, <2>1, <2>2, ReturnOrder
  <2> QED BY <1>3, <2>3, <2>4, <2>5, <2>6
<1>7. CASE FlushTake /\ ~(Live /\ tail # 0)
  <2>1. UNCHANGED <<flight, buffer, tail>> /\ Return(pc.then) /\ pc.at = "await"
    BY <1>7 DEF FlushTake, Live
  <2>2. ChainQuiet
    BY <1>1, <1>2, <2>1 DEF ChainQuiet, store
  <2>3. FlightAhead' /\ FlightFresh' /\ Base' = Base
    BY <2>2, QuietFresh
  <2>4. BatchAhead' /\ Top' = Top
    BY <1>1, <1>2, <1>7, <2>1, <2>3, BatchSame
  <2>5. QueueOrder' /\ QueueAhead' /\ QueueRows'
    BY <1>1, <1>2, <2>1, <2>4, ReturnOrder
  <2> QED BY <1>3, <2>3, <2>4, <2>5
<1>8. CASE NoticeAfterFlush /\ Live
  <2>1. /\ flight' = [NoFlight EXCEPT !.st = "notice", !.work = "notice",
                         !.reach = Head1.pos, !.seq = seq, !.nextSeq = seq + 1]
        /\ pc' = [at |-> "noting", then |-> "end"]
        /\ UNCHANGED <<chain, buffer, tail>> /\ pc.at = "ready" /\ pc.then = "notice"
    BY <1>8 DEF NoticeAfterFlush, Live, batch
  <2>2. /\ flight'.items = {} /\ flight'.st = "notice" /\ flight'.work = "notice"
        /\ flight'.reach = Head1.pos /\ flight'.del = {}
    BY <2>1 DEF NoFlight
  <2>3. Head1.kind = "event" /\ ~IsRow(Head1.pos) /\ Head1.pos \in Nat
    BY <1>8, HeadNat DEF NoticeAfterFlush, TypeInv, TaskStands, IsRow
  <2>4. tail = 0 /\ buffer = {}
    BY <1>8, <2>1 DEF BatchAhead, NoLossInv, BatchCovers
  <2>5. Top = wm /\ Top < Head1.pos
    BY <1>4, <2>1, <2>4 DEF Top, Taking, QueueAhead
  <2>6. Writing' /\ Base' = Head1.pos /\ Top' = Head1.pos
    BY <2>1, <2>2, <2>4 DEF Writing, Base, Top
  <2>7. \A p \in 1 .. Head1.pos - 1 : IsRow(p) => p <= Top
    BY <1>8, <2>3, HeadRows
  <2>8. FlightAhead'
    <3>1. ASSUME NEW p \in 1 .. Head1.pos, IsRow(p), wm < p PROVE FALSE
      <4>1. p # Head1.pos
        BY <2>3, <3>1
      <4>2. p \in 1 .. Head1.pos - 1
        BY <2>3, <4>1
      <4>3. p <= wm
        BY <2>5, <2>7, <3>1, <4>2
      <4> QED BY <1>4, <3>1, <4>3
    <3>2. wm <= Head1.pos
      BY <1>4, <2>3, <2>5
    <3> QED BY <1>1, <1>5, <2>2, <3>1, <3>2 DEF FlightAhead
  <2>9. FlightFresh'
    BY <2>2 DEF FlightFresh
  <2>10. BatchAhead'
    BY <2>1, <2>4 DEF BatchAhead
  <2>11. Taken' /\ ~Taking'
    BY <2>1 DEF Taken, Taking
  <2>12. QueueOrder' /\ QueueAhead' /\ QueueRows'
    BY <1>1, <1>2, <1>4, <2>1, <2>3, <2>5, <2>6, <2>11, KeepOrder
  <2> QED BY <1>3, <2>8, <2>9, <2>10, <2>12
<1>9. CASE NoticeAfterFlush /\ ~Live
  <2>1. UNCHANGED <<flight, buffer, tail>> /\ Pop
    BY <1>9 DEF NoticeAfterFlush, Live, batch, TypeInv, TypeOK, LifeOK
  <2>2. ChainQuiet /\ ~Live'
    BY <1>1, <1>2, <1>9, <2>1 DEF ChainQuiet, store
  <2> QED BY <2>1, <2>2, DoneOrder
<1> QED BY <1>6, <1>7, <1>8, <1>9

(* The steps of the chain keep the order. *)
LEMMA FreshChain ==
  ASSUME TypeInv, TypeInv', NoLossInv, FreshInv, ChainStep
  PROVE  FreshInv'
<1>1. chain # <<>>
  BY DEF ChainStep, DropTask, PassSkip, Look, FlushFirst, PassDropped, Join, DriftStop,
     RereadFails, FlushTake, JoinAfterFlush, TruncateAfterFlush, NoticeAfterFlush,
     NoticeDone, StopAfterFlush, TaskReady, TypeInv, TaskStands
<1>2. phase # "none"
  BY <1>1 DEF NoLossInv, StreamGone
<1> QED BY <1>1, <1>2, FreshQuiet, FreshTake DEF ChainStep

-----------------------------------------------------------------------------
(* the source, starting and stopping *)

(* What is written and parked depends on the store and the destination. *)
LEMMA SameStore ==
  ASSUME UNCHANGED <<log, target, dlq>>
  PROVE  /\ \A p : Written(p)' = Written(p) /\ IsRow(p)' = IsRow(p)
         /\ \A p, n : ParkedBelow(p, n)' = ParkedBelow(p, n)
BY DEF Written, ParkedBelow, IsRow, Hits, target

(* A keepalive passes over no row that was not taken. *)
LEMMA FreshHeartbeat ==
  ASSUME TypeInv, TypeInv', NoLossInv, FreshInv, NEW p \in Positions, Heartbeat(p)
  PROVE  FreshInv'
<1> USE DEF FreshInv
<1>1. /\ UNCHANGED <<log, target, dlq, cells, phase, wm, seq, flight, job, halted, buffer, tail,
                     pc, chain>>
      /\ slot' = p /\ next' = p + 1 /\ phase # "none"
      /\ next - 1 <= wm /\ next - 1 <= p /\ \A q \in next .. p : log[q].kind = "skip"
  BY DEF Heartbeat, store, life, batch
<1>2. next \in Nat /\ wm \in Nat /\ p \in Nat /\ Top \in Nat /\ wm = job.cursor
  BY <1>1, Places, LastPosNat DEF Positions, SavedFresh
<1>3. \A q \in 1 .. p : q \in 1 .. next - 1 \/ ~IsRow(q)
  BY <1>1, <1>2 DEF IsRow
<1>4. \A q \in 1 .. slot' : IsRow(q)' => q <= job'.cursor
  BY <1>1, <1>2, <1>3 DEF IsRow
<1>5. SavedFresh'
  BY <1>1, <1>4, SameStore DEF SavedFresh, ParkedBelow
<1>6. FlightAhead' /\ FlightFresh'
  BY <1>1, SameStore DEF FlightAhead, FlightFresh, Writing, ParkedBelow
<1>7. Base' = Base /\ Live' = Live
  BY <1>1 DEF Base, Writing, Live, Registered
<1>8. BatchAhead' /\ Top' = Top
  BY <1>1, <1>7, BatchSame DEF BatchAhead
<1>9. \A i \in 1 .. Len(chain) : chain[i].pos \in Nat
  BY EventNat
<1>10. QueueOrder'
  <2>1. \A i \in 1 .. Len(chain) : chain[i].kind = "event" => chain[i].pos < next'
    BY <1>1, <1>2, <1>9 DEF QueueOrder
  <2> QED BY <1>1, <2>1 DEF QueueOrder
<1>11. Top' < next' \/ (next' <= wm' /\ Top' <= wm')
  <2>1. Top < next \/ (next <= wm /\ Top <= wm)
    BY <1>1 DEF QueueAhead
  <2> QED BY <1>1, <1>2, <1>8, <2>1
<1>12. Taken' = Taken /\ Taking' = Taking /\ Head1' = Head1
  BY <1>1 DEF Taken, Taking, Head1
<1>13. QueueAhead'
  BY <1>1, <1>8, <1>11, <1>12 DEF QueueAhead
<1>14. ASSUME Live', NEW q \in 1 .. p, IsRow(q)
       PROVE  q <= Top \/ \E j \in 1 .. Len(chain) : EventAt(j, q)
  <2>1. q \in 1 .. next - 1
    BY <1>3, <1>14
  <2> QED BY <1>7, <1>14, <2>1 DEF QueueRows
<1>15. next' - 1 = p
  BY <1>1, <1>2
<1>16. QueueRows'
  BY <1>1, <1>8, <1>14, <1>15 DEF QueueRows, EventAt, IsRow
<1> QED BY <1>5, <1>6, <1>8, <1>10, <1>13, <1>16

(* The provider hands over in order. *)
LEMMA FreshProvider ==
  ASSUME TypeInv, TypeInv', NoLossInv, FreshInv, budget["connection"] = 0, Provider
  PROVE  FreshInv'
<1> SUFFICES ASSUME \A p \in Positions : ~Heartbeat(p) PROVE FreshInv'
  BY FreshHeartbeat
<1> USE DEF FreshInv
<1>0. ~Reconnect
  BY DEF Reconnect, Spend
<1>1. UNCHANGED <<log, slot, target, dlq, cells, phase, wm, seq, flight, job, halted, buffer,
                  tail, pc>>
  BY <1>0 DEF Provider, Hand, HandFatal, TimerFire, source, store, life, batch
<1>2. SavedFresh' /\ FlightAhead'
  BY <1>1, SameStore DEF SavedFresh, FlightAhead, Writing, ParkedBelow
<1>3. FlightFresh'
  BY <1>1, SameStore DEF FlightFresh, ParkedBelow
<1>4. Base' = Base /\ Live' = Live
  BY <1>1 DEF Base, Writing, Live, Registered
<1>5. BatchAhead' /\ Top' = Top
  BY <1>1, <1>4, BatchSame DEF BatchAhead
<1>6. phase # "none"
  BY <1>0 DEF Provider, Hand, HandFatal, TimerFire, Registered, NoLossInv, StreamGone
<1>7. QueueOrder' /\ QueueAhead' /\ QueueRows'
  <2>1. CASE Hand
    BY <1>1, <1>4, <1>5, <1>6, <2>1, AppendOrder DEF Hand
  <2>2. CASE HandFatal
    BY <1>1, <1>4, <1>5, <1>6, <2>2, AppendOrder DEF HandFatal, source
  <2>3. CASE TimerFire /\ Registered
    BY <1>1, <1>4, <1>5, <1>6, <2>3, AppendOrder DEF TimerFire, source
  <2>4. CASE TimerFire /\ ~Registered
    <3>1. chain' = chain /\ next' = next
      BY <2>4 DEF TimerFire, source
    <3>2. Taken' = Taken /\ Taking' = Taking
      BY <1>1 DEF Taken, Taking
    <3>3. Top \in Nat /\ wm \in Nat
      BY Places
    <3> QED BY <1>1, <1>4, <1>5, <3>1, <3>2, <3>3, KeepOrder DEF QueueAhead
  <2> QED BY <1>0, <2>1, <2>2, <2>3, <2>4 DEF Provider
<1> QED BY <1>2, <1>3, <1>5, <1>7

(* A stream that begins, at the saved cursor or behind it. *)
LEMMA FreshBegin ==
  ASSUME TypeInv, TypeInv', NoLossInv, FreshInv, BeginStream
  PROVE  FreshInv'
<1> USE DEF FreshInv
<1>1. /\ phase = "none" /\ wm' = job.cursor
      /\ job'.offset = job.offset /\ job'.cursor = job.cursor
      /\ UNCHANGED <<log, slot, dlq, target, buffer, tail, chain, pc, flight>>
      /\ \E from \in {slot, job.cursor} : next' = from + 1
  BY DEF BeginStream, TypeInv, TypeOK, StoreOK, batch
<1>2. /\ flight = NoFlight /\ chain = <<>> /\ pc = Idle /\ buffer = {} /\ tail = 0
      /\ ~Writing
  BY <1>1 DEF NoLossInv, FlightCovers, FlightSteps, StreamGone, NoFlight, Writing
<1>3. ~Writing' /\ flight'.st = "none" /\ flight'.work = "none" /\ Len(chain') = 0
  BY <1>1, <1>2 DEF Writing, NoFlight
<1>4. Base' = job.cursor /\ Top' = job.cursor
  BY <1>1, <1>2, <1>3 DEF Base, Top
<1>5. SavedFresh'
  BY <1>1, SameStore DEF SavedFresh, ParkedBelow
<1>6. FlightAhead' /\ FlightFresh'
  BY <1>3 DEF FlightAhead, FlightFresh
<1>7. BatchAhead'
  BY <1>1, <1>2 DEF BatchAhead
<1>8. slot \in Nat /\ job.cursor \in Nat /\ next' \in Nat
  BY Places, PlacesNext
<1>9. Top' < next' \/ (next' <= wm' /\ Top' <= wm')
  BY <1>1, <1>4, <1>8
<1>10. QueueOrder' /\ QueueAhead'
  BY <1>1, <1>2, <1>3, <1>9 DEF QueueOrder, QueueAhead, Taking, Idle
<1>11. \A p \in 1 .. next' - 1 : IsRow(p)' => p <= Top'
  BY <1>1, <1>4, <1>8 DEF SavedFresh, IsRow
<1>12. QueueRows'
  BY <1>11 DEF QueueRows
<1> QED BY <1>5, <1>6, <1>7, <1>10, <1>12

(* A stream that is gone. *)
LEMMA FreshForget ==
  ASSUME TypeInv, TypeInv', SavedFresh, Forget, log' = log, slot' = slot, dlq' = dlq,
         job'.offset = job.offset, job'.cursor = job.cursor,
         \A p \in 1 .. job.cursor : Written(p) => Written(p)'
  PROVE  FreshInv'
<1>1. /\ phase' = "none" /\ buffer' = {} /\ tail' = 0 /\ chain' = <<>> /\ pc' = Idle
      /\ flight' = NoFlight /\ flight'.st = "none" /\ flight'.work = "none"
      /\ Len(chain') = 0 /\ ~Writing' /\ ~Live'
  BY DEF Forget, NoFlight, Writing, Live, Registered
<1>2. SavedFresh'
  BY <1>1 DEF SavedFresh, ParkedBelow, IsRow
<1>3. FlightAhead' /\ FlightFresh' /\ BatchAhead'
  BY <1>1 DEF FlightAhead, FlightFresh, BatchAhead
<1>4. QueueOrder' /\ QueueAhead' /\ QueueRows'
  BY <1>1 DEF QueueOrder, QueueAhead, QueueRows, Taking, Idle
<1> QED BY <1>2, <1>3, <1>4 DEF FreshInv

(* Starting, stopping and crashing keep the order. *)
LEMMA FreshLifecycle ==
  ASSUME TypeInv, TypeInv', NoLossInv, FreshInv, Lifecycle
  PROVE  FreshInv'
<1>1. CASE Start \/ Resume
  BY <1>1, FreshBegin DEF Start, Resume
<1>2. ASSUME TeardownDrop \/ \E by \in {"none", "user", "lead"} : TeardownBegin(by)
      PROVE  FreshInv'
  <2>1. /\ UNCHANGED <<log, slot, next, job, dlq, cells, target, halted, wm, seq, buffer, tail,
                       chain, pc, flight>>
        /\ phase # "none" /\ phase' # "none"
        /\ Registered' => Registered
    BY <1>2 DEF TeardownDrop, TeardownBegin, source, store, batch, Registered
  <2>2. Live' => Live
    BY <2>1 DEF Live
  <2>3. SavedFresh' /\ FlightAhead'
    BY <2>1, SameStore DEF FreshInv, SavedFresh, FlightAhead, Writing, ParkedBelow
  <2>4. FlightFresh'
    BY <2>1, SameStore DEF FreshInv, FlightFresh, ParkedBelow
  <2>5. Base' = Base
    BY <2>1 DEF Base, Writing
  <2>6. BatchAhead' /\ Top' = Top
    BY <2>1, <2>2, <2>5, BatchSame DEF FreshInv, BatchAhead
  <2>7. Taken' = Taken /\ Taking' = Taking
    BY <2>1 DEF Taken, Taking
  <2>8. Top \in Nat /\ wm \in Nat
    BY Places
  <2>9. QueueOrder' /\ QueueAhead' /\ QueueRows'
    BY <2>1, <2>2, <2>6, <2>7, <2>8, KeepOrder DEF FreshInv, QueueAhead
  <2> QED BY <2>3, <2>4, <2>6, <2>9 DEF FreshInv
<1>3. CASE TeardownEnd
  <2>1. Forget /\ UNCHANGED <<log, slot, dlq, target>>
    BY <1>3 DEF TeardownEnd, source
  <2>2. job'.offset = job.offset /\ job'.cursor = job.cursor
    BY <1>3 DEF TeardownEnd, TypeInv, TypeOK, StoreOK
  <2> QED BY <2>1, <2>2, SameStore, FreshForget DEF FreshInv
<1>4. CASE Crash
  <2>1. Forget /\ UNCHANGED <<log, slot, dlq, job>> /\ phase # "none"
    BY <1>4 DEF Crash, source, store
  <2>2. PICK S \in SUBSET (IF flight.st = "write" THEN flight.items ELSE {}) : Land(S)
    BY <1>4 DEF Crash
  <2>3. CASE flight.st = "write"
    <3>1. Writing /\ S \in SUBSET flight.items
      BY <2>2, <2>3 DEF Writing
    <3>2. \A p \in 1 .. job.cursor : Written(p) => Written(p)'
      BY <2>1, <2>2, <3>1, LandAhead DEF FreshInv
    <3> QED BY <2>1, <3>2, FreshForget DEF FreshInv
  <2>4. CASE flight.st # "write"
    <3>1. S = {} /\ S \in SUBSET Positions
      BY <2>2, <2>4
    <3>2. \A k \in Keys : dest'[k] = dest[k]
      BY <2>1, <2>2, <3>1, LandWrites
    <3>3. \A p : Written(p) => Written(p)'
      BY <2>1, <3>2 DEF Written, Hits
    <3> QED BY <2>1, <3>3, FreshForget DEF FreshInv
  <2> QED BY <2>3, <2>4
<1> QED BY <1>1, <1>2, <1>3, <1>4 DEF Lifecycle

-----------------------------------------------------------------------------
(* the delivery in flight *)

(* A step of the delivery leaves fresh what is saved. *)
LEMMA SavedStays ==
  ASSUME SavedFresh, FlightQuiet,
         \A p \in 1 .. job.cursor : Written(p) => Written(p)'
  PROVE  SavedFresh'
BY DEF SavedFresh, FlightQuiet, ParkedBelow, IsRow

(* The delivery goes on with what it carries. *)
LEMMA FreshGoesOn ==
  ASSUME TypeInv, TypeInv', FreshInv, FlightQuiet, Writing, Writing',
         flight'.items = flight.items, flight'.reach = flight.reach, FlightFresh',
         \A p \in 1 .. job.cursor : Written(p) => Written(p)'
  PROVE  FreshInv'
<1> USE DEF FreshInv
<1>1. SavedFresh'
  BY SavedStays
<1>2. FlightAhead' /\ Base' = Base
  BY DEF FlightAhead, FlightQuiet, IsRow, Base
<1>3. BatchAhead' /\ Top' = Top
  BY <1>2, BatchSame DEF FlightQuiet, BatchAhead
<1>4. Taken' = Taken /\ Taking' = Taking
  BY DEF Taken, Taking, FlightQuiet
<1>5. Top \in Nat /\ wm \in Nat
  BY Places
<1>6. QueueOrder' /\ QueueAhead' /\ QueueRows'
  BY <1>3, <1>4, <1>5, KeepOrder DEF FlightQuiet, QueueAhead
<1> QED BY <1>1, <1>2, <1>3, <1>6

(* The delivery is given up, and the stream with it. *)
LEMMA FreshGivenUp ==
  ASSUME TypeInv, TypeInv', FreshInv, FlightQuiet, flight' = NoFlight, ~Live',
         \A p \in 1 .. job.cursor : Written(p) => Written(p)'
  PROVE  FreshInv'
<1> USE DEF FreshInv
<1>1. SavedFresh'
  BY SavedStays
<1>2. flight'.st = "none" /\ flight'.work = "none" /\ ~Writing'
  BY DEF NoFlight, Writing
<1>3. FlightAhead' /\ FlightFresh'
  BY <1>2 DEF FlightAhead, FlightFresh
<1>4. UNCHANGED <<log, next, phase, wm, buffer, tail, chain, pc>>
  BY DEF FlightQuiet
<1>5. /\ wm <= Base /\ Base <= Top /\ wm \in Nat /\ Base \in Nat /\ Top \in Nat /\ tail \in Nat
      /\ buffer \subseteq Nat
  BY Places, InOrder
<1>6. Base' = wm
  BY <1>2, <1>4 DEF Base
<1>7. Top' <= Top
  BY <1>4, <1>5, <1>6 DEF Top
<1>8. BatchAhead'
  <2>1. \A p \in buffer : wm < p /\ p <= tail
    BY <1>5 DEF BatchAhead
  <2>2. tail # 0 => wm < tail
    BY <1>5 DEF BatchAhead
  <2> QED BY <1>4, <1>6, <2>1, <2>2 DEF BatchAhead
<1>9. Taken' = Taken /\ Taking' = Taking
  BY <1>4 DEF Taken, Taking
<1>10. Taking' => Top' < Head1.pos
  <2>1. Taking => Top < Head1.pos /\ chain # <<>> /\ Head1.kind = "event"
    BY DEF QueueAhead, Taking, TypeInv, TaskStands
  <2>2. Taking => Head1.pos \in Nat
    BY <2>1, HeadNat
  <2>3. Top' \in Nat
    BY PlacesNext
  <2> QED BY <1>5, <1>7, <1>9, <2>1, <2>2, <2>3
<1>11. QueueOrder' /\ QueueAhead' /\ QueueRows'
  BY <1>4, <1>5, <1>7, <1>9, <1>10, KeepOrder
<1> QED BY <1>1, <1>3, <1>8, <1>11

(* What is written stays as it is where the destination is left alone. *)
LEMMA SameTarget ==
  ASSUME UNCHANGED <<log, target>>
  PROVE  \A p : (Written(p)' = Written(p)) /\ (IsRow(p)' = IsRow(p))
BY DEF Written, IsRow, Hits, target

(* Delivering a batch keeps the order. *)
LEMMA FreshDeliver ==
  ASSUME TypeInv, TypeInv', NoLossInv, FreshInv, DeliverOk \/ DeliverFails
  PROVE  FreshInv'
<1> USE DEF FreshInv
<1>1. flight.st = "write" /\ Writing /\ flight.work = "ok"
  BY DEF DeliverOk, DeliverFails, Writing, NoLossInv, FlightWork
<1>2. landed \subseteq landed'
  BY DEF DeliverOk, DeliverFails, Land
<1>3. FlightQuiet /\ halted' = halted
  BY <1>2 DEF DeliverOk, DeliverFails, FlightQuiet, flightFrame, source, store, batch,
     Live, Registered
<1>4. phase # "none" /\ log' = log
  BY <1>1, <1>3 DEF NoLossInv, FlightCovers, FlightQuiet
<1>5. PICK S \in SUBSET flight.items : Land(S) /\ (DeliverOk => S = flight.items)
  <2>1. CASE DeliverOk
    <3>1. flight.items \in SUBSET flight.items /\ Land(flight.items)
      BY <2>1 DEF DeliverOk
    <3> QED BY <3>1
  <2>2. CASE DeliverFails /\ ~DeliverOk
    BY <2>2 DEF DeliverFails
  <2> QED BY <2>1, <2>2
<1>6. /\ \A p \in 1 .. job.cursor : Written(p) => Written(p)'
      /\ \A p \in S : Written(p)'
  BY <1>1, <1>4, <1>5, LandAhead
<1>7. CASE halted = "yes"
  <2>1. flight' = NoFlight
    BY <1>7 DEF DeliverOk, DeliverFails
  <2> QED BY <1>3, <1>6, <1>7, <2>1, FreshGivenUp DEF Live
<1>8. flight \in Flight
  BY DEF TypeInv, TypeOK
<1>9. CASE halted # "yes" /\ DeliverOk
  <2>1. flight' = [flight EXCEPT !.st = "record", !.del = flight.items,
                                 !.nextSeq = flight.seq + 1]
    BY <1>9 DEF DeliverOk
  <2>2. /\ flight'.st = "record" /\ flight'.items = flight.items
        /\ flight'.reach = flight.reach
    BY <1>8, <2>1 DEF Flight
  <2>3. FlightFresh' /\ Writing'
    BY <1>5, <1>6, <1>9, <2>2 DEF FlightFresh, Writing
  <2> QED BY <1>1, <1>3, <1>6, <2>2, <2>3, FreshGoesOn
<1>10. CASE halted # "yes" /\ DeliverFails
  <2>1. flight' = [flight EXCEPT !.st = "failed", !.work = "failed"]
    BY <1>10 DEF DeliverFails
  <2>2. /\ flight'.st = "failed" /\ flight'.work = "failed"
        /\ flight'.items = flight.items /\ flight'.reach = flight.reach
    BY <1>8, <2>1 DEF Flight
  <2>3. FlightFresh' /\ Writing'
    BY <2>2 DEF FlightFresh, Writing
  <2> QED BY <1>1, <1>3, <1>6, <2>2, <2>3, FreshGoesOn
<1> QED BY <1>7, <1>9, <1>10

(* Recording its outcome keeps the order. *)
LEMMA FreshRecord ==
  ASSUME TypeInv, TypeInv', NoLossInv, FreshInv, budget["reply"] = 0,
         RecordOk \/ RecordNotice \/ RecordDelivered \/ RecordFailed
  PROVE  FreshInv'
<1> USE DEF FreshInv
<1>1. PICK st \in {"persist", "recordFailed"} :
        /\ Answered(st)
        /\ st = "recordFailed" <=> flight.st = "recordDelivered"
  BY DEF RecordOk, RecordNotice, RecordDelivered, RecordFailed
<1>2. flight' = [flight EXCEPT !.st = st] /\ UNCHANGED <<job, halted>>
  BY <1>1, AnswerArrives
<1>3. Writing /\ \E s \in {flight.seq, FailedSeq} : \E S, a : Recorded(s, S, a)
  BY DEF RecordOk, RecordNotice, RecordDelivered, RecordFailed, Writing
<1>4. \A c \in cells : c.seq < job.offset => c \in cells'
  BY <1>3, RecordedAfter
<1>5. FlightQuiet /\ UNCHANGED <<target, dlq, log>>
  BY <1>2, <1>4 DEF RecordOk, RecordNotice, RecordDelivered, RecordFailed, FlightQuiet,
     flightFrame, source, target, batch, Live, Registered
<1>6. flight \in Flight /\ flight.seq \in Nat
  BY DEF TypeInv, TypeOK, Flight
<1>7. /\ flight'.st = st /\ flight'.work = flight.work /\ flight'.items = flight.items
      /\ flight'.reach = flight.reach /\ flight'.nextSeq = flight.nextSeq
      /\ flight'.del = flight.del
  BY <1>2, <1>6 DEF Flight
<1>8. flight.st \in {"record", "notice", "recordDelivered", "recordFailed"}
  BY DEF RecordOk, RecordNotice, RecordDelivered, RecordFailed
<1>9. \A p : Written(p)' = Written(p)
  BY <1>5, SameTarget
<1>10. PICK n : n = flight.nextSeq
  OBVIOUS
<1>11. \A p : ParkedBelow(p, n)' = ParkedBelow(p, n)
  BY <1>5, SameStore
<1>12. flight.st # "recordDelivered" =>
         \A p \in flight.items : Written(p) \/ ParkedBelow(p, n)
  <2>1. CASE flight.st = "record"
    BY <2>1 DEF FlightFresh
  <2>2. CASE flight.st = "notice"
    BY <2>2 DEF NoLossInv, FlightSteps, FlightWork
  <2>3. CASE flight.st = "recordFailed"
    <3>1. \A p \in flight.del : Written(p)
      BY <2>3 DEF FlightFresh
    <3>2. /\ n = FailedSeq + 1
          /\ \A p \in AtFault : [seq |-> FailedSeq, pos |-> p] \in dlq
      BY <1>10, <2>3 DEF NoLossInv, FlightSteps
    <3>3. FailedSeq \in Nat /\ FailedSeq < n
      BY <1>6, <3>2 DEF FailedSeq
    <3>4. ASSUME NEW p \in AtFault PROVE ParkedBelow(p, n)
      <4>1. PICK e \in dlq : e = [seq |-> FailedSeq, pos |-> p]
        BY <3>2
      <4>2. e.pos = p /\ e.seq < n
        BY <3>3, <4>1
      <4> QED BY <4>2 DEF ParkedBelow
    <3> QED BY <3>1, <3>4 DEF AtFault
  <2> QED BY <1>8, <2>1, <2>2, <2>3
<1>13. FlightFresh' /\ Writing'
  <2>1. CASE flight.st = "recordDelivered"
    <3>1. flight'.st = "recordFailed" /\ flight'.work = "failed"
      BY <1>1, <1>7, <2>1 DEF NoLossInv, FlightWork
    <3>2. \A p \in flight.del : Written(p)
      BY <2>1 DEF FlightFresh
    <3> QED BY <1>7, <1>9, <3>1, <3>2 DEF FlightFresh, Writing
  <2>2. CASE flight.st # "recordDelivered"
    <3>1. flight'.st = "persist"
      BY <1>1, <1>7, <2>2
    <3>2. flight.work = "ok" => \A p \in flight.items : Written(p)
      BY <1>8 DEF FlightFresh
    <3>3. \A p \in flight'.items : Written(p)' \/ ParkedBelow(p, n)'
      BY <1>7, <1>9, <1>11, <1>12, <2>2
    <3>4. \A p : ParkedBelow(p, n)' => ParkedBelow(p, flight.nextSeq)'
      BY <1>7, <1>10 DEF ParkedBelow
    <3> QED BY <1>7, <1>9, <3>1, <3>2, <3>3, <3>4 DEF FlightFresh, Writing
  <2> QED BY <2>1, <2>2
<1> QED BY <1>3, <1>5, <1>7, <1>9, <1>13, FreshGoesOn

(* Handling a failed delivery keeps the order. *)
LEMMA FreshFailed ==
  ASSUME TypeInv, TypeInv', NoLossInv, FreshInv, HandleFailed
  PROVE  FreshInv'
<1> USE DEF FreshInv
<1>1. flight.st = "failed" /\ Writing /\ flight.work = "failed"
  BY DEF HandleFailed, Writing, NoLossInv, FlightWork
<1>2. landed \subseteq landed'
  BY DEF HandleFailed, Land, target
<1>3. FlightQuiet
  BY <1>2 DEF HandleFailed, FlightQuiet, flightFrame, source, store, batch, Live,
     Registered
<1>4. phase # "none" /\ log' = log /\ flight \in Flight
  BY <1>1, <1>3 DEF NoLossInv, FlightCovers, FlightQuiet, TypeInv, TypeOK
<1>5. ASSUME flight' = [flight EXCEPT !.st = "halting"],
             \A p \in 1 .. job.cursor : Written(p) => Written(p)'
      PROVE  FreshInv'
  <2>1. /\ flight'.st = "halting" /\ flight'.work = "failed"
        /\ flight'.items = flight.items /\ flight'.reach = flight.reach
    BY <1>1, <1>4, <1>5 DEF Flight
  <2>2. FlightFresh' /\ Writing'
    BY <2>1 DEF FlightFresh, Writing
  <2> QED BY <1>1, <1>3, <1>5, <2>1, <2>2, FreshGoesOn
<1>6. CASE UNCHANGED target /\ flight' = [flight EXCEPT !.st = "halting"]
  BY <1>4, <1>5, <1>6, SameTarget
<1>7. CASE /\ flight' = [flight EXCEPT !.st = "halting"]
           /\ \E S \in SUBSET flight.items : Land(S)
  <2>1. PICK S \in SUBSET flight.items : Land(S)
    BY <1>7
  <2>2. \A p \in 1 .. job.cursor : Written(p) => Written(p)'
    BY <1>1, <1>4, <2>1, LandAhead
  <2> QED BY <1>5, <1>7, <2>2
<1>8. ASSUME NEW D \in SUBSET flight.items, NEW n, NEW s, Land(D),
             flight' = [flight EXCEPT !.del = D, !.nextSeq = n, !.st = s],
             \/ s = "record" /\ D = flight.items
             \/ s \in {"halting", "park"}
      PROVE  FreshInv'
  <2>1. /\ \A p \in 1 .. job.cursor : Written(p) => Written(p)'
        /\ \A p \in D : Written(p)'
    BY <1>1, <1>4, <1>8, LandAhead
  <2>2. /\ flight'.st = s /\ flight'.work = "failed" /\ flight'.items = flight.items
        /\ flight'.reach = flight.reach /\ flight'.del = D
    BY <1>1, <1>4, <1>8 DEF Flight
  <2>3. FlightFresh' /\ Writing'
    BY <1>8, <2>1, <2>2 DEF FlightFresh, Writing
  <2> QED BY <1>1, <1>3, <2>1, <2>2, <2>3, FreshGoesOn
<1>9. CASE \E D \in IF CanIsolate /\ Cardinality(flight.items) > 1
                     THEN SUBSET flight.items ELSE {{}} :
             /\ Land(D)
             /\ flight' =
                  [flight EXCEPT
                     !.del = D,
                     !.nextSeq = flight.seq
                                   + IF D # {} /\ D # flight.items THEN 2 ELSE 1,
                     !.st = IF D = flight.items THEN "record"
                              ELSE IF consec' >= MaxConsecutive THEN "halting" ELSE "park"]
  <2>1. PICK D \in IF CanIsolate /\ Cardinality(flight.items) > 1
                     THEN SUBSET flight.items ELSE {{}} :
             /\ Land(D)
             /\ flight' =
                  [flight EXCEPT
                     !.del = D,
                     !.nextSeq = flight.seq
                                   + IF D # {} /\ D # flight.items THEN 2 ELSE 1,
                     !.st = IF D = flight.items THEN "record"
                              ELSE IF consec' >= MaxConsecutive THEN "halting" ELSE "park"]
    BY <1>9
  <2>2. D \in SUBSET flight.items
    OBVIOUS
  <2> DEFINE n == flight.seq + IF D # {} /\ D # flight.items THEN 2 ELSE 1
             s == IF D = flight.items THEN "record"
                    ELSE IF consec' >= MaxConsecutive THEN "halting" ELSE "park"
  <2>3. \/ s = "record" /\ D = flight.items
        \/ s \in {"halting", "park"}
    <3>1. CASE D = flight.items
      BY <3>1
    <3>2. CASE D # flight.items /\ consec' >= MaxConsecutive
      BY <3>2
    <3>3. CASE D # flight.items /\ ~(consec' >= MaxConsecutive)
      BY <3>3
    <3> QED BY <3>1, <3>2, <3>3
  <2>4. Land(D) /\ flight' = [flight EXCEPT !.del = D, !.nextSeq = n, !.st = s]
    BY <2>1
  <2> HIDE DEF n, s
  <2> QED BY <1>8, <2>2, <2>3, <2>4
<1> QED BY <1>6, <1>7, <1>9 DEF HandleFailed

(* Parking the rows at fault keeps the order. *)
LEMMA FreshPark ==
  ASSUME TypeInv, TypeInv', NoLossInv, FreshInv, budget["reply"] = 0, Park
  PROVE  FreshInv'
<1> USE DEF FreshInv
<1>1. flight.st = "park" /\ Writing /\ flight.work = "failed" /\ flight \in Flight
  BY DEF Park, Writing, NoLossInv, FlightWork, TypeInv, TypeOK
<1>2. flight.seq = job.offset
  BY <1>1 DEF NoLossInv, FlightCovers, SavedSettled
<1>3. PICK st \in {"halting", "recordDelivered", "recordFailed"} :
        /\ flight' = [flight EXCEPT !.st = st] /\ UNCHANGED <<job, halted>>
        /\ \A e \in dlq : e.seq < flight.seq => e \in dlq'
  <2>1. CASE Cardinality(dlq) + Cardinality(AtFault) > DeadLetterMax
    BY <2>1 DEF Park
  <2>2. CASE ~(Cardinality(dlq) + Cardinality(AtFault) > DeadLetterMax)
    <3>1. PICK st \in {"recordDelivered", "recordFailed"} : Answered(st)
      BY <2>2 DEF Park
    <3>2. flight' = [flight EXCEPT !.st = st] /\ UNCHANGED <<job, halted>>
      BY <3>1, AnswerArrives
    <3>3. \A e \in dlq : e.seq < flight.seq => e \in dlq'
      BY <2>2 DEF Park
    <3> QED BY <3>2, <3>3
  <2> QED BY <2>1, <2>2
<1>4. UNCHANGED <<flightFrame, cells, target, wm, seq>>
  BY DEF Park
<1>5. FlightQuiet /\ log' = log
  BY <1>2, <1>3, <1>4 DEF FlightQuiet, flightFrame, source, target, batch, Live, Registered
<1>6. /\ flight'.st = st /\ flight'.work = "failed" /\ flight'.items = flight.items
      /\ flight'.reach = flight.reach /\ flight'.del = flight.del
  BY <1>1, <1>3 DEF Flight
<1>7. \A p : Written(p)' = Written(p)
  BY <1>4, <1>5, SameTarget
<1>8. \A p \in flight.del : Written(p)
  BY <1>1 DEF FlightFresh
<1>9. FlightFresh' /\ Writing'
  BY <1>6, <1>7, <1>8 DEF FlightFresh, Writing
<1> QED BY <1>1, <1>5, <1>6, <1>7, <1>9, FreshGoesOn

(* Stopping at a failed batch keeps the order. *)
LEMMA FreshStop ==
  ASSUME TypeInv, TypeInv', NoLossInv, FreshInv, budget["reply"] = 0, StopBatch \/ PersistHalted
  PROVE  FreshInv'
<1>1. flight' = NoFlight /\ halted' = "yes"
  BY NoReply DEF StopBatch, PersistHalted, HaltTo
<1>2. job'.offset = job.offset /\ job'.cursor = job.cursor
  BY NoReply DEF StopBatch, PersistHalted, HaltTo, store, TypeInv, TypeOK, StoreOK
<1>3. ~Live'
  BY <1>1 DEF Live
<1>4. \A c \in cells : c.seq < job.offset => c \in cells'
  <2>1. CASE StopBatch
    BY <2>1, RecordedAfter DEF StopBatch, Writing
  <2>2. CASE PersistHalted
    BY <2>2 DEF PersistHalted, store
  <2> QED BY <2>1, <2>2
<1>5. FlightQuiet /\ UNCHANGED <<log, target>>
  BY <1>2, <1>3, <1>4 DEF StopBatch, PersistHalted, FlightQuiet, flightFrame, source, store,
     target, batch
<1> QED BY <1>1, <1>3, <1>5, SameTarget, FreshGivenUp

(* settle(): the work begins again on what stands, or the bridge stops. *)
LEMMA FreshStoreFails ==
  ASSUME TypeInv, TypeInv', NoLossInv, FreshInv, StoreFails
  PROVE  FreshInv'
<1> USE DEF FreshInv
<1>1. Writing /\ flight.st # "write" /\ flight \in Flight
  BY DEF StoreFails, Writing, TypeInv, TypeOK
<1>2. job'.offset = job.offset /\ job'.cursor = job.cursor
  BY DEF StoreFails, RetryStatus, TypeInv, TypeOK, StoreOK
<1>3. halted' \in {halted, "yes"}
  BY DEF StoreFails, Retry
<1>4. FlightQuiet /\ UNCHANGED <<log, target, dlq>>
  BY <1>2, <1>3 DEF StoreFails, FlightQuiet, flightFrame, source, target, batch, Live,
     Registered
<1>5. \A p : Written(p)' = Written(p)
  BY <1>4, SameTarget
<1>6. CASE halted = "yes" \/ ~(flight.tries + 1 < SettleAttempts)
  <2>1. flight' = NoFlight /\ halted' = "yes"
    BY <1>6 DEF StoreFails, Retry
  <2> QED BY <1>4, <1>5, <2>1, FreshGivenUp DEF Live
<1>7. CASE ~(halted = "yes" \/ ~(flight.tries + 1 < SettleAttempts))
  <2>1. flight' = [flight EXCEPT !.st = Restart, !.tries = @ + 1]
    BY <1>7 DEF StoreFails, Retry
  <2> DEFINE r == Restart
  <2>2. /\ flight.work = "ok" => r = "record"
        /\ flight.work = "failed" => r = "failed"
        /\ flight.work = "notice" => r = "notice"
        /\ flight.work = "empty" => r = "persist"
    BY DEF Restart
  <2> HIDE DEF r
  <2>3. /\ flight'.st = r /\ flight'.work = flight.work /\ flight'.items = flight.items
        /\ flight'.reach = flight.reach
    BY <1>1, <2>1 DEF Flight, r
  <2>4. flight.work \in {"ok", "failed", "notice", "empty"}
    BY <1>1 DEF NoLossInv, FlightWork, Flight
  <2>5. flight.work = "ok" => \A p \in flight.items : Written(p)
    BY <1>1 DEF FlightFresh
  <2>6. flight.work = "empty" => flight.items = {}
    BY DEF NoLossInv, FlightSteps
  <2>7. FlightFresh' /\ Writing'
    BY <1>5, <2>2, <2>3, <2>4, <2>5, <2>6 DEF FlightFresh, Writing
  <2> QED BY <1>1, <1>4, <1>5, <2>3, <2>7, FreshGoesOn
<1> QED BY <1>6, <1>7

(* checkpoint(): what was in flight is written or parked, up to the cursor. *)
LEMMA FreshPersist ==
  ASSUME TypeInv, TypeInv', NoLossInv, FreshInv, Persist
  PROVE  FreshInv'
<1> USE DEF FreshInv
<1>1. flight.st = "persist" /\ Writing /\ flight \in Flight
  BY DEF Persist, Writing, TypeInv, TypeOK
<1>2. phase # "none" /\ flight.seq = job.offset /\ wm = job.cursor
  BY <1>1 DEF NoLossInv, FlightCovers, SavedSettled, SavedFresh
<1>3. flight.nextSeq \in Nat /\ job.offset \in Nat /\ job.offset <= flight.nextSeq
  BY <1>1, <1>2, Places DEF NoLossInv, FlightSteps, Flight
<1>4. job'.offset = flight.nextSeq /\ job'.cursor = flight.reach
  BY DEF Persist, Saved, TypeInv, TypeOK, StoreOK
<1>5. /\ wm' = flight.reach /\ flight' = NoFlight
      /\ UNCHANGED <<log, next, phase, buffer, tail, chain, pc, dlq, target, halted>>
      /\ slot' \in {slot, flight.reach}
  BY DEF Persist, AckTo, batch
<1>6. flight'.st = "none" /\ flight'.work = "none" /\ ~Writing'
  BY <1>5 DEF NoFlight, Writing
<1>7. wm <= flight.reach /\ wm \in Nat /\ flight.reach \in Nat /\ slot \in Nat
  BY <1>1, Places DEF FlightAhead
<1>8. \A p : (Written(p)' = Written(p)) /\ (IsRow(p)' = IsRow(p))
  BY <1>5, SameTarget
<1>9. PICK n \in Nat : n = flight.nextSeq
  BY <1>3
<1>10. \A p : ParkedBelow(p, job.offset) => ParkedBelow(p, n)
  <2>1. \A e \in dlq : e.seq \in Nat
    BY DEF TypeInv, TypeOK, StoreOK
  <2> QED BY <1>3, <1>9, <2>1 DEF ParkedBelow
<1>11. ASSUME NEW p \in 1 .. flight.reach, IsRow(p)
       PROVE  Written(p) \/ ParkedBelow(p, n)
  <2>1. CASE wm < p
    <3>1. p \in flight.items
      BY <1>1, <1>11, <2>1 DEF FlightAhead
    <3> QED BY <1>1, <1>9, <3>1 DEF FlightFresh
  <2>2. CASE ~(wm < p)
    <3>1. p \in 1 .. job.cursor
      BY <1>2, <1>7, <2>2
    <3> QED BY <1>10, <1>11, <3>1 DEF SavedFresh
  <2> QED BY <2>1, <2>2
<1>12. SavedFresh'
  <2>1. \A p \in 1 .. slot' : IsRow(p)' => p <= job'.cursor
    BY <1>2, <1>4, <1>5, <1>7, <1>8 DEF SavedFresh
  <2>2. \A p : ParkedBelow(p, n) => ParkedBelow(p, job.offset)'
    BY <1>4, <1>5, <1>9 DEF ParkedBelow
  <2>3. \A p \in 1 .. job'.cursor : IsRow(p)' => Written(p)' \/ ParkedBelow(p, job.offset)'
    BY <1>4, <1>8, <1>11, <2>2
  <2> QED BY <1>4, <1>5, <2>1, <2>3 DEF SavedFresh
<1>13. FlightAhead' /\ FlightFresh'
  BY <1>6 DEF FlightAhead, FlightFresh
<1>14. Base' = Base /\ (Live' = Live)
  BY <1>1, <1>5, <1>6 DEF Base, Live, Registered
<1>15. BatchAhead' /\ Top' = Top
  BY <1>5, <1>14, BatchSame DEF BatchAhead
<1>16. Taken' = Taken /\ Taking' = Taking /\ Top \in Nat
  BY <1>5, Places DEF Taken, Taking
<1>17. QueueOrder' /\ QueueAhead' /\ QueueRows'
  BY <1>5, <1>7, <1>14, <1>15, <1>16, KeepOrder DEF QueueAhead
<1> QED BY <1>12, <1>13, <1>15, <1>17

(* The steps of a batch in flight keep the order. *)
LEMMA FreshFlight ==
  ASSUME TypeInv, TypeInv', NoLossInv, FreshInv, budget["reply"] = 0, FlightStep
  PROVE  FreshInv'
<1>1. ~PersistUnanswered
  BY NoReply DEF PersistUnanswered
<1> QED BY <1>1, FreshDeliver, FreshRecord, FreshFailed, FreshPark, FreshStop, FreshPersist,
     FreshStoreFails DEF FlightStep

-----------------------------------------------------------------------------
(* the invariant *)

(* Where no connection may drop, none does. *)
LEMMA ConnectionStays ==
  ASSUME TypeInv, TypeInv', budget["connection"] = 0, Next
  PROVE  budget'["connection"] = 0
<1>1. budget \in [FaultKinds -> Nat] /\ budget' \in [FaultKinds -> Nat]
  BY DEF TypeInv, TypeOK, CounterOK
<1>2. \/ UNCHANGED budget
      \/ \E f \in FaultKinds : Spend(f)
  <2>1. CASE Lifecycle
    BY <2>1, FaultNames DEF Lifecycle, Start, Resume, BeginStream, TeardownBegin,
       TeardownDrop, TeardownEnd, Crash
  <2>2. CASE Provider
    BY <2>2, FaultNames DEF Provider, Hand, Reconnect, HandFatal, TimerFire, Heartbeat
  <2>3. CASE ChainStep
    BY <2>3, FaultNames DEF ChainStep, DropTask, PassSkip, Look, FlushFirst, PassDropped,
       Join, DriftStop, RereadFails, FlushTake, JoinAfterFlush, TruncateAfterFlush,
       NoticeAfterFlush, NoticeDone, StopAfterFlush, chainFrame, Spend
  <2>4. CASE FlightStep
    BY <2>4, FaultNames DEF FlightStep, DeliverOk, DeliverFails, RecordOk, RecordNotice,
       HandleFailed, StopBatch, Park, RecordDelivered, RecordFailed, PersistHalted,
       Persist, PersistUnanswered, StoreFails, Answered
  <2> QED BY <2>1, <2>2, <2>3, <2>4 DEF Next
<1>3. ASSUME NEW f \in FaultKinds, Spend(f) PROVE budget'["connection"] = 0
  <2>1. budget'["connection"] <= budget["connection"]
    BY <1>1, <1>3, SpendType, FaultNames
  <2> QED BY <1>1, <2>1, FaultNames
<1> QED BY <1>2, <1>3

(* At the start nothing was read. *)
LEMMA FreshInit == Init => FreshInv
<1> SUFFICES ASSUME Init PROVE FreshInv
  OBVIOUS
<1>1. /\ phase = "none" /\ flight.st = "none" /\ flight.work = "none" /\ buffer = {} /\ tail = 0
      /\ Len(chain) = 0 /\ pc.at = "idle" /\ slot = 0 /\ job.cursor = 0
  BY DEF Init, NoFlight, Idle
<1>2. SavedFresh /\ FlightAhead /\ FlightFresh /\ BatchAhead
  BY <1>1 DEF SavedFresh, FlightAhead, FlightFresh, BatchAhead, Writing, Live, Registered
<1>3. QueueOrder /\ QueueAhead /\ QueueRows
  BY <1>1 DEF QueueOrder, QueueAhead, QueueRows, Taking, Live, Registered
<1> QED BY <1>2, <1>3 DEF FreshInv

(* Every step keeps the invariant. *)
LEMMA OrderStep == OrderInv /\ [Next]_vars => OrderInv'
<1> SUFFICES ASSUME OrderInv, [Next]_vars PROVE OrderInv'
  OBVIOUS
<1> USE DEF OrderInv, Inv
<1>1. Inv'
  BY InvStep
<1>2. CASE Next
  <2>1. FreshInv'
    BY <1>1, <1>2, FreshLifecycle, FreshProvider, FreshChain, FreshFlight DEF Next
  <2> QED BY <1>1, <1>2, <2>1, ConnectionStays
<1>3. CASE UNCHANGED vars
  <2>1. /\ UNCHANGED <<log, slot, next, job, dlq, target, phase, halted, wm, buffer, tail, chain,
                       pc, flight, budget>>
    BY <1>3 DEF vars, source, store, life, batch
  <2>2. /\ Writing' = Writing /\ Live' = Live /\ Base' = Base /\ Top' = Top
        /\ Taken' = Taken /\ Taking' = Taking /\ Head1' = Head1
    BY <2>1 DEF Writing, Live, Registered, Base, Top, Taken, Taking, Head1
  <2>3. SavedFresh' /\ FlightAhead'
    BY <2>1, <2>2, SameStore DEF FreshInv, SavedFresh, FlightAhead, ParkedBelow
  <2>4. FlightFresh'
    BY <2>1, <2>2, SameStore DEF FreshInv, FlightFresh, ParkedBelow
  <2>5. BatchAhead'
    BY <2>1, <2>2, SameStore DEF FreshInv, BatchAhead
  <2>6. QueueOrder' /\ QueueAhead' /\ QueueRows'
    BY <2>1, <2>2, SameStore DEF FreshInv, QueueOrder, QueueAhead, QueueRows, EventAt
  <2> QED BY <1>1, <2>1, <2>3, <2>4, <2>5, <2>6 DEF FreshInv
<1> QED BY <1>2, <1>3

(* No stale row lands on top of a fresh one: what the destination holds of *)
(* a key is never older than a row behind the saved cursor that is not in  *)
(* the dead-letter queue (flush: one delivery at a time, in the order      *)
(* read; accept: what the watermark has passed is dropped; checkpoint),    *)
(* through crashes, stops, failed deliveries, split batches and failed     *)
(* saves, as long as no answer of the metadata store is lost and the       *)
(* source connection does not drop.                                        *)
THEOREM DestinationStaysFresh ==
  Budgets["reply"] = 0 /\ Budgets["connection"] = 0 => (Spec => []DestinationFresh)
<1> SUFFICES ASSUME Budgets["reply"] = 0, Budgets["connection"] = 0
             PROVE  Spec => []DestinationFresh
  OBVIOUS
<1>1. Init => OrderInv
  BY TypeInit, NoLossInit, FreshInit DEF Init, Inv, OrderInv
<1>2. OrderInv => DestinationFresh
  BY DEF OrderInv, FreshInv, SavedFresh, Written, ParkedBelow, DestinationFresh
<1> QED BY <1>1, <1>2, OrderStep, PTL DEF Spec
=============================================================================
