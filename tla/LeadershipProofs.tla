-------------------------- MODULE LeadershipProofs --------------------------
(***************************************************************************)
(* Proofs about Leadership, for any number of processes, any length of a   *)
(* lease and any number of faults: LeadInv is inductive, a leader cut off  *)
(* from Redis fences itself in time, two leaders are never both young, and *)
(* every step is one Lease allows.                                         *)
(***************************************************************************)
EXTENDS Leadership, TLAPS

USE TimesAssumption, BudgetsAssumption

(* Nothing holds the lease to begin with, nobody leads. *)
LEMMA InitLead == Init => LeadInv
  BY DEF Init, LeadInv, TypeOK, HolderInv, RoleInv, AgeInv, LeftInv, Answers, Longest, Overdue, FaultKinds

(* Unless time passes, a process is only changed by its own steps, and a
   lease that is not its own can only be taken when it is free. *)
Same(q) ==
  /\ call'[q] = call[q] /\ waited'[q] = waited[q] /\ age'[q] = age[q]
  /\ q \in leader' <=> q \in leader
  /\ q \in due' <=> q \in due
  /\ q \in up' <=> q \in up

(* A process that is not changed keeps its part of the invariant, as long as
   the lease is not taken from it. *)
LEMMA OthersKeep ==
  ASSUME LeadInv, NEW q \in Procs, Same(q),
         \/ UNCHANGED <<holder, left>>
         \/ holder # {q} /\ holder' # {q}
  PROVE  RoleInv(q)' /\ AgeInv(q)' /\ LeftInv(q)'
  <1>1. RoleInv(q) /\ AgeInv(q) /\ LeftInv(q)
    BY DEF LeadInv
  <1>2. RoleInv(q)' /\ AgeInv(q)'
    BY <1>1 DEF Same, RoleInv, AgeInv, Longest, Answers
  <1>3. LeftInv(q)'
    BY <1>1 DEF Same, LeftInv
  <1> QED
    BY <1>2, <1>3

(* A command that reaches Redis. *)
LEMMA BeatKeeps ==
  ASSUME LeadInv, NEW p \in Procs, Beat(p)
  PROVE  LeadInv'
  <1>1. TypeOK /\ HolderInv /\ RoleInv(p) /\ AgeInv(p) /\ LeftInv(p)
    BY DEF LeadInv
  <1>2. TypeOK'
    BY <1>1 DEF Beat, BeatOf, Renew, Campaign, Becomes, TypeOK, Answers
  <1>3. HolderInv'
    BY <1>1 DEF Beat, BeatOf, Renew, Campaign, Becomes, TypeOK, HolderInv
  <1>4. RoleInv(p)'
    BY <1>1 DEF Beat, BeatOf, Renew, Campaign, Becomes, TypeOK, RoleInv, Answers
  <1>5. AgeInv(p)'
    BY <1>1 DEF Beat, BeatOf, Renew, Campaign, Becomes, TypeOK, AgeInv, Answers, Longest, Overdue
  <1>6. LeftInv(p)'
    BY <1>1 DEF Beat, BeatOf, Renew, Campaign, Becomes, TypeOK, LeftInv, HolderInv
  <1>7. ASSUME NEW q \in Procs, q # p
        PROVE  RoleInv(q)' /\ AgeInv(q)' /\ LeftInv(q)'
    <2>1. Same(q)
      BY <1>1, <1>7 DEF Beat, BeatOf, Renew, Campaign, Becomes, TypeOK, Same
    <2>2. \/ UNCHANGED <<holder, left>>
          \/ holder # {q} /\ holder' # {q}
      BY <1>1, <1>7 DEF Beat, BeatOf, Renew, Campaign, Becomes
    <2> QED
      BY <2>1, <2>2, OthersKeep
  <1> QED
    BY <1>2, <1>3, <1>4, <1>5, <1>6, <1>7 DEF LeadInv

(* A command that does not reach Redis. *)
LEMMA BeatFailsKeeps ==
  ASSUME LeadInv, NEW p \in Procs, BeatFails(p)
  PROVE  LeadInv'
  <1>1. TypeOK /\ HolderInv /\ RoleInv(p) /\ AgeInv(p) /\ LeftInv(p)
    BY DEF LeadInv
  <1>2. TypeOK'
    BY <1>1 DEF BeatFails, BeatOf, Becomes, TypeOK, Answers, Overdue, Longest, FaultKinds
  <1>3. HolderInv'
    BY <1>1 DEF BeatFails, BeatOf, Becomes, TypeOK, HolderInv
  <1>4. RoleInv(p)'
    BY <1>1 DEF BeatFails, BeatOf, Becomes, TypeOK, RoleInv, Answers
  <1>5. AgeInv(p)'
    BY <1>1 DEF BeatFails, BeatOf, Becomes, TypeOK, RoleInv, AgeInv, Answers, Longest, Overdue
  <1>6. LeftInv(p)'
    BY <1>1 DEF BeatFails, BeatOf, Becomes, TypeOK, RoleInv, LeftInv, HolderInv, Answers
  <1>7. ASSUME NEW q \in Procs, q # p
        PROVE  RoleInv(q)' /\ AgeInv(q)' /\ LeftInv(q)'
    <2>1. Same(q)
      BY <1>1, <1>7 DEF BeatFails, BeatOf, Becomes, TypeOK, Same
    <2>2. \/ UNCHANGED <<holder, left>>
          \/ holder # {q} /\ holder' # {q}
      BY <1>1, <1>7 DEF BeatFails, BeatOf, Becomes
    <2> QED
      BY <2>1, <2>2, OthersKeep
  <1> QED
    BY <1>2, <1>3, <1>4, <1>5, <1>6, <1>7 DEF LeadInv

(* An answer that is lost. *)
LEMMA AnswerLostKeeps ==
  ASSUME LeadInv, NEW p \in Procs, AnswerLost(p)
  PROVE  LeadInv'
  <1>1. TypeOK /\ HolderInv /\ RoleInv(p) /\ AgeInv(p) /\ LeftInv(p)
    BY DEF LeadInv
  <1>2. TypeOK'
    BY <1>1 DEF AnswerLost, Spend, TypeOK, Answers, Overdue, Longest, FaultKinds
  <1>3. HolderInv'
    BY <1>1 DEF AnswerLost, Spend, TypeOK, HolderInv
  <1>4. RoleInv(p)'
    BY <1>1 DEF AnswerLost, Spend, TypeOK, RoleInv, Answers
  <1>5. AgeInv(p)'
    BY <1>1 DEF AnswerLost, Spend, TypeOK, RoleInv, AgeInv, Answers, Longest, Overdue
  <1>6. LeftInv(p)'
    BY <1>1 DEF AnswerLost, Spend, TypeOK, RoleInv, LeftInv, HolderInv, Answers
  <1>7. ASSUME NEW q \in Procs, q # p
        PROVE  RoleInv(q)' /\ AgeInv(q)' /\ LeftInv(q)'
    <2>1. Same(q)
      BY <1>1, <1>7 DEF AnswerLost, Spend, TypeOK, Same
    <2>2. \/ UNCHANGED <<holder, left>>
          \/ holder # {q} /\ holder' # {q}
      BY <1>1, <1>7 DEF AnswerLost, Spend
    <2> QED
      BY <2>1, <2>2, OthersKeep
  <1> QED
    BY <1>2, <1>3, <1>4, <1>5, <1>6, <1>7 DEF LeadInv

(* An answer, of each kind. *)
LEMMA AnswerKeeps ==
  ASSUME LeadInv, NEW p \in Procs, Answer(p)
  PROVE  LeadInv'
  <1>1. TypeOK /\ HolderInv /\ RoleInv(p) /\ AgeInv(p) /\ LeftInv(p)
    BY DEF LeadInv
  <1>2. TypeOK'
    BY <1>1 DEF Answer, AfterFailure, AfterLost, AfterKept, AfterWon, AfterTaken, StepsDown, StaysAsIs, Becomes, TypeOK, Answers, Overdue, Longest, FaultKinds
  <1>3. HolderInv'
    BY <1>1 DEF Answer, AfterFailure, AfterLost, AfterKept, AfterWon, AfterTaken, StepsDown, StaysAsIs, Becomes, TypeOK, HolderInv
  <1>4. RoleInv(p)'
    BY <1>1 DEF Answer, AfterFailure, AfterLost, AfterKept, AfterWon, AfterTaken, StepsDown, StaysAsIs, Becomes, TypeOK, RoleInv, Answers
  <1>5. AgeInv(p)'
    BY <1>1 DEF Answer, AfterFailure, AfterLost, AfterKept, AfterWon, AfterTaken, StepsDown, StaysAsIs, Becomes, TypeOK, RoleInv, AgeInv, Answers, Longest, Overdue
  <1>6. LeftInv(p)'
    BY <1>1 DEF Answer, AfterFailure, AfterLost, AfterKept, AfterWon, AfterTaken, StepsDown, StaysAsIs, Becomes, TypeOK, RoleInv, LeftInv, HolderInv, Answers
  <1>7. ASSUME NEW q \in Procs, q # p
        PROVE  RoleInv(q)' /\ AgeInv(q)' /\ LeftInv(q)'
    <2>1. Same(q)
      BY <1>1, <1>7 DEF Answer, AfterFailure, AfterLost, AfterKept, AfterWon, AfterTaken, StepsDown, StaysAsIs, Becomes, TypeOK, Same
    <2>2. \/ UNCHANGED <<holder, left>>
          \/ holder # {q} /\ holder' # {q}
      BY <1>1, <1>7 DEF Answer, AfterFailure, AfterLost, AfterKept, AfterWon, AfterTaken, StepsDown, StaysAsIs, Becomes
    <2> QED
      BY <2>1, <2>2, OthersKeep
  <1> QED
    BY <1>2, <1>3, <1>4, <1>5, <1>6, <1>7 DEF LeadInv

(* The listeners of an election are done. *)
LEMMA ListenersDoneKeeps ==
  ASSUME LeadInv, NEW p \in Procs, ListenersDone(p)
  PROVE  LeadInv'
  <1>1. TypeOK /\ HolderInv /\ RoleInv(p) /\ AgeInv(p) /\ LeftInv(p)
    BY DEF LeadInv
  <1>2. TypeOK'
    BY <1>1 DEF ListenersDone, Becomes, TypeOK, Answers, Overdue, Longest, FaultKinds
  <1>3. HolderInv'
    BY <1>1 DEF ListenersDone, Becomes, TypeOK, HolderInv
  <1>4. RoleInv(p)'
    BY <1>1 DEF ListenersDone, Becomes, TypeOK, RoleInv, Answers
  <1>5. AgeInv(p)'
    BY <1>1 DEF ListenersDone, Becomes, TypeOK, RoleInv, AgeInv, Answers, Longest, Overdue
  <1>6. LeftInv(p)'
    BY <1>1 DEF ListenersDone, Becomes, TypeOK, RoleInv, LeftInv, HolderInv, Answers
  <1>7. ASSUME NEW q \in Procs, q # p
        PROVE  RoleInv(q)' /\ AgeInv(q)' /\ LeftInv(q)'
    <2>1. Same(q)
      BY <1>1, <1>7 DEF ListenersDone, Becomes, TypeOK, Same
    <2>2. \/ UNCHANGED <<holder, left>>
          \/ holder # {q} /\ holder' # {q}
      BY <1>1, <1>7 DEF ListenersDone, Becomes
    <2> QED
      BY <2>1, <2>2, OthersKeep
  <1> QED
    BY <1>2, <1>3, <1>4, <1>5, <1>6, <1>7 DEF LeadInv

(* The way to Redis comes and goes. *)
LEMMA LinkKeeps ==
  ASSUME LeadInv, NEW p \in Procs, LinkDown(p) \/ LinkUp(p)
  PROVE  LeadInv'
  <1>1. TypeOK /\ HolderInv /\ RoleInv(p) /\ AgeInv(p) /\ LeftInv(p)
    BY DEF LeadInv
  <1>2. TypeOK'
    BY <1>1 DEF LinkDown, LinkUp, Spend, TypeOK, Answers, Overdue, Longest, FaultKinds
  <1>3. HolderInv'
    BY <1>1 DEF LinkDown, LinkUp, Spend, TypeOK, HolderInv
  <1>4. RoleInv(p)'
    BY <1>1 DEF LinkDown, LinkUp, Spend, TypeOK, RoleInv, Answers
  <1>5. AgeInv(p)'
    BY <1>1 DEF LinkDown, LinkUp, Spend, TypeOK, RoleInv, AgeInv, Answers, Longest, Overdue
  <1>6. LeftInv(p)'
    BY <1>1 DEF LinkDown, LinkUp, Spend, TypeOK, RoleInv, LeftInv, HolderInv, Answers
  <1>7. ASSUME NEW q \in Procs, q # p
        PROVE  RoleInv(q)' /\ AgeInv(q)' /\ LeftInv(q)'
    <2>1. Same(q)
      BY <1>1, <1>7 DEF LinkDown, LinkUp, Spend, TypeOK, Same
    <2>2. \/ UNCHANGED <<holder, left>>
          \/ holder # {q} /\ holder' # {q}
      BY <1>1, <1>7 DEF LinkDown, LinkUp, Spend
    <2> QED
      BY <2>1, <2>2, OthersKeep
  <1> QED
    BY <1>2, <1>3, <1>4, <1>5, <1>6, <1>7 DEF LeadInv

(* A process dies. *)
LEMMA CrashKeeps ==
  ASSUME LeadInv, NEW p \in Procs, Crash(p)
  PROVE  LeadInv'
  <1>1. TypeOK /\ HolderInv /\ RoleInv(p) /\ AgeInv(p) /\ LeftInv(p)
    BY DEF LeadInv
  <1>2. TypeOK'
    BY <1>1 DEF Crash, Silent, Becomes, Spend, TypeOK, Answers, Overdue, Longest, FaultKinds
  <1>3. HolderInv'
    BY <1>1 DEF Crash, Silent, Becomes, Spend, TypeOK, HolderInv
  <1>4. RoleInv(p)'
    BY <1>1 DEF Crash, Silent, Becomes, Spend, TypeOK, RoleInv, Answers
  <1>5. AgeInv(p)'
    BY <1>1 DEF Crash, Silent, Becomes, Spend, TypeOK, RoleInv, AgeInv, Answers, Longest, Overdue
  <1>6. LeftInv(p)'
    BY <1>1 DEF Crash, Silent, Becomes, Spend, TypeOK, RoleInv, LeftInv, HolderInv, Answers
  <1>7. ASSUME NEW q \in Procs, q # p
        PROVE  RoleInv(q)' /\ AgeInv(q)' /\ LeftInv(q)'
    <2>1. Same(q)
      BY <1>1, <1>7 DEF Crash, Silent, Becomes, Spend, TypeOK, Same
    <2>2. \/ UNCHANGED <<holder, left>>
          \/ holder # {q} /\ holder' # {q}
      BY <1>1, <1>7 DEF Crash, Silent, Becomes, Spend
    <2> QED
      BY <2>1, <2>2, OthersKeep
  <1> QED
    BY <1>2, <1>3, <1>4, <1>5, <1>6, <1>7 DEF LeadInv

(* A process shuts down and hands its lease over. *)
LEMMA ShutdownKeeps ==
  ASSUME LeadInv, NEW p \in Procs, Shutdown(p)
  PROVE  LeadInv'
  <1>1. TypeOK /\ HolderInv /\ RoleInv(p) /\ AgeInv(p) /\ LeftInv(p)
    BY DEF LeadInv
  <1>2. TypeOK'
    BY <1>1 DEF Shutdown, Silent, Becomes, Spend, TypeOK, Answers, Overdue, Longest, FaultKinds
  <1>3. HolderInv'
    BY <1>1 DEF Shutdown, Silent, Becomes, Spend, TypeOK, HolderInv
  <1>4. RoleInv(p)'
    BY <1>1 DEF Shutdown, Silent, Becomes, Spend, TypeOK, RoleInv, Answers
  <1>5. AgeInv(p)'
    BY <1>1 DEF Shutdown, Silent, Becomes, Spend, TypeOK, RoleInv, AgeInv, Answers, Longest, Overdue
  <1>6. LeftInv(p)'
    BY <1>1 DEF Shutdown, Silent, Becomes, Spend, TypeOK, RoleInv, LeftInv, HolderInv, Answers
  <1>7. ASSUME NEW q \in Procs, q # p
        PROVE  RoleInv(q)' /\ AgeInv(q)' /\ LeftInv(q)'
    <2>1. Same(q)
      BY <1>1, <1>7 DEF Shutdown, Silent, Becomes, Spend, TypeOK, Same
    <2>2. \/ UNCHANGED <<holder, left>>
          \/ holder # {q} /\ holder' # {q}
      BY <1>1, <1>7 DEF Shutdown, Silent, Becomes, Spend
    <2> QED
      BY <2>1, <2>2, OthersKeep
  <1> QED
    BY <1>2, <1>3, <1>4, <1>5, <1>6, <1>7 DEF LeadInv

(* A process starts. *)
LEMMA BootKeeps ==
  ASSUME LeadInv, NEW p \in Procs, Boot(p)
  PROVE  LeadInv'
  <1>1. TypeOK /\ HolderInv /\ RoleInv(p) /\ AgeInv(p) /\ LeftInv(p)
    BY DEF LeadInv
  <1>2. TypeOK'
    BY <1>1 DEF Boot, TypeOK, Answers, Overdue, Longest, FaultKinds
  <1>3. HolderInv'
    BY <1>1 DEF Boot, TypeOK, HolderInv
  <1>4. RoleInv(p)'
    BY <1>1 DEF Boot, TypeOK, RoleInv, Answers
  <1>5. AgeInv(p)'
    BY <1>1 DEF Boot, TypeOK, RoleInv, AgeInv, Answers, Longest, Overdue
  <1>6. LeftInv(p)'
    BY <1>1 DEF Boot, TypeOK, RoleInv, LeftInv, HolderInv, Answers
  <1>7. ASSUME NEW q \in Procs, q # p
        PROVE  RoleInv(q)' /\ AgeInv(q)' /\ LeftInv(q)'
    <2>1. Same(q)
      BY <1>1, <1>7 DEF Boot, TypeOK, Same
    <2>2. \/ UNCHANGED <<holder, left>>
          \/ holder # {q} /\ holder' # {q}
      BY <1>1, <1>7 DEF Boot
    <2> QED
      BY <2>1, <2>2, OthersKeep
  <1> QED
    BY <1>2, <1>3, <1>4, <1>5, <1>6, <1>7 DEF LeadInv

(* Time passes for everybody: nobody is later than InTime allows. *)
LEMMA PassKeeps ==
  ASSUME LeadInv, Pass
  PROVE  LeadInv'
  <1>1. TypeOK /\ HolderInv /\ \A p \in Procs : RoleInv(p) /\ AgeInv(p) /\ LeftInv(p)
    BY DEF LeadInv
  <1>2. ASSUME NEW p \in Procs PROVE waited'[p] \in 0 .. AnswerTime + ListenTime
    BY <1>1 DEF Pass, InTime, TypeOK, RoleInv
  <1>3. TypeOK'
    <2>1. waited' \in [Procs -> 0 .. AnswerTime + ListenTime]
      BY <1>2 DEF Pass
    <2>2. age' \in [Procs -> 0 .. Overdue + 1]
      BY <1>1 DEF Pass, TypeOK, Overdue, Longest
    <2>3. left' \in 0 .. Ttl /\ holder' \in SUBSET Procs
      BY <1>1 DEF Pass, TypeOK
    <2> QED
      BY <1>1, <2>1, <2>2, <2>3 DEF Pass, TypeOK
  <1>4. HolderInv'
    BY <1>1 DEF Pass, TypeOK, HolderInv
  <1>5. ASSUME NEW p \in Procs PROVE RoleInv(p)' /\ AgeInv(p)' /\ LeftInv(p)'
    <2>1. RoleInv(p) /\ AgeInv(p) /\ LeftInv(p) /\ InTime(p)
      BY <1>1 DEF Pass
    <2>2. RoleInv(p)'
      BY <1>1, <2>1 DEF Pass, InTime, TypeOK, RoleInv, Answers
    <2>3. AgeInv(p)'
      BY <1>1, <2>1 DEF Pass, InTime, TypeOK, RoleInv, AgeInv, Answers, Longest, Overdue
    <2>4. p \in leader => age[p] <= Overdue
      BY <1>1, <2>1 DEF TypeOK, RoleInv, AgeInv, Answers, Longest, Overdue
    <2>5. LeftInv(p)'
      BY <1>1, <2>1, <2>4 DEF Pass, InTime, TypeOK, RoleInv, LeftInv, HolderInv, Answers
    <2> QED
      BY <2>2, <2>3, <2>5
  <1> QED
    BY <1>3, <1>4, <1>5 DEF LeadInv

(* LeadInv is kept by every step. *)
LEMMA NextLead == LeadInv /\ [Next]_vars => LeadInv'
  <1> SUFFICES ASSUME LeadInv, [Next]_vars PROVE LeadInv'
    OBVIOUS
  <1>1. CASE Pass
    BY <1>1, PassKeeps
  <1>2. ASSUME NEW p \in Procs, Step(p) PROVE LeadInv'
    BY <1>2, BeatKeeps, BeatFailsKeeps, AnswerLostKeeps, AnswerKeeps, ListenersDoneKeeps,
       LinkKeeps, CrashKeeps, ShutdownKeeps, BootKeeps DEF Step
  <1>3. CASE UNCHANGED vars
    BY <1>3 DEF vars, LeadInv, TypeOK, HolderInv, RoleInv, AgeInv, LeftInv
  <1> QED
    BY <1>1, <1>2, <1>3 DEF Next

(* The invariant of the election, for all times and any number of processes. *)
THEOREM LeadershipInvariant == Spec => []LeadInv
  BY InitLead, NextLead, PTL DEF Spec

(* A leader that hears nothing from Redis stops leading at the latest when its
   lease, the longest work on being elected and one answer's time are over:
   the fence in heartbeat works whatever the order of timers and failures. *)
THEOREM LeaderFences == Spec => []FencesInTime
  <1>1. ASSUME LeadInv, NEW p \in leader PROVE age[p] <= Overdue
    <2>1. p \in Procs /\ TypeOK /\ RoleInv(p) /\ AgeInv(p)
      BY <1>1 DEF LeadInv, TypeOK
    <2> QED
      BY <1>1, <2>1 DEF TypeOK, RoleInv, AgeInv, Answers, Longest, Overdue
  <1>2. LeadInv => FencesInTime
    BY <1>1 DEF FencesInTime
  <1> QED
    BY <1>2, LeadershipInvariant, PTL

(* Of two leaders one has not heard from Redis for a lease's time, less the
   time an answer takes. *)
THEOREM RivalsAreOld == Spec => []NoYoungRivals
  <1>1. LeadInv => NoYoungRivals
    BY DEF LeadInv, TypeOK, LeftInv, NoYoungRivals
  <1> QED
    BY <1>1, LeadershipInvariant, PTL

-----------------------------------------------------------------------------
(* the refinement *)

(* who leads in Lease: a leader, or a process whose answer is on its way *)
Lead == leader \union {p \in Procs : call[p] = "won"}

(* Nothing that Lease sees has changed. *)
LEMMA Unseen ==
  ASSUME UNCHANGED <<holder, Lead>>
  PROVE  [L!LeaseNext]_(L!leaseVars)
  BY DEF Lead, L!leaseVars

(* A process leads no longer. *)
LEMMA SteppedDown ==
  ASSUME NEW p \in Procs, UNCHANGED holder, p \in Lead, Lead' = Lead \ {p}
  PROVE  [L!LeaseNext]_(L!leaseVars)
  BY DEF Lead, L!LeaseNext, L!StepDown

(* Every step of the election is a step of Lease or none. *)
LEMMA NextLease == LeadInv /\ [Next]_vars => [L!LeaseNext]_(L!leaseVars)
  <1> SUFFICES ASSUME LeadInv, [Next]_vars PROVE [L!LeaseNext]_(L!leaseVars)
    OBVIOUS
  <1>1. CASE UNCHANGED vars
    BY <1>1, Unseen DEF vars, Lead
  <1>2. CASE Pass
    <2>1. Lead' = Lead
      BY <1>2 DEF Pass, Lead
    <2>2. CASE holder' = holder
      BY <2>1, <2>2, Unseen
    <2>3. CASE holder' # holder
      BY <1>2, <2>1, <2>3 DEF Pass, Lead, L!LeaseNext, L!Lapse
    <2> QED
      BY <2>2, <2>3
  <1>3. ASSUME NEW p \in Procs, Step(p) PROVE [L!LeaseNext]_(L!leaseVars)
    <2>1. TypeOK /\ RoleInv(p)
      BY DEF LeadInv
    <2>2. CASE Beat(p)
      <3>1. CASE holder = {} /\ Campaign(p)
        <4>1. p \notin Lead /\ Lead' = Lead \union {p} /\ holder' = {p}
          BY <2>1, <2>2, <3>1 DEF Beat, BeatOf, Campaign, Becomes, Lead, TypeOK
        <4> QED
          BY <3>1, <4>1 DEF Lead, L!LeaseNext, L!Take
      <3>2. CASE ~(holder = {} /\ Campaign(p))
        <4>1. UNCHANGED <<holder, Lead>>
          BY <2>1, <2>2, <3>2 DEF Beat, BeatOf, Renew, Campaign, Becomes, Lead, TypeOK
        <4> QED
          BY <4>1, Unseen
      <3> QED
        BY <3>1, <3>2
    <2>3. CASE BeatFails(p)
      <3>1. UNCHANGED <<holder, Lead>>
        BY <2>1, <2>3 DEF BeatFails, BeatOf, Becomes, Lead, TypeOK
      <3> QED
        BY <3>1, Unseen
    <2>4. CASE AnswerLost(p)
      <3>1. CASE call[p] = "won"
        <4>1. UNCHANGED holder /\ p \in Lead /\ Lead' = Lead \ {p}
          BY <2>1, <2>4, <3>1 DEF AnswerLost, Lead, TypeOK, RoleInv
        <4> QED
          BY <4>1, SteppedDown
      <3>2. CASE call[p] # "won"
        <4>1. UNCHANGED <<holder, Lead>>
          BY <2>1, <2>4, <3>2 DEF AnswerLost, Lead, TypeOK
        <4> QED
          BY <4>1, Unseen
      <3> QED
        BY <3>1, <3>2
    <2>5. CASE Answer(p)
      <3>1. CASE p \in leader /\ p \notin leader'
        <4>1. UNCHANGED holder /\ p \in Lead /\ Lead' = Lead \ {p}
          BY <2>1, <2>5, <3>1 DEF Answer, AfterFailure, AfterLost, AfterKept, AfterWon, AfterTaken,
             StepsDown, StaysAsIs, Becomes, Lead, TypeOK, RoleInv
        <4> QED
          BY <4>1, SteppedDown
      <3>2. CASE ~(p \in leader /\ p \notin leader')
        <4>1. UNCHANGED <<holder, Lead>>
          BY <2>1, <2>5, <3>2 DEF Answer, AfterFailure, AfterLost, AfterKept, AfterWon, AfterTaken,
             StepsDown, StaysAsIs, Becomes, Lead, TypeOK, RoleInv
        <4> QED
          BY <4>1, Unseen
      <3> QED
        BY <3>1, <3>2
    <2>6. CASE ListenersDone(p) \/ LinkDown(p) \/ LinkUp(p) \/ Boot(p)
      <3>1. UNCHANGED <<holder, Lead>>
        BY <2>1, <2>6 DEF ListenersDone, LinkDown, LinkUp, Boot, Becomes, Lead, TypeOK
      <3> QED
        BY <3>1, Unseen
    <2>7. CASE Crash(p) \/ Shutdown(p)
      <3>1. Lead' = Lead \ {p}
        BY <2>1, <2>7 DEF Crash, Shutdown, Silent, Becomes, Lead, TypeOK
      <3>2. CASE holder' = holder
        <4>1. CASE p \in Lead
          BY <3>1, <3>2, <4>1, SteppedDown
        <4>2. CASE p \notin Lead
          BY <3>1, <3>2, <4>2, Unseen
        <4> QED
          BY <4>1, <4>2
      <3>3. CASE holder' # holder
        <4>1. holder = {p} /\ holder' = {}
          BY <2>7, <3>3 DEF Crash, Shutdown
        <4> QED
          BY <3>1, <4>1 DEF Lead, L!LeaseNext, L!Release
      <3> QED
        BY <3>2, <3>3
    <2> QED
      BY <1>3, <2>2, <2>3, <2>4, <2>5, <2>6, <2>7 DEF Step
  <1> QED
    BY <1>1, <1>2, <1>3 DEF Next

(* The election implements Lease: a process leads only because Redis gave it
   the key while nobody owned it, and nothing is taken from an owner that
   still has it.  Lifecycle is built on this. *)
THEOREM LeaseImplemented == Spec => LeaseKept
  <1>1. Init => L!LeaseInit
    BY DEF Init, L!LeaseInit
  <1> QED
    BY <1>1, NextLease, LeadershipInvariant, PTL DEF Spec, LeaseKept, L!LeaseSpec
=============================================================================
