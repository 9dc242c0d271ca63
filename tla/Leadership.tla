---------------------------- MODULE Leadership ----------------------------
(***************************************************************************)
(* common/instance.service.ts: several API processes, one lease in Redis.  *)
(* A process renews the lease, or tries for it, on every beat of a timer   *)
(* that fires three times per lease.  A leader whose beats keep failing    *)
(* stops leading once the lease must have run out.                         *)
(*                                                                         *)
(* Time passes in beats.  A beat's command reaches Redis at one moment and *)
(* its answer comes back up to AnswerTime later, or never (the command     *)
(* then fails).  What a process does on being elected or demoted (opening  *)
(* or closing the streams) is waited for by the chain of beats, and takes  *)
(* up to ListenTime.                                                       *)
(***************************************************************************)
EXTENDS Naturals

CONSTANTS
  Procs,        \* the API processes
  Ttl,          \* how long a lease lasts, in beats (the code: 3)
  AnswerTime,   \* the longest a command to Redis takes to answer or fail
  ListenTime,   \* the longest the listeners of an election take
  Budgets       \* how often each kind of fault may happen

FaultKinds == {"link", "answer", "crash", "shutdown"}

ASSUME TimesAssumption ==
  /\ Ttl \in Nat \ {0} /\ AnswerTime \in Nat /\ ListenTime \in Nat
  /\ AnswerTime < Ttl
ASSUME BudgetsAssumption == Budgets \in [FaultKinds -> Nat]

VARIABLES
  holder,   \* the process the key names: a set of at most one
  left,     \* how long the key still lives
  up,       \* the processes that run
  link,     \* the processes that reach Redis
  leader,   \* InstanceService.leader
  age,      \* Date.now() - leaseSeenAt
  due,      \* the processes whose timer has fired and whose beat has not run
  call,     \* what has become of the beat that is running
  waited,   \* for how long that has been going on
  budget

vars == <<holder, left, up, link, leader, age, due, call, waited, budget>>

(* a beat's command is answered, or fails; then the listeners may run *)
Answers == {"kept", "lost", "won", "taken", "failed"}
Longest == IF Ttl + 1 < ListenTime THEN ListenTime ELSE Ttl + 1
(* no leader goes longer than this without a word from Redis *)
Overdue == Longest + AnswerTime

TypeOK ==
  /\ holder \in SUBSET Procs /\ left \in 0 .. Ttl
  /\ up \in SUBSET Procs /\ link \in SUBSET Procs /\ leader \in SUBSET Procs
  /\ due \in SUBSET Procs
  /\ age \in [Procs -> 0 .. Overdue + 1]
  /\ call \in [Procs -> Answers \union {"none", "listening"}]
  /\ waited \in [Procs -> 0 .. AnswerTime + ListenTime]
  /\ budget \in [FaultKinds -> Nat]

Init ==
  /\ holder = {} /\ left = 0
  /\ up = Procs /\ link = Procs /\ leader = {} /\ due = Procs
  /\ age = [p \in Procs |-> 0]
  /\ call = [p \in Procs |-> "none"]
  /\ waited = [p \in Procs |-> 0]
  /\ budget = Budgets

Spend(f) == budget[f] > 0 /\ budget' = [budget EXCEPT ![f] = @ - 1]

Becomes(p, c) ==
  /\ call' = [call EXCEPT ![p] = c]
  /\ waited' = [waited EXCEPT ![p] = 0]

-----------------------------------------------------------------------------
(* heartbeat: the command reaches Redis, which carries it out *)

(* Slip: the lease is renewed whoever holds it *)
RenewAny(p) == /\ p \in leader
               /\ holder' = {p} /\ left' = Ttl
               /\ Becomes(p, "kept")

(* RENEW, for a leader: only what is still its own *)
Renew(p) ==
  /\ p \in leader
  /\ IF holder = {p}
     THEN left' = Ttl /\ Becomes(p, "kept")
     ELSE UNCHANGED left /\ Becomes(p, "lost")
  /\ UNCHANGED holder

(* Slip: SET without NX *)
CampaignAnyway(p) ==
  /\ p \notin leader
  /\ holder' = {p} /\ left' = Ttl
  /\ Becomes(p, "won")

(* Slip: SET ... NX without PX, a lease that never runs out *)
CampaignForEver(p) ==
  /\ p \notin leader
  /\ holder' = IF holder = {} THEN {p} ELSE holder
  /\ Becomes(p, IF holder = {} THEN "won" ELSE "taken")
  /\ UNCHANGED left

(* SET ... NX, for everybody else *)
Campaign(p) ==
  /\ p \notin leader
  /\ IF holder = {}
     THEN holder' = {p} /\ left' = Ttl /\ Becomes(p, "won")
     ELSE UNCHANGED <<holder, left>> /\ Becomes(p, "taken")

BeatOf(p) ==
  /\ p \in up /\ p \in due /\ call[p] = "none"
  /\ due' = due \ {p}
  /\ UNCHANGED <<up, link, leader, age>>

Beat(p) ==
  /\ BeatOf(p) /\ p \in link
  /\ Renew(p) \/ Campaign(p)
  /\ UNCHANGED budget

(* no way to Redis: the command fails and has done nothing *)
BeatFails(p) ==
  /\ BeatOf(p) /\ p \notin link
  /\ Becomes(p, "failed")
  /\ UNCHANGED <<holder, left, budget>>

(* Redis has carried it out, and the answer is lost *)
AnswerLost(p) ==
  /\ call[p] \in Answers \ {"failed"}
  /\ Spend("answer")
  /\ call' = [call EXCEPT ![p] = "failed"]
  /\ UNCHANGED <<holder, left, up, link, leader, age, due, waited>>

-----------------------------------------------------------------------------
(* heartbeat: the answer *)

(* stepDown: leads no longer, and then tells the listeners *)
StepsDown(p) ==
  /\ leader' = leader \ {p}
  /\ Becomes(p, "listening")
  /\ UNCHANGED age

StaysAsIs(p) == Becomes(p, "none") /\ UNCHANGED <<leader, age>>

(* Slip: a beat that fails is only logged *)
AfterFailureNoFence(p) == call[p] = "failed" /\ StaysAsIs(p)

(* the catch of heartbeat: a leader fences itself, once the lease is over *)
AfterFailure(p) ==
  /\ call[p] = "failed"
  /\ IF p \in leader /\ age[p] > Ttl THEN StepsDown(p) ELSE StaysAsIs(p)

AfterLost(p) == call[p] = "lost" /\ StepsDown(p)

AfterKept(p) ==
  /\ call[p] = "kept"
  /\ age' = [age EXCEPT ![p] = 0]
  /\ Becomes(p, "none")
  /\ UNCHANGED leader

(* stepUp: leads from now on, and then tells the listeners *)
AfterWon(p) ==
  /\ call[p] = "won"
  /\ leader' = leader \union {p}
  /\ age' = [age EXCEPT ![p] = 0]
  /\ Becomes(p, "listening")

AfterTaken(p) == call[p] = "taken" /\ StaysAsIs(p)

Answer(p) ==
  /\ AfterFailure(p) \/ AfterLost(p) \/ AfterKept(p) \/ AfterWon(p) \/ AfterTaken(p)
  /\ UNCHANGED <<holder, left, up, link, due, budget>>

(* the listeners have done their work: the chain of beats goes on *)
ListenersDone(p) ==
  /\ call[p] = "listening"
  /\ Becomes(p, "none")
  /\ UNCHANGED <<holder, left, up, link, leader, age, due, budget>>

-----------------------------------------------------------------------------
(* time *)

(* a command is answered and listeners are done within their times, and a
   timer that has fired is served as soon as the chain of beats is free *)
InTime(p) ==
  \/ p \notin up
  \/ call[p] = "none" /\ p \notin due
  \/ call[p] \in Answers /\ waited[p] < AnswerTime
  \/ call[p] = "listening" /\ waited[p] < ListenTime

(* one beat's time passes *)
Pass ==
  /\ \A p \in Procs : InTime(p)
  /\ left' = IF left = 0 THEN 0 ELSE left - 1
  /\ holder' = IF left = 1 THEN {} ELSE holder
  /\ age' = [p \in Procs |-> IF age[p] <= Overdue THEN age[p] + 1 ELSE age[p]]
  /\ due' = up
  /\ waited' = [p \in Procs |-> IF call[p] = "none" THEN 0 ELSE waited[p] + 1]
  /\ UNCHANGED <<up, link, leader, call, budget>>

-----------------------------------------------------------------------------
(* what goes wrong, and what is asked of a process *)

Silent(p) ==
  /\ leader' = leader \ {p}
  /\ due' = due \ {p}
  /\ age' = [age EXCEPT ![p] = 0]
  /\ Becomes(p, "none")

LinkDown(p) ==
  /\ p \in link
  /\ Spend("link")
  /\ link' = link \ {p}
  /\ UNCHANGED <<holder, left, up, leader, age, due, call, waited>>

LinkUp(p) ==
  /\ p \notin link
  /\ link' = link \union {p}
  /\ UNCHANGED <<holder, left, up, leader, age, due, call, waited, budget>>

(* the process dies: its lease is left to run out *)
Crash(p) ==
  /\ p \in up
  /\ Spend("crash")
  /\ up' = up \ {p}
  /\ Silent(p)
  /\ UNCHANGED <<holder, left, link>>

(* onModuleDestroy: RELEASE hands the lease over at once *)
Shutdown(p) ==
  /\ p \in up
  /\ Spend("shutdown")
  /\ up' = up \ {p}
  /\ Silent(p)
  /\ IF p \in leader /\ p \in link /\ holder = {p}
     THEN holder' = {} /\ left' = 0
     ELSE UNCHANGED <<holder, left>>
  /\ UNCHANGED link

Boot(p) ==
  /\ p \notin up /\ p \notin holder
  /\ up' = up \union {p}
  /\ due' = due \union {p}
  /\ UNCHANGED <<holder, left, link, leader, age, call, waited, budget>>

-----------------------------------------------------------------------------
Step(p) ==
  \/ Beat(p) \/ BeatFails(p) \/ AnswerLost(p) \/ Answer(p) \/ ListenersDone(p)
  \/ LinkDown(p) \/ LinkUp(p) \/ Crash(p) \/ Shutdown(p) \/ Boot(p)

Next == Pass \/ \E p \in Procs : Step(p)

Spec == Init /\ [][Next]_vars

(* time passes, timers fire, commands are answered one way or the other *)
Fairness ==
  /\ WF_vars(Pass)
  /\ \A p \in Procs : /\ WF_vars(Beat(p) \/ BeatFails(p))
                      /\ WF_vars(Answer(p))
                      /\ WF_vars(ListenersDone(p))
                      /\ WF_vars(LinkUp(p))
                      /\ WF_vars(Boot(p))
FairSpec == Spec /\ Fairness

-----------------------------------------------------------------------------
(* A leader that hears nothing from Redis stops leading: at the latest one
   beat and one answer after its lease (or the work it began on being
   elected, if that took longer) is over.  This is the fence in heartbeat. *)
FencesInTime == \A p \in leader : age[p] <= Overdue

(* Two processes lead at once only when one of them has been without a word
   from Redis for as long as a lease lasts, less the time the answer of its
   last renewal took: an outage shorter than that is not a failover. *)
NoYoungRivals ==
  \A p, q \in leader : p # q =>
     \/ age[p] + AnswerTime >= Ttl
     \/ age[q] + AnswerTime >= Ttl

(* Why these hold.  A lease is somebody's for as long as it lives; a process
   that waits for the answer to a renewal has at most that much less of it; a
   leader knows how much of its lease may be gone. *)
HolderInv ==
  /\ left = 0 <=> holder = {}
  /\ holder = {} \/ \E p \in Procs : holder = {p}

RoleInv(p) ==
  /\ p \notin up => p \notin leader /\ call[p] = "none" /\ p \notin due
  /\ call[p] \in {"kept", "lost"} => p \in leader
  /\ call[p] \in {"won", "taken"} => p \notin leader
  /\ call[p] \in Answers => waited[p] <= AnswerTime
  /\ call[p] = "listening" => waited[p] <= ListenTime /\ (p \notin due => waited[p] = 0)

AgeInv(p) ==
  p \in leader =>
    /\ call[p] = "none" => age[p] <= (IF p \in due THEN Longest ELSE Ttl)
    /\ call[p] \in Answers => age[p] <= Longest + waited[p]
    /\ call[p] = "listening" => age[p] <= waited[p]

LeftInv(p) ==
  /\ call[p] \in {"kept", "won"} => holder = {p} /\ Ttl <= left + waited[p]
  /\ p \in leader /\ holder = {p} => Ttl <= left + age[p] + AnswerTime
  /\ p \in leader /\ holder # {p} => Ttl <= age[p] + AnswerTime

LeadInv == TypeOK /\ HolderInv /\ \A p \in Procs : RoleInv(p) /\ AgeInv(p) /\ LeftInv(p)

(* There is always going to be a leader: one that dies, hangs or shuts down
   is replaced. *)
TakesOver == (leader = {}) ~> (leader # {})

(* What Lease promises to the rest of the system.  A process counts as
   leading from the moment Redis gave it the key. *)
L == INSTANCE Lease WITH
       owner <- holder,
       lead <- leader \union {p \in Procs : call[p] = "won"}
LeaseKept == L!LeaseSpec
=============================================================================
