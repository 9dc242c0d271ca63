----------------------------- MODULE Lifecycle -----------------------------
(***************************************************************************)
(* Who reads a live bridge: bridge-cdc.service.ts (start, stop, teardown,  *)
(* beginStream, the reconciler) in several API processes that agree on a   *)
(* leader (Lease).  One bridge; what its stream does with the changes is   *)
(* CdcPipeline's matter, and here a stream is only being opened, live or   *)
(* closed.                                                                 *)
(*                                                                         *)
(* Every await is a step of its own: a start, a resume and the teardowns   *)
(* of a process interleave, and so do the processes.  The streams map of a *)
(* process holds at most one stream of the bridge (entry); streams that    *)
(* were taken out of it, or overwritten in it, may still be alive.         *)
(***************************************************************************)
EXTENDS Lease, Naturals

CONSTANTS
  MaxStreams,   \* streams of the bridge a process can hold at once
  Budgets       \* what users may ask for and what may go wrong, and how often

Streams == 1 .. MaxStreams
Openers == {"start", "resume"}
Tearers == {"stop", "down", "remote"}
Kinds == {"start", "stop", "fault"}

ASSUME LifecycleAssumption ==
  MaxStreams \in Nat \ {0} /\ Budgets \in [Kinds -> Nat]

VARIABLES
  job,      \* the status of the bridge's job row
  entry,    \* BridgeCdcService.streams.get(bridgeId); 0 for none
  stream,   \* what has become of each stream of each process
  open,     \* a start and a resume that are under way, per process
  tear,     \* the teardowns that are under way, per process
  ask,      \* a stop that waits for the leader's answer: who has it in hand
  budget

vars == <<owner, lead, job, entry, stream, open, tear, ask, budget>>

Idle == [pc |-> "idle", sid |-> 0]
At(pc, sid) == [pc |-> pc, sid |-> sid]

TypeOK ==
  /\ owner \in SUBSET Procs /\ lead \in SUBSET Procs
  /\ job \in {"paused", "running", "failed"}
  /\ entry \in [Procs -> 0 .. MaxStreams]
  /\ stream \in [Procs -> [Streams -> {"none", "opening", "live"}]]
  /\ open \in [Procs -> [Openers ->
        [pc : {"idle", "checked", "begin", "gate", "opening"}, sid : 0 .. MaxStreams]]]
  /\ tear \in [Procs -> [Tearers ->
        [pc : {"idle", "settling", "draining", "asked", "final"}, sid : 0 .. MaxStreams]]]
  /\ ask \in [Procs -> {"none", "sent", "lost", "answered"} \union Procs]
  /\ budget \in [Kinds -> Nat]

Init ==
  /\ LeaseInit
  /\ job = "paused"
  /\ entry = [p \in Procs |-> 0]
  /\ stream = [p \in Procs |-> [i \in Streams |-> "none"]]
  /\ open = [p \in Procs |-> [w \in Openers |-> Idle]]
  /\ tear = [p \in Procs |-> [w \in Tearers |-> Idle]]
  /\ ask = [p \in Procs |-> "none"]
  /\ budget = Budgets

Spend(k) == budget[k] > 0 /\ budget' = [budget EXCEPT ![k] = @ - 1]

OpenTo(p, w, pc, sid) == open' = [open EXCEPT ![p][w] = At(pc, sid)]
TearTo(p, w, pc, sid) == tear' = [tear EXCEPT ![p][w] = At(pc, sid)]
Opening(p, w, pc) == open[p][w].pc = pc
Tearing(p, w, pc) == tear[p][w].pc = pc

(* a stream nobody of this process has anything to do with any more *)
Unused(p, i) ==
  /\ stream[p][i] = "none" /\ entry[p] # i
  /\ \A w \in Openers : open[p][w].sid # i
  /\ \A w \in Tearers : tear[p][w].sid # i

(* the stream the process has registered is up *)
Reads(p) == entry[p] # 0 /\ stream[p][entry[p]] = "live"

-----------------------------------------------------------------------------
(* start, asked of any process *)

(* start: no job is active, and somebody leads *)
StartCheck(p) ==
  /\ Opening(p, "start", "idle") /\ job # "running"
  /\ lead # {}
  /\ Spend("start")
  /\ OpenTo(p, "start", "checked", 0)
  /\ UNCHANGED <<leaseVars, job, entry, stream, tear, ask>>

(* startVia: not ready, position lost, the schema drifted, not provisioned *)
StartRefused(p) ==
  /\ Opening(p, "start", "checked")
  /\ Spend("fault")
  /\ OpenTo(p, "start", "idle", 0)
  /\ UNCHANGED <<leaseVars, job, entry, stream, tear, ask>>

(* beginForAnother, in the leader another process has asked: one that reads
   the bridge, or is about to, has nothing to do *)
BeginsFor(q) == entry[q] = 0 /\ Opening(q, "resume", "idle")

(* startVia: the job is marked; this process, or the leader, begins *)
StartMark(p) ==
  /\ Opening(p, "start", "checked")
  /\ job' = "running"
  /\ IF p \in lead
     THEN OpenTo(p, "start", "begin", 0)
     ELSE \/ OpenTo(p, "start", "idle", 0)
          \/ \E q \in lead : /\ BeginsFor(q)
                             /\ open' = [open EXCEPT ![p]["start"] = Idle,
                                                     ![q]["resume"] = At("begin", 0)]
  /\ UNCHANGED <<leaseVars, entry, stream, tear, ask, budget>>

-----------------------------------------------------------------------------
(* the reconciler, and an election: a job marked running that nobody reads *)

(* Slip: only an election looks for jobs to resume *)
ResumeFindOnce(p) ==
  /\ p \in lead /\ job = "running" /\ FALSE
  /\ UNCHANGED vars

(* resumeAll up to the awaits of resumeJobNow *)
ResumeFind(p) ==
  /\ p \in lead /\ job = "running"
  /\ entry[p] = 0 /\ Opening(p, "resume", "idle")
  /\ OpenTo(p, "resume", "begin", 0)
  /\ UNCHANGED <<leaseVars, job, entry, stream, tear, ask, budget>>

(* resumeJobNow: its position is lost, or the bridge is refused *)
ResumeRefused(p) ==
  /\ Opening(p, "resume", "begin")
  /\ Spend("fault")
  /\ job' = "failed"
  /\ OpenTo(p, "resume", "idle", 0)
  /\ UNCHANGED <<leaseVars, entry, stream, tear, ask>>

-----------------------------------------------------------------------------
(* beginStream *)

(* the two checks, before the primary key is resolved *)
Gate(p, w) ==
  /\ Opening(p, w, "begin")
  /\ IF p \in lead /\ entry[p] = 0
     THEN OpenTo(p, w, "gate", 0)
     ELSE OpenTo(p, w, "idle", 0)
  /\ UNCHANGED <<leaseVars, job, entry, stream, tear, ask, budget>>

(* the stream is registered, and the provider starts it *)
Register(p, w) ==
  /\ Opening(p, w, "gate")
  /\ \E i \in Streams :
        /\ Unused(p, i) /\ \A j \in 1 .. i - 1 : ~Unused(p, j)
        /\ entry' = [entry EXCEPT ![p] = i]
        /\ stream' = [stream EXCEPT ![p][i] = "opening"]
        /\ OpenTo(p, w, "opening", i)
  /\ UNCHANGED <<leaseVars, job, tear, ask, budget>>

(* startStream returned: kept, unless the stream is no longer registered *)
Opened(p, w) ==
  /\ Opening(p, w, "opening")
  /\ LET i == open[p][w].sid IN
     stream' = [stream EXCEPT ![p][i] = IF entry[p] = i THEN "live" ELSE "none"]
  /\ OpenTo(p, w, "idle", 0)
  /\ UNCHANGED <<leaseVars, job, entry, tear, ask, budget>>

(* startStream threw: the placeholder goes and the job has failed *)
OpenFails(p, w) ==
  /\ Opening(p, w, "opening")
  /\ Spend("fault")
  /\ LET i == open[p][w].sid IN
     /\ entry' = [entry EXCEPT ![p] = IF @ = i THEN 0 ELSE @]
     /\ stream' = [stream EXCEPT ![p][i] = "none"]
  /\ job' = "failed"
  /\ OpenTo(p, w, "idle", 0)
  /\ UNCHANGED <<leaseVars, tear, ask>>

-----------------------------------------------------------------------------
(* teardown: for a stop, for a process that leads no longer, for another *)

TearStart(p, w) == TearTo(p, w, "settling", entry[p])

(* the chain has settled: the entry goes, whatever it is by now *)
TearDrop(p, w) ==
  /\ Tearing(p, w, "settling")
  /\ entry' = [entry EXCEPT ![p] = 0]
  /\ TearTo(p, w, "draining", tear[p][w].sid)
  /\ UNCHANGED <<leaseVars, job, stream, open, ask, budget>>

(* the delivery in flight has ended: the handle is stopped *)
TearEnd(p, w) ==
  /\ Tearing(p, w, "draining")
  /\ LET i == tear[p][w].sid IN
     stream' = [stream EXCEPT ![p][i] = IF @ = "live" THEN "none" ELSE @]
  /\ TearTo(p, w, IF w = "stop" THEN "final" ELSE "idle", 0)
  /\ ask' = [q \in Procs |-> IF w = "remote" /\ ask[q] = p THEN "answered" ELSE ask[q]]
  /\ UNCHANGED <<leaseVars, job, entry, open, budget>>

(* Slip: the reconciler does not look at a process that does not lead *)
StandDownNever(p) == FALSE /\ UNCHANGED vars

(* standDown: a process that does not lead reads nothing *)
StandDown(p) ==
  /\ p \notin lead /\ entry[p] # 0
  /\ Tearing(p, "down", "idle")
  /\ TearStart(p, "down")
  /\ UNCHANGED <<leaseVars, job, entry, stream, open, ask, budget>>

-----------------------------------------------------------------------------
(* stop, asked of any process *)

(* read here: torn down here.  read there: the leader is asked to *)
Stop(p) ==
  /\ Tearing(p, "stop", "idle")
  /\ Spend("stop")
  /\ IF entry[p] # 0
     THEN TearStart(p, "stop") /\ UNCHANGED ask
     ELSE IF p \notin lead /\ job = "running"
     THEN TearTo(p, "stop", "asked", 0) /\ ask' = [ask EXCEPT ![p] = "sent"]
     ELSE TearTo(p, "stop", "final", 0) /\ UNCHANGED ask
  /\ UNCHANGED <<leaseVars, job, entry, stream, open>>

(* receive, in a leader: teardown for another process *)
RemoteTeardown(q, p) ==
  /\ ask[p] = "sent" /\ q \in lead /\ q # p
  /\ IF entry[q] = 0
     THEN ask' = [ask EXCEPT ![p] = "answered"] /\ UNCHANGED tear
     ELSE /\ Tearing(q, "remote", "idle")
          /\ TearStart(q, "remote")
          /\ ask' = [ask EXCEPT ![p] = q]
  /\ UNCHANGED <<leaseVars, job, entry, stream, open, budget>>

(* Slip: nobody gives up waiting for the leader *)
AskOverWaits(p) ==
  /\ Tearing(p, "stop", "asked") /\ ask[p] = "answered"
  /\ ask' = [ask EXCEPT ![p] = "none"]
  /\ TearTo(p, "stop", "final", 0)
  /\ UNCHANGED <<leaseVars, job, entry, stream, open, budget>>

(* askLeader returns: with the answer, or because nobody answered in time *)
AskOver(p) ==
  /\ Tearing(p, "stop", "asked")
  /\ ask' = [ask EXCEPT ![p] = "none"]
  /\ TearTo(p, "stop", "final", 0)
  /\ UNCHANGED <<leaseVars, job, entry, stream, open, budget>>

(* stop: the job is paused *)
StopFinal(p) ==
  /\ Tearing(p, "stop", "final")
  /\ job' = IF job = "running" THEN "paused" ELSE job
  /\ TearTo(p, "stop", "idle", 0)
  /\ UNCHANGED <<leaseVars, entry, stream, open, ask, budget>>

-----------------------------------------------------------------------------
(* processes and their lead *)

Elected(p) ==
  /\ Take(p) /\ p \in lead'
  /\ UNCHANGED <<job, entry, stream, open, tear, ask, budget>>

(* the key is taken and the answer lost *)
ElectedUnheard(p) ==
  /\ Take(p) /\ p \notin lead'
  /\ Spend("fault")
  /\ UNCHANGED <<job, entry, stream, open, tear, ask>>

(* stepDown: the lease is gone, or could not be renewed *)
Demoted(p) ==
  /\ StepDown(p) /\ owner # {p}
  /\ UNCHANGED <<job, entry, stream, open, tear, ask, budget>>

(* the lease of a leader that cannot renew it runs out under it *)
LosesLease ==
  /\ Lapse /\ owner \subseteq lead
  /\ Spend("fault")
  /\ UNCHANGED <<job, entry, stream, open, tear, ask>>

(* and that of a process that has gone, or never heard it has it *)
LeaseRunsOut ==
  /\ Lapse /\ ~(owner \subseteq lead)
  /\ UNCHANGED <<job, entry, stream, open, tear, ask, budget>>

(* a process dies and comes back; only the job and the lease outlive it *)
Crash(p) ==
  /\ Spend("fault")
  /\ lead' = lead \ {p}
  /\ entry' = [entry EXCEPT ![p] = 0]
  /\ stream' = [stream EXCEPT ![p] = [i \in Streams |-> "none"]]
  /\ open' = [open EXCEPT ![p] = [w \in Openers |-> Idle]]
  /\ tear' = [tear EXCEPT ![p] = [w \in Tearers |-> Idle]]
  /\ ask' = [q \in Procs |-> IF q = p THEN "none"
                             ELSE IF ask[q] = p THEN "lost" ELSE ask[q]]
  /\ UNCHANGED <<owner, job>>

-----------------------------------------------------------------------------
Opens(p, w) == Gate(p, w) \/ Register(p, w) \/ Opened(p, w)
Tears(p, w) == TearDrop(p, w) \/ TearEnd(p, w)

Step(p) ==
  \/ StartCheck(p) \/ StartRefused(p) \/ StartMark(p)
  \/ ResumeFind(p) \/ ResumeRefused(p)
  \/ \E w \in Openers : Opens(p, w) \/ OpenFails(p, w)
  \/ \E w \in Tearers : Tears(p, w)
  \/ StandDown(p) \/ Stop(p) \/ AskOver(p) \/ StopFinal(p)
  \/ \E q \in Procs : RemoteTeardown(q, p)
  \/ Elected(p) \/ ElectedUnheard(p) \/ Demoted(p) \/ Crash(p)

Next == LosesLease \/ LeaseRunsOut \/ \E p \in Procs : Step(p)

Spec == Init /\ [][Next]_vars

(* what was begun goes on, the timers of the reconciler and of a request
   fire, a lease nobody renews runs out and is taken *)
Fairness ==
  /\ WF_vars(LeaseRunsOut)
  /\ \A p \in Procs :
       /\ WF_vars(StartMark(p)) /\ WF_vars(ResumeFind(p))
       /\ \A w \in Openers : WF_vars(Opens(p, w))
       /\ \A w \in Tearers : WF_vars(Tears(p, w))
       /\ WF_vars(StandDown(p)) /\ WF_vars(AskOver(p)) /\ WF_vars(StopFinal(p))
       /\ WF_vars(Elected(p)) /\ WF_vars(Demoted(p))
FairSpec == Spec /\ Fairness

-----------------------------------------------------------------------------

(* A bridge marked running is read: by a leader, eventually, whoever was
   asked to start it and whatever became of the process that read it. *)
RunningIsRead ==
  (job = "running") ~> (job # "running" \/ \E p \in lead : Reads(p))

(* A process that has lost the lead falls silent, even if a start of its own
   was half-way through. *)
FollowersFallSilent ==
  \A p \in Procs : (p \notin lead) ~> (p \in lead \/ entry[p] = 0)

(* A stop comes to an end: two processes never wait for each other. *)
StopsEnd ==
  \A p \in Procs : ~Tearing(p, "stop", "idle") ~> Tearing(p, "stop", "idle")

(* Once a stop has returned and the bridge is paused, no process goes on
   reading it (stop: "stop the live stream but keep durable state").  Not
   so under BudgetStop of MCLifecycle: see the project's findings. *)
StoppedIsQuiet ==
  (job = "paused" /\ \A p \in Procs : Tearing(p, "stop", "idle"))
     => \A p \in Procs : ~Reads(p)
=============================================================================
