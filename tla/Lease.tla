------------------------------- MODULE Lease -------------------------------
(***************************************************************************)
(* What the processes of an installation may rely on about who leads.  One *)
(* key in Redis has at most one owner at a time; a process leads because   *)
(* it was given the key while nobody owned it.  Owning and leading are not *)
(* the same thing: a key runs out under a leader that cannot renew it, and *)
(* the answer that gave a process the key may never reach it.              *)
(* Leadership implements this with clocks; Lifecycle is built on it.       *)
(***************************************************************************)
EXTENDS FiniteSets

CONSTANT Procs
VARIABLES
  owner,    \* the processes Redis has the key for: one, or none
  lead      \* the processes that believe they lead (InstanceService.leader)

leaseVars == <<owner, lead>>

LeaseInit == owner = {} /\ lead = {}

(* SET key id PX ttl NX is taken; the answer reaches the process, or not *)
Take(p) ==
  /\ owner = {} /\ p \notin lead
  /\ owner' = {p}
  /\ lead' \in {lead \union {p}, lead}

(* the key runs out: its owner did not renew it for as long as it lasts *)
Lapse ==
  /\ owner # {}
  /\ owner' = {}
  /\ UNCHANGED lead

(* a process stops leading, whether or not it still owns the key *)
StepDown(p) ==
  /\ p \in lead
  /\ lead' = lead \ {p}
  /\ UNCHANGED owner

(* a process that shuts down hands the key over at once *)
Release(p) ==
  /\ owner = {p}
  /\ owner' = {}
  /\ lead' = lead \ {p}

LeaseNext == Lapse \/ \E p \in Procs : Take(p) \/ StepDown(p) \/ Release(p)

LeaseSpec == LeaseInit /\ [][LeaseNext]_leaseVars
=============================================================================
