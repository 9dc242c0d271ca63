----------------------------- MODULE EchoGuard -----------------------------
(***************************************************************************)
(* Bridges that read what other bridges write (echo-guard.service.ts, with *)
(* its callers in database-sink.service.ts, bridge-cdc.service.ts and      *)
(* bridge-watch.service.ts): A -> B with B -> A, chains, triangles.        *)
(*                                                                         *)
(* One row, that every table holds under the same key.  What a bridge is   *)
(* about to write to a table is remembered in Redis, in order, with the    *)
(* tables the row has been through; the bridge that reads the table looks  *)
(* each change up and does not send it where it has been.  A change also   *)
(* carries its true way (been), which the code does not see.               *)
(***************************************************************************)
EXTENDS Naturals, FiniteSets, Sequences, SequencesExt

CONSTANTS
  Tables,
  Graphs,      \* topologies: [bridges -> [src : table, dst : set of tables]]
  Values,      \* what the row can hold
  Ops,         \* what people do: "write", "delete", "truncate"
  Polls,       \* bridges that poll (watch) instead of following the log
  Remembers,   \* PER_ROW: writes remembered per row
  Budgets      \* per topology, how often people edit, and things go wrong

Gone == "gone"
Kinds == {"edit", "fail", "announce", "retract", "lookup", "expire", "crash", "any"}

ASSUME EchoAssumption ==
  /\ Ops \subseteq {"write", "delete", "truncate"} /\ Gone \notin Values
  /\ Remembers \in Nat \ {0} /\ Budgets \in [Graphs -> [Kinds -> Nat]]
  /\ \A g \in Graphs : \A b \in DOMAIN g : g[b].src \in Tables /\ g[b].dst \subseteq Tables \ {g[b].src}

VARIABLES
  graph,      \* the bridges there are
  data,       \* the row in each table
  inbox,      \* the changes each bridge has yet to read
  memory,     \* Redis: per table, the writes of the row that were announced
  truncates,  \* Redis: per table, the truncates that were announced
  work,       \* what each bridge is at
  since,      \* what has happened since everything was quiet
  budget

vars == <<graph, data, inbox, memory, truncates, work, since, budget>>
redisVars == <<memory, truncates>>

Bridges == DOMAIN graph
Src(b) == graph[b].src
Dst(b) == graph[b].dst
Readers(t) == {b \in Bridges : Src(b) = t}

NoChange == [op |-> "write", val |-> Gone, been |-> {}]
Idle == [pc |-> "idle", change |-> NoChange, origins |-> {}, todo |-> {}, at |-> "none",
         said |-> FALSE, failed |-> FALSE, upto |-> 0]

Changes == [op : {"write", "delete", "truncate"}, val : Values \union {Gone}, been : SUBSET Tables]

TypeOK ==
  /\ graph \in Graphs
  /\ data \in [Tables -> Values \union {Gone}]
  /\ \A b \in Bridges : \A i \in DOMAIN inbox[b] : inbox[b][i] \in Changes
  /\ \A t \in Tables :
       /\ Len(memory[t]) <= Remembers /\ Len(truncates[t]) <= Remembers
       /\ \A i \in DOMAIN memory[t] : /\ memory[t][i].op \in {"write", "delete"}
                                      /\ memory[t][i].origins \subseteq Tables
                                      /\ memory[t][i].by \in Bridges
  /\ \A b \in Bridges : /\ work[b].pc \in {"idle", "consume", "announce", "write", "retract", "failed"}
                        /\ work[b].change \in Changes /\ work[b].todo \subseteq Dst(b)
  /\ since \in [hands : SUBSET Tables, last : Values \union {Gone}, hurried : BOOLEAN, faulty : BOOLEAN, stale : BOOLEAN]
  /\ budget \in [Kinds -> Nat]

Init ==
  /\ graph \in Graphs
  /\ data = [t \in Tables |-> Gone]
  /\ inbox = [b \in Bridges |-> <<>>]
  /\ memory = [t \in Tables |-> <<>>] /\ truncates = [t \in Tables |-> <<>>]
  /\ work = [b \in Bridges |-> Idle]
  /\ since = [hands |-> {}, last |-> Gone, hurried |-> FALSE, faulty |-> FALSE, stale |-> FALSE]
  /\ budget = Budgets[graph]

Quiet == \A b \in Bridges : inbox[b] = <<>> /\ work[b].pc = "idle"
NothingRemembered == \A t \in Tables : memory[t] = <<>> /\ truncates[t] = <<>>

(* two people at once, or one who goes on while something goes wrong: there is
   no telling whose word is the last *)
Raced == Cardinality(since.hands) > 1 \/ (since.hurried /\ since.faulty)

Fault(k) ==
  /\ budget[k] > 0 /\ budget["any"] > 0
  /\ budget' = [budget EXCEPT ![k] = @ - 1, !["any"] = @ - 1]
  /\ since' = [since EXCEPT !.faulty = TRUE, !.stale = @ \/ k \in {"lookup", "retract", "crash"}]

-----------------------------------------------------------------------------
(* the tables and their change logs *)

(* a poll finds the row as it is, and does not see that it is gone *)
Arrives(b, c) ==
  IF b \notin Polls THEN Append(inbox[b], c)
  ELSE IF c.op = "write" THEN <<c>> ELSE <<>>
Logged(t, c) ==
  /\ data' = [data EXCEPT ![t] = c.val]
  /\ inbox' = [b \in Bridges |-> IF Src(b) = t THEN Arrives(b, c) ELSE inbox[b]]

(* somebody changes a table that is read.  Bound: no edits after a race *)
Edit(t, op, v) ==
  /\ Readers(t) # {} /\ ~Raced
  /\ budget["edit"] > 0 /\ budget' = [budget EXCEPT !["edit"] = @ - 1]
  /\ op = "delete" => data[t] # Gone
  /\ LET val == IF op = "write" THEN v ELSE Gone IN
     /\ Logged(t, [op |-> op, val |-> val, been |-> {}])
     /\ since' = IF Quiet THEN [hands |-> {t}, last |-> val, hurried |-> FALSE,
                                    faulty |-> since.faulty /\ ~NothingRemembered,
                                    stale |-> since.stale /\ ~NothingRemembered]
                  ELSE [since EXCEPT !.hands = @ \union {t}, !.last = val, !.hurried = TRUE]
  /\ UNCHANGED <<graph, redisVars, work>>

-----------------------------------------------------------------------------
(* the reading side *)

(* where in a table's memory a change is found: the oldest that matches *)
Matches(t, c) ==
  {i \in DOMAIN memory[t] : memory[t][i].op = c.op /\ (c.op = "write" => memory[t][i].val = c.val)}
Oldest(S) == CHOOSE i \in S : \A j \in S : i <= j

Taken(b, c, origins) ==
  work' = [work EXCEPT ![b] = [Idle EXCEPT !.pc = "announce", !.change = c, !.origins = origins, !.todo = Dst(b)]]

(* Slip: it is sent on wherever it has been *)
RouteAll(b, c, origins) == Taken(b, c, origins)

(* route: not sent on if every target is a table it has been through *)
Route(b, c, origins) ==
  IF Dst(b) \subseteq origins THEN work' = [work EXCEPT ![b] = Idle] ELSE Taken(b, c, origins)

(* recognise, recogniseTruncate: a match has yet to be consumed; a truncate is at once *)
Recognise(b, c) ==
  LET t == Src(b) IN
  CASE c.op = "truncate" /\ truncates[t] # <<>> ->
         /\ truncates' = [truncates EXCEPT ![t] = Tail(@)]
         /\ Route(b, c, Head(truncates[t]).origins)
         /\ UNCHANGED memory
    [] c.op # "truncate" /\ Matches(t, c) # {} ->
         LET i == Oldest(Matches(t, c)) IN
         /\ work' = [work EXCEPT ![b] = [Idle EXCEPT !.pc = "consume", !.change = c,
                                           !.origins = memory[t][i].origins, !.upto = i]]
         /\ UNCHANGED redisVars
    [] OTHER -> Taken(b, c, {}) /\ UNCHANGED redisVars

Reads(b) ==
  /\ work[b].pc = "idle" /\ inbox[b] # <<>>
  /\ inbox' = [inbox EXCEPT ![b] = Tail(@)]

(* handleChange, runPoll: the next change is looked up... *)
Read(b) ==
  /\ Reads(b)
  /\ Recognise(b, Head(inbox[b]))
  /\ UNCHANGED <<graph, data, since, budget>>

(* what was found is taken out, with what was written before it: by its place,
   which it may by now have left *)
Trimmed(b) == memory' = [memory EXCEPT ![Src(b)] = SubSeq(@, work[b].upto + 1, Len(@))]
Consume(b) ==
  /\ work[b].pc = "consume"
  /\ Trimmed(b)
  /\ Route(b, work[b].change, work[b].origins)
  /\ UNCHANGED <<graph, data, inbox, truncates, since, budget>>

(* ...or it cannot be looked up, or what was found not be taken out (it may be
   out all the same): it is sent on as if it were somebody's *)
ReadBlind(b) ==
  /\ Fault("lookup")
  /\ \/ Reads(b) /\ Taken(b, Head(inbox[b]), {}) /\ UNCHANGED memory
     \/ /\ work[b].pc = "consume" /\ Taken(b, work[b].change, {})
        /\ Trimmed(b) \/ UNCHANGED memory
        /\ UNCHANGED inbox
  /\ UNCHANGED <<graph, data, truncates>>

-----------------------------------------------------------------------------
(* the writing side: DatabaseSink.deliver, target by target *)

At(b, pc) == work[b].pc = pc
Latest(s) == IF Len(s) > Remembers THEN Tail(s) ELSE s

(* Slip: only the table it was read from *)
OriginsLast(b) == {Src(b)}

(* where the row has been, with the table it was read from *)
Origins(b) == work[b].origins \union {Src(b)}
Onto(b, t) == IF work[b].change.op = "truncate"
  THEN /\ truncates' = [truncates EXCEPT ![t] = Latest(Append(@, [origins |-> Origins(b), by |-> b]))]
       /\ UNCHANGED memory
  ELSE /\ memory' = [memory EXCEPT ![t] = Latest(Append(@,
            [op |-> work[b].change.op, val |-> work[b].change.val, origins |-> Origins(b), by |-> b]))]
       /\ UNCHANGED truncates

(* what is there now is what would be *)
Same(b, t) == Readers(t) # {} /\ work[b].change.op # "truncate" /\ data[t] = work[b].change.val

(* the loop over the targets: one that failed does not keep the others waiting *)
Done(b, t) ==
  work' = [work EXCEPT ![b] = IF @.todo # {t} THEN [@ EXCEPT !.pc = "announce", !.todo = @ \ {t}]
                              ELSE IF @.failed THEN [@ EXCEPT !.pc = "failed", !.todo = {}] ELSE Idle]

(* announce, announceTruncate, where there is nothing to remember: a row that is
   already so is not written; one to delete that is not there, or a row of a
   table nobody reads, is *)
AnnounceNothing(b, t) ==
  /\ At(b, "announce") /\ t \in work[b].todo
  /\ IF Same(b, t) /\ work[b].change.op = "write" THEN Done(b, t)
     ELSE /\ Same(b, t) \/ Readers(t) = {}
          /\ work' = [work EXCEPT ![b].pc = "write", ![b].at = t, ![b].said = FALSE]
  /\ UNCHANGED <<graph, data, inbox, redisVars, since, budget>>

Announce(b, t) ==
  /\ At(b, "announce") /\ t \in work[b].todo /\ Readers(t) # {} /\ ~Same(b, t)
  /\ Onto(b, t)
  /\ work' = [work EXCEPT ![b].pc = "write", ![b].at = t, ![b].said = TRUE]
  /\ UNCHANGED <<graph, data, inbox, since, budget>>

(* Redis cannot be told, or has it and its answer is lost: the row is written all
   the same, and nothing will take back what was said *)
AnnounceFails(b, t) ==
  /\ At(b, "announce") /\ t \in work[b].todo /\ Readers(t) # {} /\ ~Same(b, t)
  /\ Fault("announce")
  /\ Onto(b, t) \/ UNCHANGED redisVars
  /\ work' = [work EXCEPT ![b].pc = "write", ![b].at = t, ![b].said = FALSE]
  /\ UNCHANGED <<graph, data, inbox>>

Written(b) == [work[b].change EXCEPT !.been = @ \union {Src(b)}]

(* the write: if it changes nothing (an engine may tell, and log nothing then),
   what was said is taken back *)
Write(b) ==
  /\ At(b, "write")
  /\ LET t == work[b].at c == Written(b)
         idle == c.op # "truncate" /\ data[t] = c.val IN
     \/ /\ ~idle \/ c.op = "write"
        /\ Logged(t, c) /\ Done(b, t)
     \/ /\ idle
        /\ work' = [work EXCEPT ![b].pc = "retract"]
        /\ UNCHANGED <<data, inbox>>
  /\ UNCHANGED <<graph, redisVars, since, budget>>

(* ...or it fails, with or without its effect *)
WriteFails(b) ==
  /\ At(b, "write") /\ Fault("fail")
  /\ work' = [work EXCEPT ![b].pc = "retract", ![b].failed = TRUE]
  /\ Logged(work[b].at, Written(b)) \/ UNCHANGED <<data, inbox>>
  /\ UNCHANGED <<graph, redisVars>>

(* what this bridge said last, taken out (each entry is encrypted on its own,
   so none is mistaken for another) *)
Without(s, b) ==
  LET mine == {i \in DOMAIN s : s[i].by = b} IN
  IF mine = {} THEN s ELSE RemoveAt(s, CHOOSE i \in mine : \A j \in mine : j <= i)

ReadAgain(b) ==
  inbox' = [inbox EXCEPT ![b] = IF b \in Polls /\ @ # <<>> THEN @ ELSE <<work[b].change>> \o @]

(* Slip: what was said of a write that failed stays *)
RetractNot(b) ==
  /\ At(b, "retract")
  /\ Done(b, work[b].at)
  /\ UNCHANGED <<graph, data, inbox, redisVars, since, budget>>

Retract(b) ==
  /\ At(b, "retract")
  /\ LET t == work[b].at IN
     IF ~work[b].said THEN UNCHANGED redisVars
     ELSE IF work[b].change.op = "truncate"
          THEN truncates' = [truncates EXCEPT ![t] = Without(@, b)] /\ UNCHANGED memory
          ELSE memory' = [memory EXCEPT ![t] = Without(@, b)] /\ UNCHANGED truncates
  /\ Done(b, work[b].at)
  /\ UNCHANGED <<graph, data, inbox, since, budget>>

(* ...or it cannot be: it stays, and the delivery goes on *)
RetractFails(b) ==
  /\ At(b, "retract") /\ work[b].said /\ Fault("retract")
  /\ Done(b, work[b].at)
  /\ UNCHANGED <<graph, data, inbox, redisVars>>

(* the delivery has failed: the bridge stops, and reads the change again when it
   is started again *)
Failed(b) ==
  /\ At(b, "failed")
  /\ ReadAgain(b) /\ work' = [work EXCEPT ![b] = Idle]
  /\ UNCHANGED <<graph, data, redisVars, since, budget>>

-----------------------------------------------------------------------------
(* SYNCLE_ECHO_TTL_SECONDS have passed *)
Expire(t) ==
  /\ memory[t] # <<>> \/ truncates[t] # <<>>
  /\ Fault("expire")
  /\ memory' = [memory EXCEPT ![t] = <<>>] /\ truncates' = [truncates EXCEPT ![t] = <<>>]
  /\ UNCHANGED <<graph, data, inbox, work>>

(* the process dies, and the change is read again *)
Crash(b) ==
  /\ work[b].pc # "idle" /\ Fault("crash")
  /\ work' = [work EXCEPT ![b] = Idle] /\ ReadAgain(b)
  /\ UNCHANGED <<graph, data, redisVars>>

Steps(b) ==
  \/ Read(b) \/ Consume(b) \/ Write(b) \/ Retract(b) \/ Failed(b)
  \/ \E t \in Tables : AnnounceNothing(b, t) \/ Announce(b, t)

Next ==
  \/ \E t \in Tables, op \in Ops, v \in Values : Edit(t, op, v)
  \/ \E b \in Bridges : Steps(b) \/ ReadBlind(b) \/ WriteFails(b) \/ RetractFails(b) \/ Crash(b)
  \/ \E b \in Bridges, t \in Tables : AnnounceFails(b, t)
  \/ \E t \in Tables : Expire(t)

Spec == Init /\ [][Next]_vars

(* a bridge goes on with what it has and reads what there is *)
FairSpec == Spec /\ \A b \in UNION {DOMAIN g : g \in Graphs} : WF_vars(b \in Bridges /\ Steps(b))

-----------------------------------------------------------------------------
(* Nothing is sent back to a table it has been through, as long as nothing has
   gone wrong and two people are not at it at once: not round a loop of two,
   not round a loop of three, and however fast the row is changed. *)
NoWayBack ==
  ~since.faulty /\ ~Raced =>
    \A b \in Bridges : work[b].pc = "write" => work[b].at \notin work[b].change.been

(* the tables a change of t has to reach *)
Reach(t) ==
  {u \in Tables : \A S \in SUBSET Tables :
     (t \in S /\ \A b \in Bridges : Src(b) \in S => Dst(b) \subseteq S) => u \in S}

(* A change that could not be looked up, a write the process died before, and one
   that could not be taken back leave what was said of them in Redis until it expires: since.stale.  The two
   properties below are about the time when that is not so. *)

(* When all is quiet, the table somebody changed and every table it feeds hold
   what was last put there: no edit of a person is taken for an echo and held
   back, none is overwritten by an echo of an older one, a chain is followed
   to its end, and a write that failed or was not announced leaves nothing
   behind that would make it otherwise. *)
Converged ==
  Quiet /\ ~Raced /\ ~since.stale => \A t \in since.hands : \A u \in Reach(t) : data[u] = since.last

(* Bridges that feed each other come to rest, also when an echo was not known
   for one. *)
Settles == <>[]Quiet
=============================================================================
