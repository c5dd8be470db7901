----------------------------- MODULE WorkerPool -----------------------------
(***************************************************************************)
(* A pool of replicas of one worker: core/domain/pool/pool.go, its manager *)
(* (manager.go), and the use the dispatcher makes of both when it selects  *)
(* a worker and counts the requests it has there.                          *)
(*                                                                         *)
(* The pool is an ordered list of IDs under a lock and a map from IDs to   *)
(* entries that is read without it.  The manager's operations read the     *)
(* pool, decide, stop and spawn processes and change the pool in steps     *)
(* between which requests and other operations run.                        *)
(*                                                                         *)
(* An ID is a number: 0 .. Replicas-1 are the IDs SpawnWorkers builds (the *)
(* prefix itself, then prefix-1, ...), the larger ones those of            *)
(* generateWorkerID, in the order of their timestamps.  Two IDs generated  *)
(* within the same millisecond would be the same; here time passes between *)
(* two spawns.                                                             *)
(*                                                                         *)
(* The program itself uses only part of this: lifecycle.Service calls      *)
(* SpawnWorkers with a worker in StateStarting, and nothing calls          *)
(* UpdateWorker, RegisterWorkerConfig, ReplaceWorker or MonitorHealth.     *)
(* There, no replica is ever alive and every request goes to the route's   *)
(* own worker.  The behaviours from cfg.running = FALSE without reports    *)
(* and operations are the program's, the others those of the package's     *)
(* interface as its tests use it.                                          *)
(***************************************************************************)
EXTENDS Integers, Sequences, FiniteSets, SequencesExt

CONSTANTS
  Requests,     \* dispatches, each made once
  Replacers,    \* calls of ReplaceWorker, each made once
  Replicas,     \* ManagerConfig.Replicas
  MaxPoolSize,  \* ManagerConfig.MaxPoolSize, 0 for unlimited
  Strategies,   \* strategies the pool may be registered with
  MaxStamps,    \* bound: IDs that are generated
  MaxReports    \* bound: reports of workers, exits and failures to spawn

ASSUME WorkerPoolAssumption ==
  /\ Replicas \in Nat \ {0}
  /\ MaxPoolSize \in Nat /\ MaxStamps \in Nat /\ MaxReports \in Nat
  /\ Strategies \subseteq {"round-robin", "least-loaded"}
  /\ IsFiniteSet(Replacers) /\ IsFiniteSet(Requests)
  /\ "monitor" \notin Replacers

Base == 0 .. Replicas - 1
IDs == 0 .. Replicas + MaxStamps - 1
Ops == Replacers \cup {"monitor"}

VARIABLES
  cfg,       \* is the worker's configuration in StateRunning, is it registered?
  strategy,  \* Pool.strategy
  order,     \* Pool.workerIDs
  entry,     \* Pool.workers: the IDs in the map
  alive,     \* is the worker of the entry StateRunning?
  reqs,      \* activeReqs of the entry
  counter,   \* Pool.counter
  procs,     \* IDs with an entry in the process manager's table
  exited,    \* those of them whose process has exited by itself
  stamp,     \* the ID generateWorkerID makes next
  op,        \* the manager's operations
  req,       \* the dispatches
  reports,   \* number of reports, exits and failures to spawn
  picks,     \* history: round-robin selections of each ID, while calm
  calm       \* history: no selections overlapped and the pool did not change

vars == <<cfg, strategy, order, entry, alive, reqs, counter, procs, exited, stamp, op, req,
          reports, picks, calm>>

\* A list of workers taken from the pool's: the places they have there, and
\* their IDs.
Lists == UNION {[D -> IDs] : D \in SUBSET (1 .. Replicas + MaxStamps)}

\* Has k the place n, counted from 0, among those in the list?
Nth(k, n, list) == k \in DOMAIN list /\ Cardinality({j \in DOMAIN list : j < k}) = n

OpIdle == [pc |-> "idle", todo |-> {}, id |-> 0, ok |-> TRUE, left |-> 0]
ReqIdle == [pc |-> "idle", seen |-> <<>>, at |-> 0, min |-> -1]

TypeOK ==
  /\ cfg \in [running : BOOLEAN, registered : BOOLEAN]
  /\ strategy \in Strategies
  /\ order \in Seq(IDs)
  /\ entry \subseteq IDs
  /\ alive \in [IDs -> BOOLEAN]
  /\ reqs \in [IDs -> Nat]
  /\ counter \in Nat
  /\ procs \subseteq IDs
  /\ exited \subseteq procs
  /\ stamp \in Replicas .. Replicas + MaxStamps
  /\ op \in [Ops -> [pc : {"idle", "remove", "stop", "healthy", "capacity", "spawn", "add",
                            "done"},
                     todo : SUBSET IDs, id : IDs, ok : BOOLEAN, left : Int]]
  /\ req \in [Requests -> [pc : {"idle", "listed", "picked", "selected", "counted", "done"},
                           seen : Lists, at : IDs, min : {-1} \cup Nat]]
  /\ reports \in 0..MaxReports
  /\ picks \in [IDs -> Nat]
  /\ calm \in BOOLEAN

\* SpawnWorkers has run: the replicas, as many as MaxPoolSize allows, are
\* copies of the worker's configuration, its state included.
Init ==
  LET count == IF MaxPoolSize > 0 /\ Replicas > MaxPoolSize THEN MaxPoolSize ELSE Replicas
      first == [i \in 1..count |-> i - 1]
  IN  /\ cfg \in [running : BOOLEAN, registered : BOOLEAN]
      /\ strategy \in Strategies
      /\ order = first
      /\ entry = 0 .. count - 1
      /\ alive = [i \in IDs |-> cfg.running /\ i < count]
      /\ reqs = [i \in IDs |-> 0]
      /\ counter = 0
      /\ procs = 0 .. count - 1
      /\ exited = {}
      /\ stamp = Replicas
      /\ op = [o \in Ops |-> OpIdle]
      /\ req = [r \in Requests |-> ReqIdle]
      /\ reports = 0
      /\ picks = [i \in IDs |-> 0]
      /\ calm = cfg.running

-----------------------------------------------------------------------------
(* Pool *)

\* History: what was counted of the selections is no longer of a calm pool.
Disturb == calm' = FALSE /\ picks' = [i \in IDs |-> 0]

\* The entry is deleted, and with it what it says of the worker.
RemoveWorker(i) ==
  /\ entry' = entry \ {i}
  /\ alive' = [alive EXCEPT ![i] = FALSE]
  /\ reqs' = [reqs EXCEPT ![i] = 0]
  /\ \/ \E k \in DOMAIN order :
          /\ order[k] = i /\ \A j \in 1 .. k - 1 : order[j] # i
          /\ order' = RemoveAt(order, k)
     \/ ~Contains(order, i) /\ UNCHANGED order

\* A fresh entry, with no active requests.
AddWorker(i, ok) ==
  /\ entry' = entry \cup {i}
  /\ alive' = [alive EXCEPT ![i] = ok]
  /\ reqs' = [reqs EXCEPT ![i] = 0]
  /\ order' = Append(order, i)

\* The part of the list that has entries that are alive.
HealthyWorkers == Restrict(order, {k \in DOMAIN order : order[k] \in entry /\ alive[order[k]]})

\* extractPrefix cuts "-n" off an ID of SpawnWorkers, and finds nothing to cut
\* off a generated one, whose last part is not a number: no pool has that name.
HasPool(i) == i \in Base

\* UpdateWorker, by whoever watches the worker (external): it is unhealthy, or
\* well again.
Report(i, ok) ==
  /\ i \in entry
  /\ alive[i] # ok
  /\ reports < MaxReports
  /\ reports' = reports + 1
  /\ alive' = [alive EXCEPT ![i] = ok]
  /\ Disturb
  /\ UNCHANGED <<cfg, strategy, order, entry, reqs, counter, procs, exited, stamp, op, req>>

\* The worker's process exits by itself.  Its entry in the process manager's
\* table stays.
Exit(i) ==
  /\ i \in procs \ exited
  /\ reports < MaxReports
  /\ reports' = reports + 1
  /\ exited' = exited \cup {i}
  /\ UNCHANGED <<cfg, strategy, order, entry, alive, reqs, counter, procs, stamp, op, req,
                 picks, calm>>

-----------------------------------------------------------------------------
(* Dispatch *)

ReqAt(r, l) == req' = [req EXCEPT ![r].pc = l]

\* SelectWorker lists the healthy workers.  Without one the dispatcher uses
\* the route's own worker, which has the pool's prefix for its ID.
List(r) ==
  /\ req[r].pc = "idle"
  /\ \/ /\ DOMAIN HealthyWorkers = {}
        /\ req' = [req EXCEPT ![r] = [ReqIdle EXCEPT !.pc = "selected"]]
     \/ \E k \in DOMAIN HealthyWorkers :
          /\ Nth(k, 0, HealthyWorkers)
          /\ req' = [req EXCEPT ![r] = [ReqIdle EXCEPT !.pc = "listed", !.seen = HealthyWorkers,
                                                       !.at = HealthyWorkers[k]]]
  /\ IF \A q \in Requests : req[q].pc \notin {"listed", "picked"}
     THEN UNCHANGED <<calm, picks>> ELSE Disturb
  /\ UNCHANGED <<cfg, strategy, order, entry, alive, reqs, counter, procs, exited, stamp, op,
                 reports>>

\* Mutant: the index does not depend on the counter.
PickRoundRobinFirst(r) ==
  /\ req[r].pc = "listed" /\ strategy = "round-robin"
  /\ \E k \in DOMAIN req[r].seen :
       /\ Nth(k, 0, req[r].seen)
       /\ LET i == req[r].seen[k]
          IN  /\ req' = [req EXCEPT ![r].pc = "picked", ![r].at = i]
              /\ picks' = IF calm THEN [picks EXCEPT ![i] = @ + 1] ELSE picks
  /\ UNCHANGED <<cfg, strategy, order, entry, alive, reqs, counter, procs, exited, stamp, op,
                 reports, calm>>

\* selectRoundRobin reads the counter...
PickRoundRobin(r) ==
  /\ req[r].pc = "listed" /\ strategy = "round-robin"
  /\ \E k \in DOMAIN req[r].seen :
       /\ Nth(k, counter % Cardinality(DOMAIN req[r].seen), req[r].seen)
       /\ LET i == req[r].seen[k]
          IN  /\ req' = [req EXCEPT ![r].pc = "picked", ![r].at = i]
              /\ picks' = IF calm THEN [picks EXCEPT ![i] = @ + 1] ELSE picks
  /\ UNCHANGED <<cfg, strategy, order, entry, alive, reqs, counter, procs, exited, stamp, op,
                 reports, calm>>

\* ... and adds to it afterwards.
Advance(r) ==
  /\ req[r].pc = "picked"
  /\ counter' = counter + 1
  /\ ReqAt(r, "selected")
  /\ UNCHANGED <<cfg, strategy, order, entry, alive, reqs, procs, exited, stamp, op, reports,
                 picks, calm>>

\* selectLeastLoaded reads the counts one by one, of the workers that still
\* have an entry; -1 stands for none read.
Compare(r) ==
  /\ req[r].pc = "listed" /\ strategy = "least-loaded"
  /\ \E k \in DOMAIN req[r].seen :
       /\ Nth(k, 0, req[r].seen)
       /\ LET i == req[r].seen[k]
              less == i \in entry /\ (req[r].min = -1 \/ reqs[i] < req[r].min)
          IN  req' = [req EXCEPT ![r].seen = Restrict(@, DOMAIN @ \ {k}),
                                 ![r].at = IF less THEN i ELSE @,
                                 ![r].min = IF less THEN reqs[i] ELSE @]
  /\ UNCHANGED <<cfg, strategy, order, entry, alive, reqs, counter, procs, exited, stamp, op,
                 reports, picks, calm>>

PickLeastLoaded(r) ==
  /\ req[r].pc = "listed" /\ strategy = "least-loaded"
  /\ DOMAIN req[r].seen = {}
  /\ ReqAt(r, "selected")
  /\ UNCHANGED <<cfg, strategy, order, entry, alive, reqs, counter, procs, exited, stamp, op,
                 reports, picks, calm>>

\* What IncrementActiveReqs and DecrementActiveReqs do: nothing for an ID
\* without entry, or one the dispatcher finds no pool for.
Count(i, n) == reqs' = IF HasPool(i) /\ i \in entry THEN [reqs EXCEPT ![i] = @ + n] ELSE reqs

Increment(r) ==
  /\ req[r].pc = "selected"
  /\ Count(req[r].at, 1)
  /\ req' = [req EXCEPT ![r] = [ReqIdle EXCEPT !.pc = "counted", !.at = req[r].at]]
  /\ UNCHANGED <<cfg, strategy, order, entry, alive, counter, procs, exited, stamp, op, reports,
                 picks, calm>>

\* Mutant: a dispatch that fails does not count its request off.
DecrementOnSuccess(r) ==
  /\ req[r].pc = "counted"
  /\ Count(req[r].at, -1) \/ UNCHANGED reqs
  /\ req' = [req EXCEPT ![r] = [ReqIdle EXCEPT !.pc = "done"]]
  /\ UNCHANGED <<cfg, strategy, order, entry, alive, counter, procs, exited, stamp, op, reports,
                 picks, calm>>

\* The deferred DecrementActiveReqs, on every return path.
Decrement(r) ==
  /\ req[r].pc = "counted"
  /\ Count(req[r].at, -1)
  /\ req' = [req EXCEPT ![r] = [ReqIdle EXCEPT !.pc = "done"]]
  /\ UNCHANGED <<cfg, strategy, order, entry, alive, counter, procs, exited, stamp, op, reports,
                 picks, calm>>

-----------------------------------------------------------------------------
(* Manager *)

\* ReplaceWorker finds the pool and the worker, and copies it, state included.
\* For a generated ID it returns ErrPoolNotFound, for one that is gone an error.
Replace(o, i) ==
  /\ o # "monitor" /\ op[o].pc = "idle"
  /\ op' = [op EXCEPT ![o] = IF HasPool(i) /\ i \in entry
                             THEN [OpIdle EXCEPT !.pc = "remove", !.id = i, !.ok = alive[i],
                                                 !.left = 1]
                             ELSE [OpIdle EXCEPT !.pc = "done"]]
  /\ UNCHANGED <<cfg, strategy, order, entry, alive, reqs, counter, procs, exited, stamp, req,
                 reports, picks, calm>>

\* The monitor with so many dead workers left: it takes one of them, the order
\* does not matter, or goes on to ensureReplicas.
Ahead(dead) ==
  {[OpIdle EXCEPT !.pc = "remove", !.id = i, !.todo = dead \ {i}] : i \in dead}
    \cup {m \in {[OpIdle EXCEPT !.pc = "healthy"]} : dead = {}}

\* MonitorHealth takes the workers that are not alive from a snapshot.
Monitor ==
  /\ op["monitor"].pc = "idle"
  /\ \E m \in Ahead({i \in Range(order) : i \in entry /\ ~alive[i]}) :
       op' = [op EXCEPT !["monitor"] = m]
  /\ UNCHANGED <<cfg, strategy, order, entry, alive, reqs, counter, procs, exited, stamp, req,
                 reports, picks, calm>>

\* Either operation removes the worker from the pool...
Unlist(o) ==
  /\ op[o].pc = "remove"
  /\ RemoveWorker(op[o].id)
  /\ op' = [op EXCEPT ![o].pc = "stop"]
  /\ Disturb
  /\ UNCHANGED <<cfg, strategy, counter, procs, exited, stamp, req, reports>>

\* Mutant: a worker that was removed is not stopped.
StopNot(o) ==
  /\ op[o].pc = "stop"
  /\ \/ o # "monitor" /\ op' = [op EXCEPT ![o].pc = "spawn", ![o].id = 0]
     \/ o = "monitor" /\ \E m \in Ahead(op[o].todo) : op' = [op EXCEPT ![o] = m]
  /\ UNCHANGED <<cfg, strategy, order, entry, alive, reqs, counter, procs, exited, stamp, req,
                 reports, picks, calm>>

\* ... stops its process, whatever comes of it, and goes on: the monitor to
\* the next dead worker.  For a process that has exited the signal fails, and
\* process.Manager.Stop returns without deleting its entry.
Stop(o) ==
  /\ op[o].pc = "stop"
  /\ procs' = procs \ ({op[o].id} \ exited)
  /\ \/ o # "monitor" /\ op' = [op EXCEPT ![o].pc = "spawn", ![o].id = 0]
     \/ o = "monitor" /\ \E m \in Ahead(op[o].todo) : op' = [op EXCEPT ![o] = m]
  /\ UNCHANGED <<cfg, strategy, order, entry, alive, reqs, counter, exited, stamp, req, reports,
                 picks, calm>>

\* ensureReplicas returns when no configuration is registered.
NotRegistered ==
  /\ op["monitor"].pc = "healthy"
  /\ ~cfg.registered
  /\ op' = [op EXCEPT !["monitor"] = OpIdle]
  /\ UNCHANGED <<cfg, strategy, order, entry, alive, reqs, counter, procs, exited, stamp, req,
                 reports, picks, calm>>

\* Otherwise it counts the healthy workers...
CountHealthy ==
  /\ op["monitor"].pc = "healthy"
  /\ cfg.registered
  /\ op' = [op EXCEPT !["monitor"].pc = "capacity",
                      !["monitor"].left = Replicas - Cardinality(DOMAIN HealthyWorkers)]
  /\ UNCHANGED <<cfg, strategy, order, entry, alive, reqs, counter, procs, exited, stamp, req,
                 reports, picks, calm>>

\* Mutant: the size is that of the healthy workers.
CountSizeHealthy ==
  /\ op["monitor"].pc = "capacity"
  /\ LET left == op["monitor"].left
         room == MaxPoolSize - Cardinality(DOMAIN HealthyWorkers)
         want == IF MaxPoolSize > 0 /\ left > room THEN room ELSE left
     IN  op' = [op EXCEPT !["monitor"].pc = "spawn",
                          !["monitor"].left = IF want < 0 THEN 0 ELSE want]
  /\ UNCHANGED <<cfg, strategy, order, entry, alive, reqs, counter, procs, exited, stamp, req,
                 reports, picks, calm>>

\* ... then the size of the pool, which unhealthy workers still count in.
CountSize ==
  /\ op["monitor"].pc = "capacity"
  /\ LET left == op["monitor"].left
         room == MaxPoolSize - Len(order)
         want == IF MaxPoolSize > 0 /\ left > room THEN room ELSE left
     IN  op' = [op EXCEPT !["monitor"].pc = "spawn",
                          !["monitor"].left = IF want < 0 THEN 0 ELSE want]
  /\ UNCHANGED <<cfg, strategy, order, entry, alive, reqs, counter, procs, exited, stamp, req,
                 reports, picks, calm>>

\* A new process under a generated ID.  The monitor's new worker is a copy of
\* the base configuration, that of ReplaceWorker one of the old worker.
Spawn(o) ==
  /\ op[o].pc = "spawn" /\ op[o].left > 0
  /\ stamp < Replicas + MaxStamps
  /\ procs' = procs \cup {stamp}
  /\ stamp' = stamp + 1
  /\ op' = [op EXCEPT ![o].pc = "add", ![o].id = stamp]
  /\ UNCHANGED <<cfg, strategy, order, entry, alive, reqs, counter, exited, req, reports, picks,
                 calm>>

\* A spawn that fails: the monitor goes on with the next, ReplaceWorker returns.
\* The bounds: it does so a number of times, and always once no ID is left.
SpawnFails(o) ==
  /\ op[o].pc = "spawn" /\ op[o].left > 0
  /\ \/ reports < MaxReports /\ reports' = reports + 1
     \/ stamp = Replicas + MaxStamps /\ UNCHANGED reports
  /\ op' = [op EXCEPT ![o].left = @ - 1]
  /\ UNCHANGED <<cfg, strategy, order, entry, alive, reqs, counter, procs, exited, stamp, req,
                 picks, calm>>

Add(o) ==
  /\ op[o].pc = "add"
  /\ AddWorker(op[o].id, IF o = "monitor" THEN cfg.running ELSE op[o].ok)
  /\ op' = [op EXCEPT ![o].pc = "spawn", ![o].id = 0, ![o].left = @ - 1]
  /\ Disturb
  /\ UNCHANGED <<cfg, strategy, counter, procs, exited, stamp, req, reports>>

\* Nothing left to spawn: the operation returns.
Return(o) ==
  /\ op[o].pc = "spawn" /\ op[o].left = 0
  /\ op' = [op EXCEPT ![o] = IF o = "monitor" THEN OpIdle ELSE [OpIdle EXCEPT !.pc = "done"]]
  /\ UNCHANGED <<cfg, strategy, order, entry, alive, reqs, counter, procs, exited, stamp, req,
                 reports, picks, calm>>

-----------------------------------------------------------------------------
Dispatch(r) ==
  \/ List(r) \/ PickRoundRobin(r) \/ Advance(r)
  \/ Compare(r) \/ PickLeastLoaded(r) \/ Increment(r) \/ Decrement(r)

Step(o) == Unlist(o) \/ Stop(o) \/ Spawn(o) \/ SpawnFails(o) \/ Add(o) \/ Return(o)

Next ==
  \/ \E r \in Requests : Dispatch(r)
  \/ \E i \in IDs : Exit(i) \/ \E ok \in BOOLEAN : Report(i, ok)
  \/ \E o \in Ops, i \in IDs : Replace(o, i)
  \/ Monitor \/ NotRegistered \/ CountHealthy \/ CountSize
  \/ \E o \in Ops : Step(o)

Spec == Init /\ [][Next]_vars

-----------------------------------------------------------------------------
(* Properties *)

Counted(i) == {r \in Requests : req[r].pc = "counted" /\ req[r].at = i}

\* IncrementActiveReqs and DecrementActiveReqs look the entry up each on its
\* own, by ID, while workers are replaced: for the replicas SpawnWorkers made
\* the count is that of the requests there.  (A generated ID is never counted,
\* so that least-loaded prefers it for ever.)
CountIsRequests ==
  \A i \in entry : reqs[i] = IF HasPool(i) THEN Cardinality(Counted(i)) ELSE 0

\* The IDs an operation has in hand: spawned and not yet added, or removed and
\* not yet stopped.
InHand == {op[o].id : o \in {x \in Ops : op[x].pc \in {"add", "stop"}}}

\* However ReplaceWorker and MonitorHealth overlap, no process that runs is
\* lost: each is listed, or an operation has it in hand; and no listed worker is
\* without an entry in the process manager's table.  (The entry of a process
\* that exited stays there after its worker was removed.)
NoProcessLost == procs \ exited \subseteq entry \cup InHand /\ entry \subseteq procs

\* "RoundRobin distributes requests evenly across all workers" (pool.go:16):
\* as long as the pool does not change and no two selections overlap, no worker
\* is ahead of another by more than one request.
EvenWhenCalm ==
  calm /\ strategy = "round-robin" => \A i, j \in entry : picks[i] <= picks[j] + 1

\* The calls of ReplaceWorker that have come to an end.
Replaced == {o \in Replacers : \/ op[o].pc = "done"
                               \/ op[o].pc = "spawn" /\ op[o].left = 0}

\* "Respect MaxPoolSize" (manager.go): ensureReplicas decides how many workers
\* to spawn from two counts taken one after the other, and spawns them later,
\* and ReplaceWorker does not look at the limit.  All the same the pool gets
\* beyond MaxPoolSize by no more workers than ReplaceWorker was called.
PoolIsBounded ==
  MaxPoolSize > 0 => Len(order) <= MaxPoolSize + Cardinality(Replaced)
=============================================================================
