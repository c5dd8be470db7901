--------------------------- MODULE RollingRestart ---------------------------
(***************************************************************************)
(* Stopping and restarting one worker while requests are dispatched to it: *)
(*                                                                         *)
(*   - the drainer (core/application/lifecycle/drainer.go), its WaitGroups *)
(*     and its draining mark;                                              *)
(*   - RestartWorker and StopWorker (lifecycle/service.go), step by step;  *)
(*   - the process table (infrastructure/process/manager.go);              *)
(*   - the worker's endpoint and connection (infrastructure/ipc/uds);      *)
(*   - the part of Dispatch that touches them (gateway/dispatcher.go).     *)
(*                                                                         *)
(* Nothing serialises two lifecycle calls for the same worker: the monitor,*)
(* the hot-reload watcher, SIGUSR1 and shutdown each call the service from *)
(* a goroutine of their own.  Ops is the set of calls a behaviour makes;   *)
(* it bounds the processes and the WaitGroups that can come into being.    *)
(* A "restart" is RestartWorker with the context of the core, as the       *)
(* monitor calls it; a "reload" is RestartWorker with a context that its   *)
(* caller, the SIGUSR1 handler or the hot-reload timer, cancels as soon as *)
(* it returns; a "stop" is StopWorker.                                     *)
(*                                                                         *)
(* Requests are dispatched for ever, ids being reused.                     *)
(*                                                                         *)
(* A response is delivered to the request it answers: which response a     *)
(* dispatch picks from the shared channel is the subject of another        *)
(* module.                                                                 *)
(***************************************************************************)
EXTENDS Integers, FiniteSets

CONSTANTS
  Requests,       \* concurrent dispatches to the worker
  Ops,            \* calls of the lifecycle service
  Kinds,          \* which calls they may be: a subset of CallKinds
  MayTimeOut,     \* may a drain, or the wait for the process to exit, time out?
  MayFail         \* may Register or Spawn fail, may the worker crash?

CallKinds == {"restart", "reload", "stop"}

ASSUME RestartAssumption ==
  /\ IsFiniteSet(Requests)
  /\ IsFiniteSet(Ops) /\ 0 \notin Ops
  /\ Kinds \subseteq CallKinds
  /\ MayTimeOut \in BOOLEAN
  /\ MayFail \in BOOLEAN

VARIABLES
  draining,   \* WorkerDrainer.draining[worker]
  inflight,   \* WorkerDrainer.inflight[worker]: a WaitGroup, or 0 for none
  made,       \* WaitGroups made so far, numbered from 1
  group,      \* the counter of each of them
  asleep,     \* the calls whose Wait sleeps on the WaitGroup they hold
  wstate,     \* Worker.State in the repository
  table,      \* process.Manager.processes[worker]: a process, or 0 for none
  spawned,    \* processes started so far, numbered from 1
  alive,      \* those running
  signalled,  \* those sent SIGTERM
  listening,  \* the call whose accept is pending on the worker's socket, or 0
  dialled,    \* processes that have connected to the worker's socket
  conn,       \* Transport.connections[worker]: the process at its other end, or 0
  op,         \* the lifecycle calls
  req,        \* the dispatches
  answer,     \* the status each dispatch returns, 0 while it is open
  early,      \* history: in flight since before this call marked the worker
  expired     \* history: calls whose drain timed out

drainer == <<draining, inflight, made, group, asleep>>
processes == <<table, spawned, alive, signalled>>
transport == <<listening, dialled, conn>>
history == <<early, expired>>
vars == <<drainer, wstate, processes, transport, op, req, answer, history>>

Bound == Cardinality(Ops) + 1
Processes == 1..Bound
Groups == 1..Bound
None == 0

OpSteps == {"new", "mark", "drain", "wait", "blocked", "lost", "stop", "exit",
            "deregister", "register", "spawn", "running", "stopped", "cleanup", "done", "failed"}

\* The steps of a call inside Drain's wait, and of a dispatch that holds the worker.
Waiting == {"wait", "blocked", "lost"}
InFlight == {"acquired", "locking", "writing", "sent", "waiting", "replied", "release"}
ReqSteps == {"idle", "checked"} \cup InFlight

TypeOK ==
  /\ draining \in BOOLEAN
  /\ inflight \in Groups \cup {None}
  /\ made \in Groups \cup {0}
  /\ group \in [Groups -> Int]
  /\ asleep \subseteq Ops
  /\ wstate \in {"running", "restarting", "stopped"}
  /\ table \in Processes \cup {None}
  /\ spawned \in Processes
  /\ alive \subseteq 1..spawned
  /\ signalled \subseteq 1..spawned
  /\ listening \in Ops \cup {None}
  /\ dialled \subseteq Processes
  /\ conn \in Processes \cup {None}
  /\ op \in [Ops -> [pc : OpSteps, kind : CallKinds,
                     on : Groups \cup {None}, target : Processes \cup {None}]]
  /\ req \in [Requests -> [pc : ReqSteps, to : Processes \cup {None},
                           via : Processes \cup {None}]]
  /\ answer \in [Requests -> {0, 200, 502, 503, 504}]
  /\ early \in [Ops -> SUBSET Requests]
  /\ expired \subseteq Ops

\* A dispatch before it starts; later "to" is the process on whose connection
\* the request is written and "via" the one whose connection is waited on.
Idle == [pc |-> "idle", to |-> None, via |-> None]

\* The worker runs, is connected and serves.
Init ==
  /\ draining = FALSE
  /\ inflight = None
  /\ made = 0
  /\ group = [g \in Groups |-> 0]
  /\ asleep = {}
  /\ wstate = "running"
  /\ table = 1
  /\ spawned = 1
  /\ alive = {1}
  /\ signalled = {}
  /\ listening = None
  /\ dialled = {1}
  /\ conn = 1
  /\ op \in [Ops -> [pc : {"new"}, kind : Kinds, on : {None}, target : {None}]]
  /\ req = [r \in Requests |-> Idle]
  /\ answer = [r \in Requests |-> 0]
  /\ early = [o \in Ops |-> {}]
  /\ expired = {}

-----------------------------------------------------------------------------
(* Dispatch *)

Holders == {r \in Requests : req[r].pc \in InFlight}

ReqGoes(r, from, to) == req[r].pc = from /\ req' = [req EXCEPT ![r].pc = to]

\* The dispatch has its result, and still holds the worker.
Over == [pc |-> "release", to |-> None, via |-> None]
ReqEnds(r, from) == req[r].pc = from /\ req' = [req EXCEPT ![r] = Over]

Answer(r, status) == answer' = [answer EXCEPT ![r] = status]

\* Mutant: requests are let through while the worker is draining.
CheckDrainStatusIgnored(r) ==
  /\ ReqGoes(r, "idle", "checked")
  /\ Answer(r, 0)
  /\ UNCHANGED <<drainer, wstate, processes, transport, op, history>>

\* checkDrainStatus: the only look Dispatch takes at the draining mark.
CheckDrainStatus(r) ==
  /\ \/ ~draining /\ ReqGoes(r, "idle", "checked") /\ Answer(r, 0)
     \/ draining /\ ReqGoes(r, "idle", "idle") /\ Answer(r, 503)
  /\ UNCHANGED <<drainer, wstate, processes, transport, op, history>>

\* Acquire: LoadOrStore a WaitGroup, then add one to it.
Acquire(r) ==
  /\ ReqGoes(r, "checked", "acquired")
  /\ made' = IF inflight = None THEN made + 1 ELSE made
  /\ inflight' = IF inflight = None THEN made' ELSE inflight
  /\ group' = [group EXCEPT ![inflight'] = @ + 1]
  /\ UNCHANGED <<draining, asleep, wstate, processes, transport, op, answer, history>>

\* A connection carries frames while its process runs and it is not closed.
Usable(p) == p \in alive /\ p = conn

\* transport.Send looks the connection up, and fails without one.
Send(r) ==
  /\ req[r].pc = "acquired"
  /\ \/ /\ conn # None
        /\ req' = [req EXCEPT ![r].pc = "locking", ![r].to = conn]
        /\ UNCHANGED answer
     \/ /\ conn = None
        /\ req' = [req EXCEPT ![r] = Over]
        /\ Answer(r, 502)
  /\ UNCHANGED <<drainer, wstate, processes, transport, op, history>>

\* One Send at a time holds the connection's writeMu, for all of its write.
LockWrite(r) ==
  /\ \A q \in Requests : req[q].pc = "writing" => req[q].to # req[r].to
  /\ ReqGoes(r, "locking", "writing")
  /\ UNCHANGED <<drainer, wstate, processes, transport, op, answer, history>>

\* The worker's end takes the frame.  The write heeds no context and has no
\* deadline: a worker that stops reading holds it up for as long as it likes,
\* and with it those that wait for the lock.
Written(r) ==
  /\ Usable(req[r].to)
  /\ ReqGoes(r, "writing", "sent")
  /\ UNCHANGED <<drainer, wstate, processes, transport, op, answer, history>>

\* The worker is gone from the other end, or the connection was closed.
WriteError(r) ==
  /\ ~Usable(req[r].to)
  /\ ReqEnds(r, "writing")
  /\ Answer(r, 502)
  /\ UNCHANGED <<drainer, wstate, processes, transport, op, history>>

\* ReceiveResponse looks the connection up again, then waits on its channel.
\* Finding the connection of a newer process it waits for a response that
\* will not come.
Receive(r) ==
  /\ req[r].pc = "sent"
  /\ \/ /\ conn # None
        /\ req' = [req EXCEPT ![r].pc = "waiting", ![r].via = conn]
        /\ UNCHANGED answer
     \/ /\ conn = None
        /\ req' = [req EXCEPT ![r] = Over]
        /\ Answer(r, 502)
  /\ UNCHANGED <<drainer, wstate, processes, transport, op, history>>

\* The worker answers: its response reaches the channel of its connection.
Reply(r) ==
  /\ req[r].to = req[r].via
  /\ Usable(req[r].via)
  /\ ReqGoes(r, "waiting", "replied")
  /\ UNCHANGED <<drainer, wstate, processes, transport, op, answer, history>>

Deliver(r) ==
  /\ ReqEnds(r, "replied")
  /\ Answer(r, 200)
  /\ UNCHANGED <<drainer, wstate, processes, transport, op, history>>

\* The connection broke before the response: the read pump closed the channel.
ReceiveError(r) ==
  /\ ReqEnds(r, "waiting")
  /\ ~Usable(req[r].via)
  /\ Answer(r, 502)
  /\ UNCHANGED <<drainer, wstate, processes, transport, op, history>>

\* The dispatch context expires.
ReceiveTimeout(r) ==
  /\ ReqEnds(r, "waiting")
  /\ Answer(r, 504)
  /\ UNCHANGED <<drainer, wstate, processes, transport, op, history>>

\* Those that sleep on the WaitGroup are woken, all at once, by the Done that
\* brings it to zero.
Wake == asleep' = {o \in asleep : op[o].on = inflight => group'[inflight] # 0}

\* Mutant: the request is not taken off the WaitGroup when it failed.
ReleaseOnSuccess(r) ==
  /\ req[r].pc = "release"
  /\ req' = [req EXCEPT ![r] = Idle]
  /\ group' = IF inflight = None \/ answer[r] # 200 THEN group
              ELSE [group EXCEPT ![inflight] = @ - 1]
  /\ Wake
  /\ Answer(r, 0)
  /\ early' = [o \in Ops |-> early[o] \ {r}]
  /\ UNCHANGED <<draining, inflight, made, wstate, processes, transport, op, expired>>

\* Release: Done on whatever WaitGroup the worker has now, if any.  Done on a
\* counter of zero panics; the count then shows as negative.
Release(r) ==
  /\ req[r].pc = "release"
  /\ req' = [req EXCEPT ![r] = Idle]
  /\ group' = IF inflight = None THEN group ELSE [group EXCEPT ![inflight] = @ - 1]
  /\ Wake
  /\ Answer(r, 0)
  /\ early' = [o \in Ops |-> early[o] \ {r}]
  /\ UNCHANGED <<draining, inflight, made, wstate, processes, transport, op, expired>>

-----------------------------------------------------------------------------
(* RestartWorker and StopWorker *)

OpGoes(o, from, to) == op[o].pc = from /\ op' = [op EXCEPT ![o].pc = to]

\* RestartWorker saves StateRestarting before anything else, StopWorker only
\* reads the worker.  Neither looks at the state it finds.
Begin(o) ==
  /\ OpGoes(o, "new", "mark")
  /\ wstate' = IF op[o].kind = "stop" THEN wstate ELSE "restarting"
  /\ UNCHANGED <<drainer, processes, transport, req, answer, history>>

MarkDraining(o) ==
  /\ OpGoes(o, "mark", "drain")
  /\ draining' = TRUE
  /\ early' = [early EXCEPT ![o] = Holders]
  /\ UNCHANGED <<inflight, made, group, asleep, wstate, processes, transport, req, answer,
                 expired>>

\* Drain loads the worker's WaitGroup; without one there is nothing to drain.
Drain(o) ==
  /\ \/ inflight = None /\ OpGoes(o, "drain", "stop")
     \/ /\ inflight # None
        /\ op[o].pc = "drain"
        /\ op' = [op EXCEPT ![o].pc = "wait", ![o].on = inflight]
  /\ UNCHANGED <<drainer, wstate, processes, transport, req, answer, history>>

\* The goroutine of the drain calls Wait: on a counter of zero it returns at
\* once, and sleeps on any other.
WaitBegins(o) ==
  /\ \/ /\ OpGoes(o, "wait", "stop")
        /\ group[op[o].on] = 0
        /\ UNCHANGED asleep
     \/ /\ OpGoes(o, "wait", "blocked")
        /\ group[op[o].on] # 0
        /\ asleep' = asleep \cup {o}
  /\ UNCHANGED <<draining, inflight, made, group, wstate, processes, transport, req, answer,
                 history>>

\* Mutant: the drain goes on while one request is left.
WaitReturnsEarly(o) ==
  /\ OpGoes(o, "blocked", "stop")
  /\ group[op[o].on] <= 1
  /\ UNCHANGED <<drainer, wstate, processes, transport, req, answer, history>>

\* A Wait that was woken finds the counter still at zero, or else panics: an
\* Acquire has used the WaitGroup again.  LogPanic swallows the panic and the
\* channel the drain listens to is never closed.
WaitReturns(o) ==
  /\ o \notin asleep
  /\ \/ OpGoes(o, "blocked", "stop") /\ group[op[o].on] = 0
     \/ OpGoes(o, "blocked", "lost") /\ group[op[o].on] # 0
  /\ UNCHANGED <<drainer, wstate, processes, transport, req, answer, history>>

\* shutdownTimeout passed, or the caller's context ended: both callers go on.
DrainTimeout(o) ==
  /\ MayTimeOut
  /\ \E l \in Waiting : OpGoes(o, l, "stop")
  /\ expired' = expired \cup {o}
  /\ UNCHANGED <<drainer, wstate, processes, transport, req, answer, early>>

\* manager.Stop sends SIGTERM to the process it finds in the table.  Without
\* one (ErrNotFound), and when the process found is already gone (the signal
\* fails), Stop and its caller return the error at once.
StopSignal(o) ==
  /\ op[o].pc = "stop"
  /\ \/ /\ table \in alive
        /\ op' = [op EXCEPT ![o].pc = "exit", ![o].target = table]
        /\ signalled' = signalled \cup {table}
     \/ /\ table \notin alive
        /\ op' = [op EXCEPT ![o].pc = "failed"]
        /\ UNCHANGED signalled
  /\ UNCHANGED <<drainer, wstate, table, spawned, alive, transport, req, answer, history>>

\* Mutant: Stop forgets the process without waiting for it to exit.
StopWaitedNot(o) ==
  /\ op[o].pc = "exit"
  /\ op' = [op EXCEPT ![o].pc = IF op[o].kind = "stop" THEN "stopped" ELSE "deregister"]
  /\ table' = None
  /\ UNCHANGED <<drainer, wstate, spawned, alive, signalled, transport, req, answer, history>>

\* The process exited: Stop removes the worker's table entry, whichever
\* process it stands for by now.
StopWaited(o) ==
  /\ op[o].pc = "exit"
  /\ op[o].target \notin alive
  /\ op' = [op EXCEPT ![o].pc = IF op[o].kind = "stop" THEN "stopped" ELSE "deregister"]
  /\ table' = None
  /\ UNCHANGED <<drainer, wstate, spawned, alive, signalled, transport, req, answer, history>>

\* It did not exit in time: Stop kills it and returns ErrStopTimeout, and the
\* caller returns that error.
StopTimeout(o) ==
  /\ MayTimeOut
  /\ op[o].target \in alive
  /\ OpGoes(o, "exit", "failed")
  /\ alive' = alive \ {op[o].target}
  /\ table' = None
  /\ UNCHANGED <<drainer, wstate, spawned, signalled, transport, req, answer, history>>

Deregister(o) ==
  /\ OpGoes(o, "deregister", "register")
  /\ listening' = None
  /\ conn' = None
  /\ UNCHANGED <<drainer, wstate, processes, dialled, req, answer, history>>

\* Mutant: the socket is made but nothing accepts on it.
RegisterNoAccept(o) ==
  /\ OpGoes(o, "register", "spawn")
  /\ UNCHANGED <<drainer, wstate, processes, transport, req, answer, history>>

\* Register listens on the socket and starts to accept one connection, for as
\* long as the context of this call lasts.
Register(o) ==
  /\ OpGoes(o, "register", "spawn")
  /\ listening' = o
  /\ UNCHANGED <<drainer, wstate, processes, dialled, conn, req, answer, history>>

\* Register or Spawn returns an error: the worker is saved as stopped.
RestartFails(o) ==
  /\ MayFail
  /\ OpGoes(o, "register", "failed") \/ OpGoes(o, "spawn", "failed")
  /\ wstate' = "stopped"
  /\ UNCHANGED <<drainer, processes, transport, req, answer, history>>

\* Spawn overwrites the worker's table entry.
Spawn(o) ==
  /\ OpGoes(o, "spawn", "running")
  /\ spawned' = spawned + 1
  /\ alive' = alive \cup {spawned'}
  /\ table' = spawned'
  /\ UNCHANGED <<drainer, wstate, signalled, transport, req, answer, history>>

\* RestartWorker saves StateRunning and returns nil.
SaveRunning(o) ==
  /\ OpGoes(o, "running", "done")
  /\ wstate' = "running"
  /\ UNCHANGED <<drainer, processes, transport, req, answer, history>>

SaveStopped(o) ==
  /\ OpGoes(o, "stopped", "cleanup")
  /\ wstate' = "stopped"
  /\ UNCHANGED <<drainer, processes, transport, req, answer, history>>

\* StopWorker, and only StopWorker, forgets the WaitGroup and the mark.
Cleanup(o) ==
  /\ OpGoes(o, "cleanup", "done")
  /\ inflight' = None
  /\ draining' = FALSE
  /\ UNCHANGED <<made, group, asleep, wstate, processes, transport, req, answer, history>>

\* The context of a call ends when its caller cancels it on return, or after
\* its 60 seconds: an accept still pending under it closes the socket.
ContextEnds(o) ==
  /\ op[o].kind = "reload"
  /\ op[o].pc \in {"done", "failed"} \/ MayTimeOut
  /\ listening = o
  /\ listening' = None
  /\ UNCHANGED <<drainer, wstate, processes, dialled, conn, op, req, answer, history>>

-----------------------------------------------------------------------------
(* The worker's processes *)

\* A process without a connection, and with no socket to dial or none left to
\* dial again: the workers of the SDKs dial once and exit when they are cut off.
CutOff(p) == p # conn /\ (p \in dialled \/ listening = None)

\* A process sent SIGTERM ends, one that is cut off may; a crash ends any.
Exit(p) ==
  /\ p \in alive
  /\ p \in signalled \/ CutOff(p) \/ MayFail
  /\ alive' = alive \ {p}
  /\ UNCHANGED <<drainer, wstate, table, spawned, signalled, transport, op, req, answer, history>>

\* A new process dials the socket and is accepted, once per Register.
Connect(p) ==
  /\ p \in alive \ dialled
  /\ listening # None
  /\ listening' = None
  /\ dialled' = dialled \cup {p}
  /\ conn' = p
  /\ UNCHANGED <<drainer, wstate, processes, op, req, answer, history>>

-----------------------------------------------------------------------------

\* The steps of Dispatch after its look at the draining mark.
Proceed(r) ==
  \/ Acquire(r) \/ Send(r) \/ LockWrite(r) \/ WriteError(r) \/ Receive(r) \/ Deliver(r)
  \/ ReceiveError(r) \/ ReceiveTimeout(r) \/ Release(r)

Lifecycle(o) ==
  \/ Begin(o) \/ MarkDraining(o) \/ Drain(o) \/ WaitBegins(o) \/ WaitReturns(o)
  \/ DrainTimeout(o) \/ StopSignal(o) \/ StopWaited(o) \/ StopTimeout(o)
  \/ Deregister(o) \/ Register(o) \/ RestartFails(o) \/ Spawn(o) \/ SaveRunning(o)
  \/ SaveStopped(o) \/ Cleanup(o)

Next ==
  \/ \E r \in Requests : CheckDrainStatus(r) \/ Proceed(r) \/ Written(r) \/ Reply(r)
  \/ \E o \in Ops : Lifecycle(o) \/ ContextEnds(o)
  \/ \E p \in Processes : Exit(p) \/ Connect(p)

Spec == Init /\ [][Next]_vars

\* A dispatch goes on, but for its write, which has no deadline as the wait for
\* the response has.  Clients need not send requests, and the worker need
\* neither read them nor answer.
RequestsGoOn == \A r \in Requests : WF_vars(Proceed(r))

\* Calls of the service go on; a process sent SIGTERM exits or is killed, and
\* a new one dials its socket as soon as it runs.
CallsGoOn ==
  /\ \A o \in Ops : WF_vars(Lifecycle(o)) /\ WF_vars(ContextEnds(o))
  /\ \A p \in Processes : WF_vars(p \in signalled /\ Exit(p)) /\ WF_vars(Connect(p))

FairSpec == Spec /\ RequestsGoOn /\ CallsGoOn

-----------------------------------------------------------------------------
(* Safety *)

\* The steps of a call once it has drained and gone on to the process.
Drained == OpSteps \ ({"new", "mark", "drain"} \cup Waiting)

\* A call goes on to stop the process only when no request that was in flight
\* as it marked the worker still is, unless its drain timed out: "Drain waits
\* for all in-flight requests for a worker to complete" (drainer.go).  It is
\* this that lets a restart keep the requests it found.
DrainWaitsForEarlyRequests ==
  \A o \in Ops : op[o].pc \in Drained /\ o \notin expired => early[o] = {}

\* The WaitGroup of the worker counts exactly the requests between Acquire
\* and Release.
CountIsInFlight ==
  /\ inflight # None => group[inflight] = Cardinality(Holders)
  /\ inflight = None => Holders = {}

\* The process table knows every running process, except the one a Spawn has
\* just started and one that is being stopped: no process escapes StopAll.
EveryProcessIsTracked ==
  \A p \in alive : p = table \/ \E o \in Ops : op[o].pc = "exit" /\ op[o].target = p

\* No request is lost to a restart that has drained: when nothing times out or
\* fails, a request in flight when a call marks the worker is answered by it.
EarlyRequestsAreServed ==
  [][\A r \in Requests, o \in Ops :
       /\ r \in early[o]
       /\ req[r].pc # "release"
       /\ req'[r].pc = "release"
       => answer'[r] # 502]_vars

\* What stands for the parts of Handover.  The door is the draining mark, the
\* server the process that runs; a call that has timed out owes nothing more.
Admitted == {r \in Requests : req[r].pc = "checked"}
Owed == UNION {early[o] : o \in Ops \ expired}
Failed == {r \in Requests : req[r].pc = "release" /\ answer[r] = 502}
Server == IF alive = {} THEN "gone" ELSE IF alive \cap signalled = {} THEN "up" ELSE "told"

Place == INSTANCE Handover WITH
  Patient <- ~MayTimeOut,
  Reliable <- ~MayFail /\ "reload" \notin Kinds,
  closed <- draining, admitted <- Admitted, inside <- Holders, owed <- Owed,
  failed <- Failed, server <- Server

\* A restart or a stop implements Handover: the worker's process is sent SIGTERM
\* only behind the draining mark and when the requests found in flight are
\* over, the next process starts when the last one is gone, the mark goes only
\* when there is none, and without failures no request is answered 502 that
\* was in flight when the worker was marked, or that comes before.
HandsOver == Place!Spec

(* Liveness *)

\* Without the help of a timeout a call of the service comes to an end, since
\* the draining mark keeps new requests from holding up the drain for ever.
\* There are two exceptions, and no other: a request that was let in before
\* the mark acquires after the WaitGroup came to zero and before the drain's
\* Wait has woken, which panics; or a request stays in its write because the
\* worker does not read.
EveryCallEnds ==
  \A o \in Ops :
    \/ <>(op[o].pc \in {"done", "failed"})
    \/ <>[](op[o].pc = "lost")
    \/ \E r \in Requests : <>[](req[r].pc = "writing")

\* A worker saved as running by RestartWorker comes to be connected: its new
\* process finds a socket to dial.  This holds when the context given to
\* Register outlives the call, and is what "gracefully restarted" promises
\* (main.go, SIGUSR1).
RestartedWorkerConnects ==
  \A o \in Ops :
    op[o].pc = "done" /\ op[o].kind # "stop" /\ wstate = "running" ~> conn \in alive
=============================================================================
