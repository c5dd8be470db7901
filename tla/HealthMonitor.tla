--------------------------- MODULE HealthMonitor ---------------------------
(***************************************************************************)
(* How the core notices that a worker is gone and brings it back:          *)
(*                                                                         *)
(*   - the heartbeat loops (core/application/heartbeat/loop.go) and the    *)
(*     receiver that starts, cancels and forgets them (receiver.go);       *)
(*   - the monitor that looks for stale heartbeats (monitor/monitor.go);   *)
(*   - the lifecycle service as these two use it: RecordHeartbeat,         *)
(*     MarkUnhealthy, MarkRunning, RestartWorker (lifecycle/service.go);   *)
(*   - the worker's record in the repository (repository/memory*.go).      *)
(*                                                                         *)
(* The repository hands out copies and saves whole records, and the        *)
(* service holds no lock from the one to the other: each of its methods is *)
(* two steps here, and a save can undo what was saved in between.          *)
(*                                                                         *)
(* One worker, since workers share only the locks.  The states begin when  *)
(* the worker has connected, shaken hands and been saved as running, when  *)
(* main starts the services.  Draining and the process table are the       *)
(* subject of RollingRestart: here Stop ends the process or fails.         *)
(*                                                                         *)
(* Time.  The monitor asks whether LastHeartbeat is older than two         *)
(* intervals: a heartbeat is "fresh" and becomes "stale" as time passes.   *)
(***************************************************************************)
EXTENDS Naturals

CONSTANTS
  Loops,            \* heartbeat loops alive at a time (ids are reused)
  Calls,            \* calls of RestartWorker under way at a time
  MissedThreshold,  \* Config.MissedThreshold
  Troubles,         \* what may happen, a subset of AllTroubles
  None, Root, Done  \* no loop or connection; the core's context; a cancelled one

\* The worker hangs or crashes, a restart cannot register or spawn it, a file
\* changes or SIGUSR1 arrives, the core is told to stop.
AllTroubles == {"hang", "crash", "respawn", "reload", "shutdown"}

ASSUME HealthAssumption ==
  /\ MissedThreshold \in Nat \ {0}
  /\ Troubles \subseteq AllTroubles
  /\ None \notin Loops
  /\ {None, Root, Done, "open"} \cap Calls = {}
  /\ None # Root /\ Root # Done /\ None # "open" /\ Root # "open"

VARIABLES
  repo,     \* the worker's record: State and LastHeartbeat
  proc,     \* the worker's process: "up", "silent" (hung) or "dead"
  link,     \* its connection: "open", None, or the context an accept waits under
  hello,    \* is its handshake frame unread?
  loop,     \* the heartbeat loops
  running,  \* Receiver.running[worker]: the loop it tracks, or None
  mon,      \* the monitor: where checkAll is
  call,     \* the calls of RestartWorker
  core      \* "up", "ending" (context cancelled), "ended" (receiver stopped)

vars == <<repo, proc, link, hello, loop, running, mon, call, core>>

States == {"running", "unhealthy", "restarting", "stopped"}
Records == [state : States, hb : {"fresh", "stale"}]
LoopSteps == {"off", "read", "record", "greet", "condemn", "exit"}
CallSteps == {"idle", "backoff", "begin", "stop", "respawn", "running", "loop", "return"}
LoopRecords == [pc : LoopSteps, missed : 0..(MissedThreshold - 1), copy : Records,
                ctx : Calls \cup {Root, Done}]
CallRecords == [pc : CallSteps, copy : Records, reload : BOOLEAN]

\* What a service method has read with FindByID and is about to Save, with a
\* placeholder outside.
NoCopy == [state |-> "stopped", hb |-> "stale"]

TypeOK ==
  /\ repo \in Records
  /\ proc \in {"up", "silent", "dead"}
  /\ link \in {"open", None, Root} \cup Calls
  /\ hello \in BOOLEAN
  /\ loop \in [Loops -> LoopRecords]
  /\ running \in Loops \cup {None}
  /\ mon \in [pc : {"idle", "mark", "save"}, copy : Records]
  /\ call \in [Calls -> CallRecords]
  /\ core \in {"up", "ending", "ended"}

LoopOff == [pc |-> "off", missed |-> 0, copy |-> NoCopy, ctx |-> Root]
CallIdle == [pc |-> "idle", copy |-> NoCopy, reload |-> FALSE]

Init ==
  /\ repo = [state |-> "running", hb |-> "fresh"]
  /\ proc = "up"
  /\ link = "open"
  /\ hello = FALSE
  /\ loop = [l \in Loops |-> LoopOff]
  /\ running = None
  /\ mon = [pc |-> "idle", copy |-> NoCopy]
  /\ call = [c \in Calls |-> CallIdle]
  /\ core = "up"

-----------------------------------------------------------------------------
(* The heartbeat loop *)

\* The loop's context is done: it was cancelled, or the core is ending.  The
\* context of a SIGUSR1 reload does not come from that of the core; it ends
\* when the reload returns.
Cancelled(l) == loop[l].ctx = Done \/ (loop[l].ctx = Root /\ core # "up")

Reading(l) == loop[l].pc = "read"

\* Run looks at its context before it reads again.
NextIteration(l) == IF Cancelled(l) THEN "exit" ELSE "read"

\* Mutant: the heartbeat of an unhealthy worker does not make it run again.
AliveKeepsState(w) == [w EXCEPT !.hb = "fresh"]

\* What RecordHeartbeat makes of a worker: unhealthy becomes running.
Alive(w) == [state |-> IF w.state = "unhealthy" THEN "running" ELSE w.state, hb |-> "fresh"]

Unhealthy(w) == [w EXCEPT !.state = "unhealthy"]

\* Receive returns a heartbeat, and RecordHeartbeat reads the worker.  On a new
\* connection the handshake comes first.
ReceiveHeartbeat(l) ==
  /\ Reading(l)
  /\ link = "open" /\ proc = "up" /\ ~hello
  /\ loop' = [loop EXCEPT ![l].pc = "record", ![l].missed = 0, ![l].copy = Alive(repo)]
  /\ UNCHANGED <<repo, proc, link, hello, running, mon, call, core>>

RecordHeartbeat(l) ==
  /\ loop[l].pc = "record"
  /\ repo' = loop[l].copy
  /\ loop' = [loop EXCEPT ![l].pc = NextIteration(l), ![l].copy = NoCopy]
  /\ UNCHANGED <<proc, link, hello, running, mon, call, core>>

\* Receive returns the handshake of a restarted worker.  MarkRunning reads the
\* worker and leaves one that is already running alone.
ReceiveHandshake(l) ==
  /\ Reading(l)
  /\ link = "open" /\ hello
  /\ hello' = FALSE
  /\ loop' = [loop EXCEPT ![l].pc = IF repo.state = "running" THEN NextIteration(l) ELSE "greet",
                          ![l].missed = 0]
  /\ UNCHANGED <<repo, proc, link, running, mon, call, core>>

MarkRunning(l) ==
  /\ loop[l].pc = "greet"
  /\ repo' = [state |-> "running", hb |-> "fresh"]
  /\ loop' = [loop EXCEPT ![l].pc = NextIteration(l)]
  /\ UNCHANGED <<proc, link, hello, running, mon, call, core>>

\* Receive fails: the worker is silent, gone or not connected for longer than
\* the grace period, or another loop took its heartbeats.
ReceiveFails(l) ==
  \/ link # "open"
  \/ proc # "up"
  \/ \E k \in Loops \ {l} : loop[k].pc \in {"read", "record"}

\* handleReceiveError: the miss is counted; at the threshold MarkUnhealthy
\* reads the worker and the loop is to end.
Miss(l) ==
  /\ Reading(l)
  /\ ~Cancelled(l)
  /\ ReceiveFails(l)
  /\ \/ /\ loop[l].missed + 1 < MissedThreshold
        /\ loop' = [loop EXCEPT ![l].missed = @ + 1]
     \/ /\ loop[l].missed + 1 >= MissedThreshold
        /\ loop' = [loop EXCEPT ![l].pc = "condemn", ![l].missed = 0, ![l].copy = Unhealthy(repo)]
  /\ UNCHANGED <<repo, proc, link, hello, running, mon, call, core>>

MarkUnhealthy(l) ==
  /\ loop[l].pc = "condemn"
  /\ repo' = loop[l].copy
  /\ loop' = [loop EXCEPT ![l].pc = "exit", ![l].copy = NoCopy]
  /\ UNCHANGED <<proc, link, hello, running, mon, call, core>>

\* Receive, too, returns when the context is done, unless it has a message.
StopReading(l) ==
  /\ Reading(l)
  /\ Cancelled(l)
  /\ loop' = [loop EXCEPT ![l].pc = "exit"]
  /\ UNCHANGED <<repo, proc, link, hello, running, mon, call, core>>

\* Mutant: a loop that has ended leaves the entry of the worker behind.
ExitKeepsEntry(l) ==
  /\ loop[l].pc = "exit"
  /\ loop' = [loop EXCEPT ![l] = LoopOff]
  /\ UNCHANGED <<repo, proc, link, hello, running, mon, call, core>>

\* The deferred delete takes the worker's entry away, whichever loop it is.
Exit(l) ==
  /\ loop[l].pc = "exit"
  /\ loop' = [loop EXCEPT ![l] = LoopOff]
  /\ running' = None
  /\ UNCHANGED <<repo, proc, link, hello, mon, call, core>>

LoopStep(l) ==
  \/ ReceiveHeartbeat(l) \/ RecordHeartbeat(l)
  \/ ReceiveHandshake(l) \/ MarkRunning(l)
  \/ Miss(l) \/ MarkUnhealthy(l) \/ StopReading(l) \/ Exit(l)

-----------------------------------------------------------------------------
(* The receiver *)

\* launchLocked: a new loop under the given context, tracked from now on.
LoopUnder(ctx) == [LoopOff EXCEPT !.pc = "read", !.ctx = ctx]

\* Mutant: a worker found unhealthy is not listened to again.
ReconcileHealthyOnly(l) ==
  /\ core # "ended"
  /\ running = None
  /\ repo.state = "running"
  /\ loop[l].pc = "off"
  /\ loop' = [loop EXCEPT ![l] = LoopUnder(Root)]
  /\ running' = l
  /\ UNCHANGED <<repo, proc, link, hello, mon, call, core>>

\* Mutant: the loop does not end with the context of the core.
ReconcileDetached(l) ==
  /\ core # "ended"
  /\ running = None
  /\ loop[l].pc = "off"
  /\ \E c \in Calls : loop' = [loop EXCEPT ![l] = LoopUnder(c)]
  /\ running' = l
  /\ UNCHANGED <<repo, proc, link, hello, mon, call, core>>

\* reconcile (and StartLoop, which does the same for one worker) starts a loop
\* for a worker that has no entry.  LiveWorkerIDs lists every worker of the
\* repository, whatever its state, and none is ever deleted from it.
Reconcile(l) ==
  /\ core # "ended"
  /\ running = None
  /\ loop[l].pc = "off"
  /\ loop' = [loop EXCEPT ![l] = LoopUnder(Root)]
  /\ running' = l
  /\ UNCHANGED <<repo, proc, link, hello, mon, call, core>>

\* The core's context is cancelled.
Shutdown ==
  /\ "shutdown" \in Troubles
  /\ core = "up"
  /\ core' = "ending"
  /\ UNCHANGED <<repo, proc, link, hello, loop, running, mon, call>>

\* The loops after the receiver cancels the one it tracks.
CancelTracked == [l \in Loops |->
  IF l = running THEN [loop[l] EXCEPT !.ctx = Done] ELSE loop[l]]

\* stopAll, then Run returns.
StopAll ==
  /\ core = "ending"
  /\ core' = "ended"
  /\ loop' = CancelTracked
  /\ running' = None
  /\ UNCHANGED <<repo, proc, link, hello, mon, call>>

-----------------------------------------------------------------------------
(* The monitor *)

\* checkAll looks only at workers whose state is running.  (LastHeartbeat is
\* never zero once the worker has shaken hands.)
Check ==
  /\ core = "up"
  /\ mon.pc = "idle"
  /\ repo = [state |-> "running", hb |-> "stale"]
  /\ mon' = [mon EXCEPT !.pc = "mark"]
  /\ UNCHANGED <<repo, proc, link, hello, loop, running, call, core>>

\* MarkUnhealthy reads the worker again.
CheckMarks ==
  /\ mon.pc = "mark"
  /\ mon' = [pc |-> "save", copy |-> Unhealthy(repo)]
  /\ UNCHANGED <<repo, proc, link, hello, loop, running, call, core>>

\* MarkUnhealthy saves, and a goroutine is started to restart the worker.
CheckSchedules(c) ==
  /\ mon.pc = "save"
  /\ call[c].pc = "idle"
  /\ repo' = mon.copy
  /\ mon' = [pc |-> "idle", copy |-> NoCopy]
  /\ call' = [call EXCEPT ![c].pc = "backoff"]
  /\ UNCHANGED <<proc, link, hello, loop, running, core>>

-----------------------------------------------------------------------------
(* RestartWorker *)

Restarting(w) == [w EXCEPT !.state = "restarting"]

\* The backoff is over and RestartWorker reads the worker, or the context is
\* done and the goroutine returns.
BackoffOver(c) ==
  /\ call[c].pc = "backoff"
  /\ \/ call' = [call EXCEPT ![c].pc = "begin", ![c].copy = Restarting(repo)]
     \/ core # "up" /\ call' = [call EXCEPT ![c] = CallIdle]
  /\ UNCHANGED <<repo, proc, link, hello, loop, running, mon, core>>

\* The SIGUSR1 handler or the hot-reload timer calls RestartWorker.
Reload(c) ==
  /\ "reload" \in Troubles
  /\ core = "up"
  /\ call[c].pc = "idle"
  /\ call' = [call EXCEPT ![c] = [pc |-> "begin", copy |-> Restarting(repo), reload |-> TRUE]]
  /\ UNCHANGED <<repo, proc, link, hello, loop, running, mon, core>>

Begin(c) ==
  /\ call[c].pc = "begin"
  /\ repo' = call[c].copy
  /\ call' = [call EXCEPT ![c].pc = "stop"]
  /\ UNCHANGED <<proc, link, hello, loop, running, mon, core>>

\* manager.Stop: a process that is dead already, or that had to be killed, is
\* an error, and RestartWorker returns it.
Stop(c) ==
  /\ call[c].pc = "stop"
  /\ proc' = "dead"
  /\ \/ /\ proc # "dead"
        /\ call' = [call EXCEPT ![c].pc = "respawn"]
     \/ /\ proc \in {"dead", "silent"}
        /\ call' = [call EXCEPT ![c] = CallIdle]
  /\ UNCHANGED <<repo, link, hello, loop, running, mon, core>>

\* Deregister, Register and Spawn.  The accept waits under the caller's context.
Respawn(c) ==
  /\ call[c].pc = "respawn"
  /\ proc' = "up"
  /\ link' = IF call[c].reload THEN c ELSE Root
  /\ hello' = FALSE
  /\ call' = [call EXCEPT ![c].pc = "running"]
  /\ UNCHANGED <<repo, loop, running, mon, core>>

\* Register or Spawn fails: the worker is saved as stopped.
RespawnFails(c) ==
  /\ "respawn" \in Troubles
  /\ call[c].pc = "respawn"
  /\ link' = None
  /\ hello' = FALSE
  /\ repo' = [call[c].copy EXCEPT !.state = "stopped"]
  /\ call' = [call EXCEPT ![c] = CallIdle]
  /\ UNCHANGED <<proc, loop, running, mon, core>>

\* The copy read at the start is saved as running: its LastHeartbeat is that
\* of the old process.
SaveRunning(c) ==
  /\ call[c].pc = "running"
  /\ repo' = [call[c].copy EXCEPT !.state = "running"]
  /\ call' = [call EXCEPT ![c].pc = "loop", ![c].copy = NoCopy]
  /\ UNCHANGED <<proc, link, hello, loop, running, mon, core>>

\* RestartLoop cancels the loop that is tracked and starts another.
RestartLoop(c, l) ==
  /\ call[c].pc = "loop"
  /\ loop[l].pc = "off"
  /\ loop' = [CancelTracked EXCEPT ![l] = LoopUnder(IF call[c].reload THEN c ELSE Root)]
  /\ running' = l
  /\ call' = [call EXCEPT ![c].pc = "return"]
  /\ UNCHANGED <<repo, proc, link, hello, mon, core>>

\* RestartWorker returns.  The caller of a reload cancels its context: the
\* loop and the accept under it end.
Return(c) ==
  /\ call[c].pc = "return"
  /\ call' = [call EXCEPT ![c] = CallIdle]
  /\ loop' = [l \in Loops |-> IF loop[l].ctx = c THEN [loop[l] EXCEPT !.ctx = Done] ELSE loop[l]]
  /\ link' = IF link = c THEN None ELSE link
  /\ UNCHANGED <<repo, proc, hello, running, mon, core>>

CallStep(c) ==
  \/ BackoffOver(c) \/ Begin(c) \/ Stop(c) \/ Respawn(c) \/ RespawnFails(c)
  \/ SaveRunning(c) \/ (\E l \in Loops : RestartLoop(c, l)) \/ Return(c)

-----------------------------------------------------------------------------
(* The worker's process, and time *)

Connect ==
  /\ link \in {Root} \cup Calls
  /\ proc # "dead"
  /\ link' = "open"
  /\ hello' = TRUE
  /\ UNCHANGED <<repo, proc, loop, running, mon, call, core>>

\* The process hangs, comes back, or ends.
Falter ==
  /\ \/ "hang" \in Troubles /\ proc = "up" /\ proc' = "silent"
     \/ proc = "silent" /\ proc' = "up"
     \/ "crash" \in Troubles /\ proc # "dead" /\ proc' = "dead"
  /\ UNCHANGED <<repo, link, hello, loop, running, mon, call, core>>

Stale(w) == [w EXCEPT !.hb = "stale"]

\* Two intervals pass without a heartbeat.  A worker that is up and connected
\* answers a ping every interval.
Age ==
  /\ proc # "up" \/ link # "open"
  /\ repo.hb = "fresh"
  /\ repo' = Stale(repo)
  /\ loop' = [l \in Loops |-> IF loop[l].pc = "condemn"
                              THEN [loop[l] EXCEPT !.copy = Stale(@)] ELSE loop[l]]
  /\ mon' = [mon EXCEPT !.copy = Stale(@)]
  /\ call' = [c \in Calls |-> [call[c] EXCEPT !.copy = Stale(@)]]
  /\ UNCHANGED <<proc, link, hello, running, core>>

Next ==
  \/ \E l \in Loops : LoopStep(l) \/ Reconcile(l)
  \/ \E c \in Calls : CallStep(c) \/ CheckSchedules(c) \/ Reload(c)
  \/ Check \/ CheckMarks
  \/ Shutdown \/ StopAll
  \/ Connect \/ Falter \/ Age

Spec == Init /\ [][Next]_vars

\* Goroutines go on and tickers tick: loops read (with a deadline), the
\* receiver and the monitor run every interval, calls proceed, time passes.
\* A worker that is up answers every ping, and its answers are kept for the
\* next reader: its frames are received again and again.  Nothing else obliges
\* the worker, the operator or the developer to do anything.
Fairness ==
  /\ \A l \in Loops : WF_vars(LoopStep(l))
  /\ SF_vars(\E l \in Loops : ReceiveHeartbeat(l) \/ ReceiveHandshake(l))
  /\ WF_vars(\E l \in Loops : Reconcile(l))
  /\ WF_vars(StopAll)
  /\ WF_vars(Check) /\ WF_vars(CheckMarks)
  /\ WF_vars(\E c \in Calls : CheckSchedules(c))
  /\ \A c \in Calls : WF_vars(CallStep(c))
  /\ WF_vars(Age)

FairSpec == Spec /\ Fairness

-----------------------------------------------------------------------------
(* Safety *)

\* The receiver's entry for the worker stands for a loop that has not ended.
\* An entry left behind would keep reconcile from ever listening again.
TrackedLoopIsLive == running # None => loop[running].pc # "off"

(* Liveness *)

\* While the core runs, the worker does not stay without a reader: whatever
\* loops end, are cancelled or delete each other's entries, reconcile brings
\* one back.
WorkerIsListened ==
  core = "up" ~> (core # "up" \/ \E l \in Loops : Reading(l) /\ ~Cancelled(l))

\* A worker that stays up and connected is not left unhealthy: whichever loop,
\* or the monitor, marks it with an old copy, a heartbeat clears the mark.
HeardWorkerRecovers ==
  <>[](proc = "up" /\ link = "open" /\ core = "up") => []<>(repo.state # "unhealthy")

\* When the core shuts down every loop ends, the ones the receiver no longer
\* tracks as well.
LoopsEndOnShutdown == core # "up" ~> \A l \in Loops : loop[l].pc = "off"
=============================================================================
