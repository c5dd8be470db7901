-------------------------------- MODULE Core --------------------------------
(***************************************************************************)
(* The life of the core process: core/cmd/vyx/main.go from startServices   *)
(* to waitForShutdown, with what it calls of the lifecycle service         *)
(* (service.go), the process manager (manager.go), the handshake handler   *)
(* (handler.go) and the runtime provisioning (runtime.go).                 *)
(*                                                                         *)
(* The main goroutine starts the workers one after another, waits for the  *)
(* handshake of each, serves, and at SIGTERM stops those that run.  Beside *)
(* it the SIGUSR1 handler restarts workers, under no context of the        *)
(* core's, from before the first worker is spawned.  The core may be       *)
(* killed and started again: its memory is gone, the files it had          *)
(* downloaded, whole or not, are not.                                      *)
(*                                                                         *)
(* Not here: requests and draining (RollingRestart), heartbeats beyond     *)
(* what they make of a worker's state, and the monitor's restarts          *)
(* (HealthMonitor), the debounced restarts of dev mode (HotReload).        *)
(***************************************************************************)
EXTENDS Integers, FiniteSets

CONSTANTS
  N,           \* number of worker instances, in the order of vyx.yaml
  Kinds,       \* what the workers may be: "node" or "python" if provisioned, or "plain"
  Timed,       \* the workers with a startup_timeout
  MaxProcs,    \* bound: processes at a time
  MaxBoots,    \* bound: starts of the core
  MaxTroubles  \* bound: failures, crashes of workers, missed heartbeats, reloads

ASSUME CoreAssumption ==
  /\ N \in Nat \ {0} /\ MaxProcs \in Nat /\ MaxBoots \in Nat \ {0} /\ MaxTroubles \in Nat
  /\ Kinds \subseteq [1..N -> {"plain", "node", "python"}]
  /\ Timed \subseteq 1..N

Workers == 1..N
Procs == 1..MaxProcs
Tools == {"node", "python"}

VARIABLES
  kind,      \* the workers' commands
  core,      \* the process: "up", killed, or ended with status 0 or 1
  term,      \* SIGTERM has arrived: the context is cancelled
  main,      \* the main goroutine: place, worker, process it waits for
  reload,    \* the SIGUSR1 handler, likewise, and the workers left to restart
  todo,      \* StopAll: the running workers of its snapshot that are left
  failed,    \* StopAll: lastErr is set
  rec,       \* worker repository
  tab,       \* process manager: the worker's process, 0 for none
  alive,     \* processes that run
  told,      \* processes that have been sent SIGTERM
  frame,     \* what the worker's connection holds for the handshake
  tool,      \* fnm and uv on disk
  installed, \* is there a node, a python on disk?
  boots, troubles,
  excused    \* history: processes StopAll was not told of

vars == <<kind, core, term, main, reload, todo, failed, rec, tab, alive, told, frame, tool,
          installed, boots, troubles, excused>>

disk == <<kind, tool, installed>>
procVars == <<tab, alive, told, excused>>
stopVars == <<todo, failed>>
limits == <<boots, troubles>>

Starting == {"register", "ensure", "download", "copy", "install", "spawn", "handshake",
             "give_up", "give_up_wait", "give_up_save"}
Stopping == {"close", "stop_all", "stop", "stop_wait", "stop_save"}

TypeOK ==
  /\ kind \in Kinds
  /\ core \in {"up", "killed", "clean", "error"}
  /\ term \in BOOLEAN /\ failed \in BOOLEAN
  /\ main \in [at : Starting \cup {"serving"} \cup Stopping, w : Workers, p : 0..MaxProcs]
  /\ reload \in [at : {"idle", "next", "stop", "wait", "respawn"}, w : Workers,
                 p : 0..MaxProcs, todo : SUBSET Workers]
  /\ todo \subseteq Workers
  /\ rec \in [Workers -> {"none", "starting", "running", "unhealthy", "restarting", "stopped"}]
  /\ tab \in [Workers -> 0..MaxProcs]
  /\ alive \subseteq Procs /\ told \subseteq Procs /\ excused \subseteq Procs
  /\ frame \in [Workers -> {"none", "bad", "good", "capabilities"}]
  /\ tool \in [Tools -> {"absent", "writing", "partial", "whole"}]
  /\ installed \subseteq Tools
  /\ boots \in 1..MaxBoots
  /\ troubles \in 0..MaxTroubles

ReloadIdle == [at |-> "idle", w |-> 1, p |-> 0, todo |-> {}]

MainFirst == [at |-> "register", w |-> 1, p |-> 0]

Init ==
  /\ kind \in Kinds
  /\ core = "up" /\ term = FALSE /\ failed = FALSE
  /\ main = MainFirst /\ reload = ReloadIdle
  /\ todo = {}
  /\ rec = [w \in Workers |-> "none"]
  /\ tab = [w \in Workers |-> 0]
  /\ frame = [w \in Workers |-> "none"]
  /\ alive = {} /\ told = {} /\ excused = {}
  /\ tool = [k \in Tools |-> "absent"]
  /\ installed = {}
  /\ boots = 1 /\ troubles = 0

\* The core is gone with all it had in memory.  Its workers are processes on
\* their own from now on and leave the model; a file that was being written is
\* left as it is.
Die ==
  /\ core' = "killed" /\ term' = FALSE /\ failed' = FALSE
  /\ main' = MainFirst /\ reload' = ReloadIdle
  /\ todo' = {}
  /\ rec' = [w \in Workers |-> "none"]
  /\ tab' = [w \in Workers |-> 0]
  /\ frame' = [w \in Workers |-> "none"]
  /\ alive' = {} /\ told' = {} /\ excused' = {}
  /\ tool' = [k \in Tools |-> IF tool[k] = "writing" THEN "partial" ELSE tool[k]]
  /\ UNCHANGED <<kind, installed, limits>>

Trouble == troubles < MaxTroubles /\ troubles' = troubles + 1

Main(from, to) == core = "up" /\ main.at = from /\ main' = [main EXCEPT !.at = to]

\* spawnWorkerInstance returns: the next worker, or, after the last one, the
\* services and the HTTP server start.
NextWorker ==
  main' = IF main.w < N THEN [at |-> "register", w |-> main.w + 1, p |-> 0]
          ELSE [main EXCEPT !.at = "serving", !.p = 0]

-----------------------------------------------------------------------------
(* Spawning a worker *)

\* Transport.Register: the socket of the worker.
Register ==
  /\ Main("register", "ensure")
  /\ UNCHANGED <<core, term, reload, rec, frame, disk, procVars, stopVars, limits>>

RegisterFails ==
  /\ core = "up" /\ main.at = "register"
  /\ Trouble
  /\ NextWorker
  /\ UNCHANGED <<core, term, reload, rec, frame, boots, disk, procVars, stopVars>>

\* Detect, NeedsProvisioning and Ensure: the tool is downloaded when there is
\* no file of its name; node is installed when it is not there, python always.
Ensure ==
  LET k == kind[main.w]
  IN  /\ Main("ensure", IF k = "plain" THEN "spawn"
                        ELSE IF tool[k] = "absent" THEN "download"
                        ELSE IF k = "node" /\ k \in installed THEN "spawn"
                        ELSE "install")
      /\ UNCHANGED <<core, term, reload, rec, frame, disk, procVars, stopVars, limits>>

\* The file is created under its final name: by io.Copy for uv, by unzip for fnm.
Download ==
  /\ Main("download", "copy")
  /\ ~term
  /\ tool' = [tool EXCEPT ![kind[main.w]] = "writing"]
  /\ UNCHANGED <<kind, core, term, reload, rec, frame, installed, procVars, stopVars, limits>>

\* The request fails, as it does when the context is cancelled: no file.
DownloadFails ==
  /\ core = "up" /\ main.at = "download"
  /\ IF term THEN UNCHANGED troubles ELSE Trouble
  /\ NextWorker
  /\ UNCHANGED <<core, term, reload, rec, frame, boots, disk, procVars, stopVars>>

Copied ==
  /\ Main("copy", "install")
  /\ tool' = [tool EXCEPT ![kind[main.w]] = "whole"]
  /\ UNCHANGED <<kind, core, term, reload, rec, frame, installed, procVars, stopVars, limits>>

\* The connection is lost, or the context cancelled, while the file is written.
CopyFails ==
  /\ core = "up" /\ main.at = "copy"
  /\ IF term THEN UNCHANGED troubles ELSE Trouble
  /\ tool' = [tool EXCEPT ![kind[main.w]] = "partial"]
  /\ NextWorker
  /\ UNCHANGED <<kind, core, term, reload, rec, frame, installed, boots, procVars, stopVars>>

\* "fnm install" and "use", "uv python install".
Install ==
  /\ Main("install", "spawn")
  /\ tool[kind[main.w]] = "whole"
  /\ installed' = installed \cup {kind[main.w]}
  /\ UNCHANGED <<kind, core, term, reload, rec, frame, tool, procVars, stopVars, limits>>

\* They fail, and always do with a tool of which only a part was written.
InstallFails ==
  /\ core = "up" /\ main.at = "install"
  /\ IF tool[kind[main.w]] = "whole" THEN Trouble ELSE UNCHANGED troubles
  /\ NextWorker
  /\ UNCHANGED <<core, term, reload, rec, frame, boots, disk, procVars, stopVars>>

\* A process ends.
Gone(p) == alive' = alive \ {p} /\ told' = told \ {p} /\ excused' = excused \ {p}

\* The numbers no process has that someone still knows of.
Free == Procs \ (alive \cup {tab[x] : x \in Workers} \cup {main.p, reload.p})

\* A new process for the worker, in the process manager's table; which of the
\* free numbers it gets does not matter.
NewProc(w) ==
  \E p \in Free :
    /\ \A q \in Free : p <= q
    /\ alive' = alive \cup {p}
    /\ tab' = [tab EXCEPT ![w] = p]

\* SpawnWorker saves the worker, starting, and starts its process.
Spawn ==
  /\ Main("spawn", "handshake")
  /\ kind[main.w] = "plain"
  /\ NewProc(main.w)
  /\ rec' = [rec EXCEPT ![main.w] = "starting"]
  /\ UNCHANGED <<core, term, reload, told, frame, excused, disk, stopVars, limits>>

\* The process does not start.  That of a provisioned worker never does: its
\* Command is the path Resolve gives, a space and the command, and exec takes
\* that for the name of a file.
SpawnFails ==
  /\ core = "up" /\ main.at = "spawn"
  /\ IF kind[main.w] = "plain" THEN Trouble ELSE UNCHANGED troubles
  /\ rec' = [rec EXCEPT ![main.w] = "stopped"]
  /\ NextWorker
  /\ UNCHANGED <<core, term, reload, frame, boots, disk, procVars, stopVars>>

\* The worker (external) dials its socket and sends its first frame.
Dial(w, f) ==
  /\ core = "up"
  /\ tab[w] \in alive
  /\ frame[w] = "none" /\ f # "none"
  /\ IF f = "good" THEN UNCHANGED troubles ELSE Trouble
  /\ frame' = [frame EXCEPT ![w] = f]
  /\ UNCHANGED <<core, term, main, reload, rec, boots, disk, procVars, stopVars>>

\* Handle takes the frame and marks the worker running; its heartbeat loop is
\* started and the next worker comes.
HandshakeDone ==
  /\ core = "up" /\ main.at = "handshake"
  /\ frame[main.w] = "good"
  /\ frame' = [frame EXCEPT ![main.w] = "none"]
  /\ rec' = [rec EXCEPT ![main.w] = "running"]
  /\ NextWorker
  /\ UNCHANGED <<core, term, reload, disk, procVars, stopVars, limits>>

\* A frame of another type or that does not parse is gone, and the wait goes on.
HandshakeRetries ==
  /\ Main("handshake", "handshake")
  /\ frame[main.w] = "bad"
  /\ frame' = [frame EXCEPT ![main.w] = "none"]
  /\ UNCHANGED <<core, term, reload, rec, disk, procVars, stopVars, limits>>

\* A worker that declares capabilities: validateCapabilities looks them up in
\* the route map, which is nil here, and the main goroutine has no recover.
HandshakePanics ==
  /\ core = "up" /\ main.at = "handshake"
  /\ frame[main.w] = "capabilities"
  /\ Die

\* Mutant: the startup_timeout is ignored.
GiveUpOnTermOnly ==
  /\ Main("handshake", "give_up")
  /\ term
  /\ UNCHANGED <<core, term, reload, rec, frame, disk, procVars, stopVars, limits>>

\* Mutant: the context of the handshake is not derived from the core's.
GiveUpOnTimeoutOnly ==
  /\ Main("handshake", "give_up")
  /\ main.w \in Timed
  /\ UNCHANGED <<core, term, reload, rec, frame, disk, procVars, stopVars, limits>>

\* Mutant: a worker that does not shake hands is left as it is.
GiveUpWithoutStop ==
  /\ core = "up" /\ main.at = "handshake"
  /\ term \/ main.w \in Timed
  /\ NextWorker
  /\ UNCHANGED <<core, term, reload, rec, frame, disk, procVars, stopVars, limits>>

\* waitForHandshake gives up at the startup_timeout, if there is one, or when
\* the core is to stop: the worker is stopped.
GiveUp ==
  /\ Main("handshake", "give_up")
  /\ term \/ main.w \in Timed
  /\ UNCHANGED <<core, term, reload, rec, frame, disk, procVars, stopVars, limits>>

-----------------------------------------------------------------------------
(* Stopping a worker: StopWorker and Manager.Stop, from two places *)

\* Where the main goroutine goes on when StopWorker returns: after a failed
\* handshake to the worker's loop and the next worker, whatever the error.
Stopped(err) ==
  IF main.at \in {"give_up", "give_up_wait", "give_up_save"}
  THEN NextWorker /\ UNCHANGED failed
  ELSE /\ main' = [main EXCEPT !.at = "stop_all", !.p = 0]
       /\ failed' = (failed \/ err)

\* The process is signalled, which works also for one that has ended and was
\* not waited for yet; Stop waits for it.
Signal ==
  LET p == tab[main.w]
  IN  /\ core = "up" /\ main.at \in {"give_up", "stop"}
      /\ p # 0
      /\ told' = told \cup ({p} \cap alive)
      /\ main' = [main EXCEPT !.p = p,
                              !.at = IF @ = "stop" THEN "stop_wait" ELSE "give_up_wait"]
      /\ UNCHANGED <<core, term, reload, rec, tab, alive, frame, excused, disk, stopVars, limits>>

\* There is no process, or it has ended and been waited for: an error.
SignalFails ==
  /\ core = "up" /\ main.at \in {"give_up", "stop"}
  /\ tab[main.w] \notin alive
  /\ Stopped(TRUE)
  /\ UNCHANGED <<core, term, reload, todo, rec, frame, disk, procVars, limits>>

\* Mutant: Stop does not wait for the process.
StopReturnsEarly ==
  /\ core = "up" /\ main.at \in {"give_up_wait", "stop_wait"}
  /\ tab' = [tab EXCEPT ![main.w] = 0]
  /\ main' = [main EXCEPT !.at = IF @ = "stop_wait" THEN "stop_save" ELSE "give_up_save"]
  /\ UNCHANGED <<core, term, reload, rec, alive, told, frame, excused, disk, stopVars, limits>>

\* The process has ended; its entry, or the one that took its place, is deleted.
StopReturns ==
  /\ core = "up" /\ main.at \in {"give_up_wait", "stop_wait"}
  /\ main.p \notin alive
  /\ tab' = [tab EXCEPT ![main.w] = 0]
  /\ main' = [main EXCEPT !.at = IF @ = "stop_wait" THEN "stop_save" ELSE "give_up_save"]
  /\ UNCHANGED <<core, term, reload, rec, alive, told, frame, excused, disk, stopVars, limits>>

\* The shutdown timeout passes: SIGKILL, and ErrStopTimeout; also for a process
\* that has ended while cmd.Wait is still waiting for its output.
StopKills ==
  /\ core = "up" /\ main.at \in {"give_up_wait", "stop_wait"}
  /\ Gone(main.p)
  /\ tab' = [tab EXCEPT ![main.w] = 0]
  /\ Stopped(TRUE)
  /\ UNCHANGED <<core, term, reload, todo, rec, frame, disk, limits>>

StopSaves ==
  /\ core = "up" /\ main.at \in {"give_up_save", "stop_save"}
  /\ rec' = [rec EXCEPT ![main.w] = "stopped"]
  /\ Stopped(FALSE)
  /\ UNCHANGED <<core, term, reload, todo, frame, disk, procVars, limits>>

-----------------------------------------------------------------------------
(* SIGUSR1: RestartAll, under a context of its own *)

\* The snapshot of the workers that are alive.
Usr1 ==
  /\ core = "up" /\ reload.at = "idle"
  /\ Trouble
  /\ reload' = [ReloadIdle EXCEPT !.at = "next", !.todo = {w \in Workers : rec[w] = "running"}]
  /\ UNCHANGED <<core, term, main, rec, frame, boots, disk, procVars, stopVars>>

ReloadNext(w) ==
  /\ core = "up" /\ reload.at = "next" /\ w \in reload.todo
  /\ rec' = [rec EXCEPT ![w] = "restarting"]
  /\ reload' = [at |-> "stop", w |-> w, p |-> 0, todo |-> reload.todo \ {w}]
  /\ UNCHANGED <<core, term, main, frame, disk, procVars, stopVars, limits>>

ReloadDone ==
  /\ core = "up" /\ reload.at = "next" /\ reload.todo = {}
  /\ reload' = ReloadIdle
  /\ UNCHANGED <<core, term, main, rec, frame, disk, procVars, stopVars, limits>>

\* Manager.Stop of the old process; when it fails, RestartWorker returns and
\* the worker stays in state restarting.
ReloadStop ==
  LET p == tab[reload.w]
  IN  /\ core = "up" /\ reload.at = "stop"
      /\ p # 0
      /\ told' = told \cup ({p} \cap alive)
      /\ reload' = [reload EXCEPT !.at = "wait", !.p = p]
      /\ UNCHANGED <<core, term, main, rec, tab, alive, excused, frame, disk, stopVars, limits>>

ReloadStopFails ==
  /\ core = "up" /\ reload.at = "stop"
  /\ tab[reload.w] \notin alive
  /\ reload' = [reload EXCEPT !.at = "next"]
  /\ UNCHANGED <<core, term, main, rec, frame, disk, procVars, stopVars, limits>>

ReloadStopped ==
  /\ core = "up" /\ reload.at = "wait"
  /\ tab' = [tab EXCEPT ![reload.w] = 0]
  /\ IF reload.p \in alive
     THEN Gone(reload.p) /\ reload' = [reload EXCEPT !.at = "next"]
     ELSE UNCHANGED <<alive, told, excused>> /\ reload' = [reload EXCEPT !.at = "respawn"]
  /\ UNCHANGED <<core, term, main, rec, frame, disk, stopVars, limits>>

\* The endpoint is made anew and the process started: running, without a
\* handshake.  StopAll may have passed the worker by then.
Respawn ==
  /\ core = "up" /\ reload.at = "respawn"
  /\ NewProc(reload.w)
  /\ rec' = [rec EXCEPT ![reload.w] = "running"]
  /\ frame' = [frame EXCEPT ![reload.w] = "none"]
  /\ reload' = [reload EXCEPT !.at = "next"]
  /\ excused' = IF main.at \in Stopping \ {"close"} THEN excused \cup {tab'[reload.w]}
                ELSE excused
  /\ UNCHANGED <<core, term, main, told, disk, stopVars, limits>>

RespawnFails ==
  /\ core = "up" /\ reload.at = "respawn"
  /\ Trouble
  /\ rec' = [rec EXCEPT ![reload.w] = "stopped"]
  /\ reload' = [reload EXCEPT !.at = "next"]
  /\ UNCHANGED <<core, term, main, frame, boots, disk, procVars, stopVars>>

-----------------------------------------------------------------------------
(* Workers, heartbeats, signals *)

\* A worker's process ends: after SIGTERM, or by itself.
ProcEnds(p) ==
  /\ core = "up"
  /\ p \in alive
  /\ Gone(p)
  /\ IF p \in told THEN UNCHANGED troubles ELSE Trouble
  /\ UNCHANGED <<core, term, main, reload, rec, tab, frame, boots, disk, stopVars>>

\* The heartbeat loop of a worker is started once main is done with it, even
\* when it was stopped.
Watched(w) == rec[w] # "none" /\ (w < main.w \/ main.at \notin Starting)

\* MarkUnhealthy, from whatever state the worker is in.
Unhealthy(w) ==
  /\ core = "up" /\ Watched(w) /\ rec[w] # "unhealthy"
  /\ Trouble
  /\ rec' = [rec EXCEPT ![w] = "unhealthy"]
  /\ UNCHANGED <<core, term, main, reload, frame, boots, disk, procVars, stopVars>>

\* RecordHeartbeat of a worker that is heard again.
Beat(w) ==
  /\ core = "up" /\ Watched(w) /\ rec[w] = "unhealthy" /\ tab[w] \in alive
  /\ rec' = [rec EXCEPT ![w] = "running"]
  /\ UNCHANGED <<core, term, main, reload, frame, disk, procVars, stopVars, limits>>

Term ==
  /\ core = "up" /\ ~term
  /\ term' = TRUE
  /\ UNCHANGED <<core, main, reload, rec, frame, disk, procVars, stopVars, limits>>

\* The core is killed, at any point.
Crash == core = "up" /\ Die

\* It is started again, on the disk as it was left.
Boot ==
  /\ core = "killed" /\ boots < MaxBoots
  /\ core' = "up"
  /\ boots' = boots + 1
  /\ UNCHANGED <<term, main, reload, rec, frame, troubles, disk, procVars, stopVars>>

-----------------------------------------------------------------------------
(* Shutdown *)

\* waitForShutdown: the HTTP server's Shutdown gets a context that is already
\* cancelled and returns, the transport is closed.
Shutdown ==
  /\ Main("serving", "close")
  /\ term
  /\ UNCHANGED <<core, term, reload, rec, frame, disk, procVars, stopVars, limits>>

\* StopAll takes its snapshot and leaves out the workers that are not alive.
Snapshot ==
  /\ Main("close", "stop_all")
  /\ todo' = {w \in Workers : rec[w] = "running"}
  /\ excused' = excused \cup ({tab[w] : w \in Workers \ todo'} \cap alive)
  /\ UNCHANGED <<core, term, reload, failed, rec, tab, alive, told, frame, disk, limits>>

StopNext(w) ==
  /\ core = "up" /\ main.at = "stop_all" /\ w \in todo
  /\ todo' = todo \ {w}
  /\ main' = [at |-> "stop", w |-> w, p |-> 0]
  /\ UNCHANGED <<core, term, reload, failed, rec, frame, disk, procVars, limits>>

\* Status 1 if a worker could not be stopped.
Exit ==
  /\ core = "up" /\ main.at = "stop_all" /\ todo = {}
  /\ core' = IF failed THEN "error" ELSE "clean"
  /\ UNCHANGED <<term, main, reload, rec, frame, disk, procVars, stopVars, limits>>

-----------------------------------------------------------------------------
MainStep ==
  \/ Register \/ RegisterFails \/ Ensure
  \/ Download \/ DownloadFails \/ Copied \/ CopyFails \/ Install \/ InstallFails
  \/ Spawn \/ SpawnFails
  \/ HandshakeDone \/ HandshakeRetries \/ HandshakePanics \/ GiveUp
  \/ Signal \/ SignalFails \/ StopReturns \/ StopKills \/ StopSaves
  \/ Shutdown \/ Snapshot \/ (\E w \in Workers : StopNext(w)) \/ Exit

ReloadStep ==
  \/ (\E w \in Workers : ReloadNext(w)) \/ ReloadDone
  \/ ReloadStop \/ ReloadStopFails \/ ReloadStopped \/ Respawn \/ RespawnFails

Next ==
  \/ MainStep
  \/ Usr1 \/ ReloadStep
  \/ \E w \in Workers : \/ \E f \in {"bad", "good", "capabilities"} : Dial(w, f)
                        \/ Unhealthy(w) \/ Beat(w)
  \/ \E p \in Procs : ProcEnds(p)
  \/ Term \/ Crash \/ Boot

Spec == Init /\ [][Next]_vars

\* The main goroutine goes on while it can: system calls, downloads and
\* installers return, timers fire.  A core that was killed need not come back,
\* and no signal and no worker is owed.
FairSpec == Spec /\ WF_vars(MainStep)

-----------------------------------------------------------------------------
(* Properties *)

\* A worker that never shakes hands must not keep the core from serving:
\* spawnWorkers gets through all of them, crash or SIGTERM apart, unless it
\* waits for ever on a worker without startup_timeout that sends no handshake.
StartupEnds ==
  \/ []<>(core # "up" \/ main.at \notin Starting)
  \/ <>[](main.at = "handshake" /\ main.w \notin Timed /\ frame[main.w] # "good")

\* SIGTERM ends the core whatever it is doing: in the middle of start-up (which
\* goes on spawning the workers that are left), while workers ignore their
\* signal, and while a reload restarts what is being stopped.
ShutdownEnds == term ~> core # "up"

\* "when shutting down, core sends SIGTERM and waits" (TECH_SPEC.md): when the
\* core ends with status 0, the processes that still run are those StopAll did
\* not see running (unhealthy or restarting), or that a reload started behind
\* its back.
CleanExitStopsTheRunning == core = "clean" => alive \subseteq excused

\* A worker leaves start-up running or stopped; one that is still recorded as
\* starting when main has gone on, which no health check looks at, has no
\* process (it died, or was killed, before it shook hands).
NoneLeftStarting ==
  \A w \in Workers : core = "up" /\ rec[w] = "starting" /\ Watched(w) => tab[w] \notin alive
=============================================================================
