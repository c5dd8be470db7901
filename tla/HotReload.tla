----------------------------- MODULE HotReload ------------------------------
(***************************************************************************)
(* Hot reload in dev mode (core/cmd/vyx/main.go, hotReloadWatcher and what *)
(* it calls) and the reload of vyx.yaml (core/infrastructure/config,       *)
(* WatchSIGHUP).                                                           *)
(*                                                                         *)
(* The watcher goroutine gets file events.  A source file restarts the     *)
(* workers of its directory after a debounce: a timer per worker, in a map *)
(* under a lock, whose function runs in a goroutine of its own.  vyx.yaml  *)
(* makes the process send itself SIGHUP, if it is watched: the watcher's   *)
(* path is VYX_CONFIG, which "vyx dev" sets; without it the path is the    *)
(* working directory, no event has that name, and only a user's SIGHUP     *)
(* reloads.                                                                *)
(*                                                                         *)
(* Timers have identities here: a timer that has left the map may still be *)
(* armed, one that is in it may have fired, and its function may run       *)
(* twice.  What RestartWorker does is in RollingRestart.  A file belongs   *)
(* to the first entry whose directory is a prefix of its path; that search *)
(* is given by AffectedBy.                                                 *)
(***************************************************************************)
EXTENDS Integers, FiniteSets

CONSTANTS
  Workers,
  Files,       \* files in the watched directories
  AffectedBy,  \* the workers of the entry the file belongs to; none if it is no source file
  Timers,      \* identities of a worker's timers, used again when free
  MaxChanges,  \* bound: changes of files
  MaxEdits     \* bound: changes of vyx.yaml

ASSUME HotReloadAssumption ==
  /\ AffectedBy \in [Files -> SUBSET Workers]
  /\ Timers \subseteq Nat \ {0}
  /\ MaxChanges \in Nat /\ MaxEdits \in Nat

VARIABLES
  core,      \* "up", or killed by its own SIGHUP
  term,      \* the core's context is done
  watched,   \* VYX_CONFIG names the file the core loaded
  watching,  \* startWatcherLoop has not returned
  events,    \* files with an event the watcher has not taken
  yamlEvent, \* ... and the same for vyx.yaml
  entry,     \* timers: the worker's timer in the map, 0 for none
  armed,     \* timers that will fire
  closed,    \* timers whose cancel channel is closed
  fired,     \* timer functions that have been started, by timer
  passed,    \* ... that found neither channel closed
  unmapped,  \* ... that have deleted the entry and will restart the worker
  dirty,     \* workers with a change no restart has begun after
  changes,
  disk,      \* vyx.yaml: version, and whether it loads
  current,   \* Loader.current: the version
  hup,       \* the buffered SIGHUP of WatchSIGHUP's channel
  handler,   \* WatchSIGHUP: not yet called, waiting, in reloadAll, returned
  got        \* reloadAll: what Load read

timerVars == <<entry, armed, closed, fired, passed, unmapped>>
cfgVars == <<disk, current, hup, handler, got>>
reloadVars == <<core, term, watched, watching, events, yamlEvent, dirty, changes, timerVars,
                cfgVars>>

ReloadTypeOK ==
  /\ core \in {"up", "killed"}
  /\ term \in BOOLEAN /\ watched \in BOOLEAN /\ watching \in BOOLEAN
  /\ yamlEvent \in BOOLEAN /\ hup \in BOOLEAN
  /\ events \subseteq Files /\ dirty \subseteq Workers
  /\ entry \in [Workers -> Timers \cup {0}]
  /\ armed \in [Workers -> SUBSET Timers] /\ closed \in [Workers -> SUBSET Timers]
  /\ fired \in [Workers -> [Timers -> Nat]]
  /\ passed \in [Workers -> Nat] /\ unmapped \in [Workers -> Nat]
  /\ changes \in 0..MaxChanges
  /\ {disk, got} \subseteq [version : 0..MaxEdits, ok : BOOLEAN]
  /\ current \in 0..MaxEdits
  /\ handler \in {"none", "waiting", "reading", "setting", "returned"}

\* The configuration has been loaded; the watcher is started before the workers
\* are spawned, WatchSIGHUP after.
ReloadInit ==
  /\ core = "up" /\ term = FALSE /\ watched \in BOOLEAN /\ watching = TRUE
  /\ events = {} /\ yamlEvent = FALSE
  /\ entry = [w \in Workers |-> 0]
  /\ armed = [w \in Workers |-> {}] /\ closed = [w \in Workers |-> {}]
  /\ fired = [w \in Workers |-> [i \in Timers |-> 0]]
  /\ passed = [w \in Workers |-> 0] /\ unmapped = [w \in Workers |-> 0]
  /\ dirty = {} /\ changes = 0
  /\ disk = [version |-> 0, ok |-> TRUE] /\ got = disk /\ current = 0
  /\ hup = FALSE /\ handler = "none"

-----------------------------------------------------------------------------
(* Files *)

Change(f) ==
  /\ core = "up" /\ changes < MaxChanges
  /\ changes' = changes + 1
  /\ events' = events \cup {f}
  /\ dirty' = dirty \cup AffectedBy[f]
  /\ UNCHANGED <<core, term, watched, watching, yamlEvent, timerVars, cfgVars>>

\* Someone writes vyx.yaml; half a file, or one Validate refuses, does not load.
Edit(ok) ==
  /\ core = "up" /\ disk.version < MaxEdits
  /\ disk' = [version |-> disk.version + 1, ok |-> ok]
  /\ yamlEvent' = watched
  /\ UNCHANGED <<core, term, watched, watching, events, dirty, changes, timerVars, current, hup,
                 handler, got>>

-----------------------------------------------------------------------------
(* The watcher *)

\* A timer nothing refers to any more.
Unused(w) ==
  {i \in Timers : entry[w] # i /\ i \notin armed[w] /\ fired[w][i] = 0}

\* The timer of the worker in the map, or a new one.
TimerOf(w) == IF entry[w] # 0 THEN entry[w] ELSE CHOOSE i \in Unused(w) : TRUE

\* Mutant: the pending timer is stopped and not started again.
ScheduleStops(ws) ==
  /\ entry' = [w \in Workers |-> IF w \in ws THEN TimerOf(w) ELSE entry[w]]
  /\ armed' = [w \in Workers |-> IF w \notin ws THEN armed[w]
                                 ELSE IF entry[w] # 0 THEN armed[w] \ {entry[w]}
                                 ELSE armed[w] \cup {TimerOf(w)}]
  /\ closed' = [w \in Workers |-> IF w \in ws /\ entry[w] = 0 THEN closed[w] \ {TimerOf(w)}
                                  ELSE closed[w]]

\* scheduleRestart, for each worker of the entry: the timer in the map is reset,
\* whether it has fired or not, or a new one is put there.
Schedule(ws) ==
  /\ entry' = [w \in Workers |-> IF w \in ws THEN TimerOf(w) ELSE entry[w]]
  /\ armed' = [w \in Workers |-> IF w \in ws THEN armed[w] \cup {TimerOf(w)} ELSE armed[w]]
  /\ closed' = [w \in Workers |-> IF w \in ws /\ entry[w] = 0 THEN closed[w] \ {TimerOf(w)}
                                  ELSE closed[w]]

\* handleWatcherEvent for a file (bound: an identity is left for a new timer).
FileEvent(f) ==
  /\ core = "up" /\ watching /\ f \in events
  /\ \A w \in AffectedBy[f] : entry[w] # 0 \/ Unused(w) # {}
  /\ events' = events \ {f}
  /\ Schedule(AffectedBy[f])
  /\ UNCHANGED <<core, term, watched, watching, yamlEvent, dirty, changes, fired, passed,
                 unmapped, cfgVars>>

\* Mutant: the channel has no buffer, a signal during a reload is lost.
HangupUnbuffered ==
  IF handler \in {"none", "returned"} THEN core' = "killed" /\ UNCHANGED hup
  ELSE hup' = (hup \/ handler = "waiting") /\ UNCHANGED core

\* The process signals itself.  A channel with room for one takes the signal
\* unless it holds one; without a channel SIGHUP ends the process.
Hangup ==
  IF handler \in {"none", "returned"} THEN core' = "killed" /\ UNCHANGED hup
  ELSE hup' = TRUE /\ UNCHANGED core

\* handleWatcherEvent for vyx.yaml.
YamlEvent ==
  /\ core = "up" /\ watching /\ yamlEvent
  /\ yamlEvent' = FALSE
  /\ Hangup
  /\ UNCHANGED <<term, watched, watching, events, dirty, changes, timerVars, disk, current,
                 handler, got>>

\* A user sends the signal, whether the file is watched or not.
UserHangup ==
  /\ core = "up"
  /\ Hangup
  /\ UNCHANGED <<term, watched, watching, events, yamlEvent, dirty, changes, timerVars, disk,
                 current, handler, got>>

\* The context is done: cancelAllTimers stops and cancels what is in the map.
LoopEnds ==
  /\ core = "up" /\ watching /\ term
  /\ watching' = FALSE
  /\ armed' = [w \in Workers |-> armed[w] \ {entry[w]}]
  /\ closed' = [w \in Workers |-> closed[w] \cup ({entry[w]} \cap Timers)]
  /\ UNCHANGED <<core, term, watched, events, yamlEvent, dirty, changes, entry, fired, passed,
                 unmapped, cfgVars>>

-----------------------------------------------------------------------------
(* Timers *)

\* The debounce has passed: the function starts.
Fire(w, i) ==
  /\ core = "up" /\ i \in armed[w]
  /\ armed' = [armed EXCEPT ![w] = @ \ {i}]
  /\ fired' = [fired EXCEPT ![w][i] = @ + 1]
  /\ UNCHANGED <<core, term, watched, watching, events, yamlEvent, dirty, changes, entry,
                 closed, passed, unmapped, cfgVars>>

\* It returns if its timer was cancelled or the context is done.
Check(w, i) ==
  /\ core = "up" /\ fired[w][i] > 0
  /\ fired' = [fired EXCEPT ![w][i] = @ - 1]
  /\ passed' = [passed EXCEPT ![w] = IF i \in closed[w] \/ term THEN @ ELSE @ + 1]
  /\ UNCHANGED <<core, term, watched, watching, events, yamlEvent, dirty, changes, entry, armed,
                 closed, unmapped, cfgVars>>

\* It deletes the worker's entry, which may be a newer timer's.
Unmap(w) ==
  /\ core = "up" /\ passed[w] > 0
  /\ passed' = [passed EXCEPT ![w] = @ - 1]
  /\ entry' = [entry EXCEPT ![w] = 0]
  /\ unmapped' = [unmapped EXCEPT ![w] = @ + 1]
  /\ UNCHANGED <<core, term, watched, watching, events, yamlEvent, dirty, changes, armed,
                 closed, fired, cfgVars>>

\* RestartWorker begins.
Restart(w) ==
  /\ core = "up" /\ unmapped[w] > 0
  /\ unmapped' = [unmapped EXCEPT ![w] = @ - 1]
  /\ dirty' = dirty \ {w}
  /\ UNCHANGED <<core, term, watched, watching, events, yamlEvent, changes, entry, armed,
                 closed, fired, passed, cfgVars>>

-----------------------------------------------------------------------------
(* WatchSIGHUP *)

\* The workers have been spawned, startServices gets to WatchSIGHUP.
Watch ==
  /\ core = "up" /\ handler = "none"
  /\ handler' = "waiting"
  /\ UNCHANGED <<core, term, watched, watching, events, yamlEvent, dirty, changes, timerVars,
                 disk, current, hup, got>>

Handler(from, to) == core = "up" /\ handler = from /\ handler' = to

TakeSignal ==
  /\ Handler("waiting", "reading")
  /\ hup /\ hup' = FALSE
  /\ UNCHANGED <<core, term, watched, watching, events, yamlEvent, dirty, changes, timerVars,
                 disk, current, got>>

\* Load reads the file...
Load ==
  /\ Handler("reading", "setting")
  /\ got' = disk
  /\ UNCHANGED <<core, term, watched, watching, events, yamlEvent, dirty, changes, timerVars,
                 disk, current, hup>>

\* ... and what does not load leaves the previous configuration.
SetCurrent ==
  /\ Handler("setting", "waiting")
  /\ current' = IF got.ok THEN got.version ELSE current
  /\ UNCHANGED <<core, term, watched, watching, events, yamlEvent, dirty, changes, timerVars,
                 disk, hup, got>>

\* The context is done: the signal is no longer caught.
HandlerReturns ==
  /\ Handler("waiting", "returned")
  /\ term
  /\ UNCHANGED <<core, term, watched, watching, events, yamlEvent, dirty, changes, timerVars,
                 disk, current, hup, got>>

Term ==
  /\ core = "up" /\ ~term
  /\ term' = TRUE
  /\ UNCHANGED <<core, watched, watching, events, yamlEvent, dirty, changes, timerVars, cfgVars>>

-----------------------------------------------------------------------------
Watcher == (\E f \in Files : FileEvent(f)) \/ YamlEvent \/ LoopEnds
Loader == TakeSignal \/ Load \/ SetCurrent \/ HandlerReturns
TimerStep(w) == (\E i \in Timers : Fire(w, i) \/ Check(w, i)) \/ Unmap(w) \/ Restart(w)

ReloadNext ==
  \/ \E f \in Files : Change(f)
  \/ \E ok \in BOOLEAN : Edit(ok)
  \/ Watcher \/ UserHangup \/ Loader \/ Watch \/ Term
  \/ \E w \in Workers : TimerStep(w)

ReloadSpec == ReloadInit /\ [][ReloadNext]_reloadVars

\* The goroutines go on and timers fire; nothing is owed of the users, of
\* SIGTERM, nor of the workers whose handshakes come before Watch.
ReloadFairSpec ==
  /\ ReloadSpec
  /\ \A f \in Files : WF_reloadVars(FileEvent(f))
  /\ WF_reloadVars(YamlEvent) /\ WF_reloadVars(LoopEnds)
  /\ WF_reloadVars(Loader)
  /\ \A w \in Workers : WF_reloadVars(TimerStep(w))

-----------------------------------------------------------------------------
(* Properties *)

\* A change is never without someone who will act on it: as long as no restart
\* has begun after it, its event waits for the watcher, or the worker has a
\* timer that will fire, or a timer function on its way to the restart that no
\* cancellation turns back.  A timer function that deletes the entry of a newer
\* timer takes nothing from the change that timer was set for.
ChangeHasACarrier ==
  core = "up" /\ ~term =>
    \A w \in dirty :
      \/ watching /\ \E f \in events : w \in AffectedBy[f]
      \/ armed[w] # {}
      \/ \E i \in Timers \ closed[w] : fired[w][i] > 0
      \/ passed[w] > 0 \/ unmapped[w] > 0

\* The same for a watched vyx.yaml: while a file that loads is not the configuration in
\* use, its event or a signal waits, or reloadAll is going to read it or has;
\* a reload that read an older file does not swallow the signal of the newer.
EditHasACarrier ==
  core = "up" /\ ~term /\ watched /\ disk.ok /\ current # disk.version =>
    \/ watching /\ yamlEvent
    \/ hup /\ handler # "none"
    \/ handler = "reading"
    \/ handler = "setting" /\ got = disk

\* A change that comes while the worker's timer is pending, has fired, or is
\* about to leave the map, is not lost: some restart begins after it, unless
\* the core shuts down first.
ChangeIsPickedUp ==
  \A w \in Workers : (w \in dirty) ~> (w \notin dirty \/ term \/ core = "killed")

\* However edits, events and reloads overlap, and though the signals of several
\* edits are one, the configuration becomes that of a watched file, if it stays
\* as it is and loads (unless the core shuts down, or its SIGHUP comes while nobody
\* catches it).
ConfigCatchesUp ==
  \A v \in 0..MaxEdits :
    (watched /\ disk = [version |-> v, ok |-> TRUE])
      ~> (current = v \/ disk.version # v \/ term \/ core = "killed")
=============================================================================
