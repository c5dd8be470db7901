----------------------------- MODULE CoreProofs -----------------------------
(***************************************************************************)
(* Proofs about Core, for any number of workers, processes, starts and     *)
(* troubles: what start-up leaves behind and what a shutdown stops, while  *)
(* a reload restarts workers beside both.                                  *)
(***************************************************************************)
EXTENDS Core, TLAPS

\* The places of the main goroutine before it has spawned its worker, and
\* while StopAll runs.
BeforeSpawn == {"register", "ensure", "download", "copy", "install", "spawn"}
StoppingAll == Stopping \ {"close"}

\* Is main done with the worker's start?
Past(w) == w < main.w \/ main.at \notin Starting

\* Only a worker with a runtime is provisioned.
ToolInv == main.at \in {"download", "copy", "install"} => kind[main.w] # "plain"

\* What is recorded of the workers that are being started, or are to be.
StartInv ==
  /\ main.at \in Starting =>
       /\ \A w \in Workers : w > main.w => rec[w] = "none"
       /\ main.at \in BeforeSpawn => rec[main.w] = "none"
       /\ main.at \notin BeforeSpawn => rec[main.w] = "starting"
  /\ \A w \in Workers : rec[w] = "none" => tab[w] = 0
  /\ \A w \in Workers : rec[w] = "starting" /\ Past(w) => tab[w] \notin alive

\* The workers the reload has in hand have been started: it meets main only
\* when main stops them.
InReload ==
  reload.todo \cup (IF reload.at \in {"stop", "wait", "respawn"} THEN {reload.w} ELSE {})

ReloadInv ==
  /\ \A w \in InReload : rec[w] \notin {"none", "starting"}
  /\ reload.at = "wait" => tab[reload.w] \in {0, reload.p}
  /\ reload.at = "respawn" => tab[reload.w] = 0

\* A process is in the table or is excused; main waits for the one in the
\* table, unless a reload has put another there.
ProcInv ==
  /\ excused \subseteq alive
  /\ \A p \in alive \ excused : \E w \in Workers : tab[w] = p
  /\ main.at \in {"give_up_wait", "stop_wait"} =>
       tab[main.w] = main.p \/ tab[main.w] \in excused \/ tab[main.w] \notin alive

\* What StopAll still has to stop.
Left ==
  {tab[w] : w \in todo}
    \cup (IF main.at = "stop" THEN {tab[main.w]} ELSE {})
    \cup (IF main.at = "stop_wait" THEN {main.p} ELSE {})

StopInv == main.at \in StoppingAll => alive \subseteq excused \cup Left

ExitInv == core \in {"clean", "error"} => main.at = "stop_all" /\ todo = {}

CoreInv == TypeOK /\ ToolInv /\ StartInv /\ ReloadInv /\ ProcInv /\ StopInv /\ ExitInv

-----------------------------------------------------------------------------
(* Types *)

MainRecords == [at : Starting \cup {"serving"} \cup Stopping, w : Workers, p : 0..MaxProcs]
ReloadRecords == [at : {"idle", "next", "stop", "wait", "respawn"}, w : Workers,
                  p : 0..MaxProcs, todo : SUBSET Workers]

LEMMA Firsts == MainFirst \in MainRecords /\ ReloadIdle \in ReloadRecords /\ 1 \in Workers
BY CoreAssumption DEF MainFirst, ReloadIdle, MainRecords, ReloadRecords, Workers, Starting

LEMMA CoreInitTypes == Init => TypeOK /\ ToolInv
<1> SUFFICES ASSUME Init PROVE TypeOK /\ ToolInv
  OBVIOUS
<1>1. main \in MainRecords /\ reload \in ReloadRecords
  BY Firsts DEF Init
<1>2. boots \in 1..MaxBoots /\ troubles \in 0..MaxTroubles
  BY CoreAssumption DEF Init
<1>3. tab \in [Workers -> 0..MaxProcs]
  BY CoreAssumption DEF Init
<1>4. TypeOK
  BY <1>1, <1>2, <1>3 DEF Init, TypeOK, MainRecords, ReloadRecords
<1>5. ToolInv
  BY DEF Init, ToolInv, MainFirst
<1> QED BY <1>4, <1>5

\* Where the main goroutine goes after a worker.
LEMMA NextWorkerMoves ==
  ASSUME TypeOK, NextWorker
  PROVE  /\ main' \in MainRecords
         /\ main.w < N => main'.at = "register" /\ main'.w = main.w + 1
         /\ ~(main.w < N) => main'.at = "serving" /\ main'.w = main.w
<1>1. main \in MainRecords
  BY DEF TypeOK, MainRecords
<1>2. CASE main.w < N
  <2>1. main.w + 1 \in Workers /\ 0 \in 0..MaxProcs
    BY <1>1, <1>2, CoreAssumption DEF MainRecords, Workers
  <2>2. main' = [at |-> "register", w |-> main.w + 1, p |-> 0]
    BY <1>2 DEF NextWorker
  <2> QED BY <1>2, <2>1, <2>2 DEF MainRecords, Starting
<1>3. CASE ~(main.w < N)
  <2>1. main' = [main EXCEPT !.at = "serving", !.p = 0]
    BY <1>3 DEF NextWorker
  <2>2. 0 \in 0..MaxProcs
    BY CoreAssumption
  <2> QED BY <1>1, <1>3, <2>1, <2>2 DEF MainRecords
<1> QED BY <1>2, <1>3

\* A move of the main goroutine keeps its worker and its process.
LEMMA MainMoves ==
  ASSUME TypeOK, NEW l \in Starting \cup {"serving"} \cup Stopping,
         main' = [main EXCEPT !.at = l]
  PROVE  main' \in MainRecords /\ main'.at = l /\ main'.w = main.w /\ main'.p = main.p
BY DEF TypeOK, MainRecords

LEMMA TroubleCounts == TypeOK /\ Trouble => troubles' \in 0..MaxTroubles
BY CoreAssumption DEF TypeOK, Trouble

\* The steps of the main goroutine that start workers.
StartStep ==
  \/ Register \/ RegisterFails \/ Ensure
  \/ Download \/ DownloadFails \/ Copied \/ CopyFails \/ Install \/ InstallFails
  \/ Spawn \/ SpawnFails \/ HandshakeDone \/ HandshakeRetries \/ GiveUp

LEMMA KindOfWorker ==
  ASSUME TypeOK
  PROVE  kind[main.w] \in {"plain", "node", "python"} /\ main.w \in Workers
BY CoreAssumption DEF TypeOK, Workers

\* The files and the main goroutine when workers are started.
LEMMA StartMoves ==
  ASSUME TypeOK, ToolInv, StartStep
  PROVE  /\ main' \in MainRecords /\ ToolInv'
         /\ tool' \in [Tools -> {"absent", "writing", "partial", "whole"}]
         /\ installed' \subseteq Tools /\ troubles' \in 0..MaxTroubles
         /\ UNCHANGED <<kind, core, term, failed, reload, todo, boots, told, excused>>
<1> USE DEF disk, procVars, stopVars, limits
<1>0. tool \in [Tools -> {"absent", "writing", "partial", "whole"}] /\ installed \subseteq Tools
      /\ troubles \in 0..MaxTroubles
  BY DEF TypeOK
<1>1. CASE Register \/ Ensure \/ Spawn \/ HandshakeRetries \/ GiveUp
  <2>1. PICK l \in Starting : main' = [main EXCEPT !.at = l] /\
              (l \in {"download", "copy", "install"} => kind[main.w] # "plain")
    BY <1>1 DEF Register, Ensure, Spawn, HandshakeRetries, GiveUp, Main, Starting
  <2>2. main' \in MainRecords /\ main'.at = l /\ main'.w = main.w
    BY <2>1, MainMoves
  <2>3. UNCHANGED <<kind, core, term, failed, reload, todo, boots, told, excused, tool,
                    installed, troubles>>
    BY <1>1 DEF Register, Ensure, Spawn, HandshakeRetries, GiveUp
  <2> QED BY <1>0, <2>1, <2>2, <2>3 DEF ToolInv
<1>2. CASE Download \/ Copied \/ Install
  <2>1. PICK l \in Starting : main' = [main EXCEPT !.at = l] /\ kind[main.w] # "plain"
    BY <1>2 DEF Download, Copied, Install, Main, Starting, ToolInv
  <2>2. main' \in MainRecords /\ main'.at = l /\ main'.w = main.w
    BY <2>1, MainMoves
  <2>3. kind[main.w] \in Tools
    BY <2>1, KindOfWorker DEF Tools
  <2>4. /\ tool' \in [Tools -> {"absent", "writing", "partial", "whole"}]
        /\ installed' \subseteq Tools
        /\ UNCHANGED <<kind, core, term, failed, reload, todo, boots, told, excused, troubles>>
    BY <1>0, <1>2, <2>3 DEF Download, Copied, Install
  <2> QED BY <1>0, <2>1, <2>2, <2>4 DEF ToolInv
<1>3. CASE RegisterFails \/ DownloadFails \/ CopyFails \/ InstallFails \/ SpawnFails
           \/ HandshakeDone
  <2>1. /\ NextWorker
        /\ UNCHANGED <<kind, core, term, failed, reload, todo, boots, told, excused, installed>>
        /\ tool' \in [Tools -> {"absent", "writing", "partial", "whole"}]
        /\ Trouble \/ UNCHANGED troubles
    BY <1>0, <1>3 DEF RegisterFails, DownloadFails, CopyFails, InstallFails, SpawnFails,
           HandshakeDone
  <2>2. main' \in MainRecords /\ main'.at \in {"register", "serving"}
    BY <2>1, NextWorkerMoves
  <2> QED BY <1>0, <2>1, <2>2, TroubleCounts DEF ToolInv
<1> QED BY <1>1, <1>2, <1>3 DEF StartStep

\* A new process is one that nobody knows of.
LEMMA NewProcs ==
  ASSUME TypeOK, NEW w \in Workers, NewProc(w)
  PROVE  \E p \in Procs :
           /\ p \notin alive /\ p # 0 /\ p # main.p /\ p # reload.p
           /\ \A x \in Workers : tab[x] # p
           /\ alive' = alive \cup {p}
           /\ tab' \in [Workers -> 0..MaxProcs]
           /\ tab'[w] = p /\ \A x \in Workers \ {w} : tab'[x] = tab[x]
<1>1. PICK p \in Free : alive' = alive \cup {p} /\ tab' = [tab EXCEPT ![w] = p]
  BY DEF NewProc
<1>2. /\ p \in Procs /\ p \notin alive /\ p # main.p /\ p # reload.p
      /\ \A x \in Workers : tab[x] # p
  BY <1>1 DEF Free
<1>3. p # 0 /\ p \in 0..MaxProcs
  BY <1>2, CoreAssumption DEF Procs
<1>4. tab \in [Workers -> 0..MaxProcs]
  BY DEF TypeOK
<1> QED BY <1>1, <1>2, <1>3, <1>4

LEMMA StartTypes ==
  ASSUME TypeOK, ToolInv, StartStep
  PROVE  TypeOK' /\ ToolInv'
<1>1. /\ main' \in MainRecords /\ ToolInv'
      /\ tool' \in [Tools -> {"absent", "writing", "partial", "whole"}]
      /\ installed' \subseteq Tools /\ troubles' \in 0..MaxTroubles
      /\ UNCHANGED <<kind, core, term, failed, reload, todo, boots, told, excused>>
  BY StartMoves
<1>2. tab' \in [Workers -> 0..MaxProcs] /\ alive' \subseteq Procs
  <2>1. CASE Spawn
    <3>1. NewProc(main.w)
      BY <2>1 DEF Spawn
    <3> QED BY <3>1, NewProcs, KindOfWorker DEF TypeOK
  <2>2. CASE ~Spawn
    <3>1. UNCHANGED <<tab, alive>>
      BY <2>2 DEF StartStep, Register, RegisterFails, Ensure, Download, DownloadFails, Copied,
             CopyFails, Install, InstallFails, SpawnFails, HandshakeDone, HandshakeRetries,
             GiveUp, procVars
    <3> QED BY <3>1 DEF TypeOK
  <2> QED BY <2>1, <2>2
<1>3. /\ rec' \in [Workers -> {"none", "starting", "running", "unhealthy", "restarting", "stopped"}]
      /\ frame' \in [Workers -> {"none", "bad", "good", "capabilities"}]
  BY DEF StartStep, Register, RegisterFails, Ensure, Download, DownloadFails, Copied,
         CopyFails, Install, InstallFails, Spawn, SpawnFails, HandshakeDone, HandshakeRetries,
         GiveUp, TypeOK
<1> QED BY <1>1, <1>2, <1>3 DEF TypeOK, MainRecords

\* Those that stop workers.
StopStep ==
  \/ Signal \/ SignalFails \/ StopReturns \/ StopKills \/ StopSaves
  \/ Shutdown \/ Snapshot \/ (\E w \in Workers : StopNext(w)) \/ Exit

GivingUp == {"give_up", "give_up_wait", "give_up_save"}

LEMMA StoppedMoves ==
  ASSUME TypeOK, NEW err \in BOOLEAN, Stopped(err)
  PROVE  /\ main' \in MainRecords /\ failed' \in BOOLEAN
         /\ main.at \in GivingUp => NextWorker
         /\ main.at \notin GivingUp => main'.at = "stop_all" /\ main'.w = main.w
         /\ main'.at \in {"register", "serving", "stop_all"}
<1>1. CASE main.at \in GivingUp
  <2>1. NextWorker /\ failed' = failed
    BY <1>1 DEF Stopped, GivingUp
  <2> QED BY <1>1, <2>1, NextWorkerMoves DEF TypeOK
<1>2. CASE main.at \notin GivingUp
  <2>1. main' = [main EXCEPT !.at = "stop_all", !.p = 0] /\ failed' = (failed \/ err)
    BY <1>2 DEF Stopped, GivingUp
  <2>2. main \in MainRecords /\ 0 \in 0..MaxProcs /\ failed \in BOOLEAN
    BY CoreAssumption DEF TypeOK, MainRecords
  <2>3. main' \in MainRecords /\ main'.at = "stop_all" /\ main'.w = main.w
    BY <2>1, <2>2 DEF MainRecords, Stopping
  <2>4. failed' \in BOOLEAN
    BY <2>1, <2>2
  <2> QED BY <1>2, <2>3, <2>4
<1> QED BY <1>1, <1>2

\* Waiting for a process to end, and going on when it has.
LEMMA SignalMoves ==
  ASSUME TypeOK, Signal
  PROVE  /\ main' \in MainRecords /\ main'.w = main.w /\ main'.p = tab[main.w]
         /\ main'.at = IF main.at = "stop" THEN "stop_wait" ELSE "give_up_wait"
         /\ main.at \in {"give_up", "stop"} /\ tab[main.w] # 0
         /\ told' \subseteq Procs
<1>1. main \in MainRecords /\ tab[main.w] \in 0..MaxProcs
  BY DEF TypeOK, MainRecords
<1>2. main' = [main EXCEPT !.p = tab[main.w],
                           !.at = IF main.at = "stop" THEN "stop_wait" ELSE "give_up_wait"]
  BY <1>1 DEF Signal, MainRecords
<1>3. told' \subseteq Procs
  BY DEF Signal, TypeOK
<1> QED BY <1>1, <1>2, <1>3 DEF MainRecords, Starting, Stopping, Signal

LEMMA ReturnMoves ==
  ASSUME TypeOK, StopReturns
  PROVE  /\ main' \in MainRecords /\ main'.w = main.w /\ main'.p = main.p
         /\ main'.at = IF main.at = "stop_wait" THEN "stop_save" ELSE "give_up_save"
<1>1. main \in MainRecords
  BY DEF TypeOK, MainRecords
<1>2. main' = [main EXCEPT !.at = IF main.at = "stop_wait" THEN "stop_save" ELSE "give_up_save"]
  BY <1>1 DEF StopReturns, MainRecords
<1> QED BY <1>1, <1>2 DEF MainRecords, Starting, Stopping

LEMMA StopTypes ==
  ASSUME TypeOK, ToolInv, StopStep
  PROVE  TypeOK' /\ ToolInv'
<1> USE DEF disk, limits
<1>1. UNCHANGED <<kind, tool, installed, boots, troubles, term, reload, frame>>
  BY DEF StopStep, Signal, SignalFails, StopReturns, StopKills, StopSaves, Shutdown, Snapshot,
         StopNext, Exit
<1>2. /\ tab \in [Workers -> 0..MaxProcs] /\ alive \subseteq Procs /\ told \subseteq Procs
      /\ excused \subseteq Procs /\ todo \subseteq Workers /\ 0 \in 0..MaxProcs
      /\ rec \in [Workers -> {"none", "starting", "running", "unhealthy", "restarting", "stopped"}]
      /\ failed \in BOOLEAN /\ core \in {"up", "killed", "clean", "error"} /\ main \in MainRecords
  BY CoreAssumption DEF TypeOK, MainRecords
<1>3. main' \in MainRecords /\ failed' \in BOOLEAN
      /\ main'.at \notin {"download", "copy", "install"}
  <2>1. CASE Signal
    <3>1. failed' = failed
      BY <2>1 DEF Signal, stopVars
    <3> QED BY <1>2, <2>1, <3>1, SignalMoves
  <2>2. CASE SignalFails \/ StopKills
    <3>1. Stopped(TRUE)
      BY <2>2 DEF SignalFails, StopKills
    <3> QED BY <3>1, StoppedMoves
  <2>3. CASE StopReturns
    <3>1. failed' = failed
      BY <2>3 DEF StopReturns, stopVars
    <3> QED BY <1>2, <2>3, <3>1, ReturnMoves
  <2>4. CASE StopSaves
    <3>1. Stopped(FALSE)
      BY <2>4 DEF StopSaves
    <3> QED BY <3>1, StoppedMoves
  <2>5. CASE Shutdown \/ Snapshot
    <3>1. PICK l \in {"close", "stop_all"} : main' = [main EXCEPT !.at = l]
      BY <2>5 DEF Shutdown, Snapshot, Main
    <3>2. l \in Stopping
      BY DEF Stopping
    <3>3. failed' = failed
      BY <2>5 DEF Shutdown, Snapshot, stopVars
    <3> QED BY <1>2, <3>1, <3>2, <3>3, MainMoves
  <2>6. ASSUME NEW w \in Workers, StopNext(w)
        PROVE  main' \in MainRecords /\ failed' \in BOOLEAN
               /\ main'.at \notin {"download", "copy", "install"}
    BY <1>2, <2>6 DEF StopNext, MainRecords, Stopping
  <2>7. CASE Exit
    BY <1>2, <2>7 DEF Exit, stopVars
  <2> QED BY <2>1, <2>2, <2>3, <2>4, <2>5, <2>6, <2>7 DEF StopStep
<1>4. core' \in {"up", "killed", "clean", "error"} /\ todo' \subseteq Workers
  BY <1>2 DEF StopStep, Signal, SignalFails, StopReturns, StopKills, StopSaves, Shutdown,
         Snapshot, StopNext, Exit, stopVars
<1>5. rec' \in [Workers -> {"none", "starting", "running", "unhealthy", "restarting", "stopped"}]
  BY <1>2 DEF StopStep, Signal, SignalFails, StopReturns, StopKills, StopSaves, Shutdown,
         Snapshot, StopNext, Exit
<1>6. tab' \in [Workers -> 0..MaxProcs] /\ alive' \subseteq Procs /\ told' \subseteq Procs
  BY <1>2 DEF StopStep, Signal, SignalFails, StopReturns, StopKills, StopSaves, Shutdown,
         Snapshot, StopNext, Exit, procVars, Gone
<1>7. excused' \subseteq Procs
  BY <1>2 DEF StopStep, Signal, SignalFails, StopReturns, StopKills, StopSaves, Shutdown,
         Snapshot, StopNext, Exit, procVars, Gone
<1>8. TypeOK'
  BY <1>1, <1>3, <1>4, <1>5, <1>6, <1>7 DEF TypeOK, MainRecords
<1> QED BY <1>3, <1>8 DEF ToolInv

\* The reload's moves.
LEMMA ReloadMoves ==
  ASSUME TypeOK, Usr1 \/ ReloadStep
  PROVE  /\ reload' \in ReloadRecords
         /\ Usr1 => reload'.at = "next" /\ reload'.todo = {w \in Workers : rec[w] = "running"}
         /\ \A w \in Workers : ReloadNext(w) =>
              reload'.at = "stop" /\ reload'.w = w /\ reload'.todo = reload.todo \ {w}
         /\ ReloadDone => reload' = ReloadIdle
         /\ ReloadStop => reload'.at = "wait" /\ reload'.w = reload.w
                          /\ reload'.p = tab[reload.w] /\ reload'.todo = reload.todo
         /\ ReloadStopFails \/ Respawn \/ RespawnFails =>
              reload'.at = "next" /\ reload'.todo = reload.todo
         /\ ReloadStopped =>
              /\ reload'.w = reload.w /\ reload'.todo = reload.todo
              /\ reload'.at = IF reload.p \in alive THEN "next" ELSE "respawn"
<1>1. /\ reload \in ReloadRecords /\ reload.w \in Workers /\ tab[reload.w] \in 0..MaxProcs
      /\ 0 \in 0..MaxProcs
  BY CoreAssumption DEF TypeOK, ReloadRecords
<1>2. ReloadIdle \in ReloadRecords
  BY Firsts
<1>3. Usr1 => reload' \in ReloadRecords /\ reload'.at = "next"
              /\ reload'.todo = {w \in Workers : rec[w] = "running"}
  BY <1>2 DEF Usr1, ReloadRecords
<1>4. \A w \in Workers : ReloadNext(w) =>
        reload' \in ReloadRecords /\ reload'.at = "stop" /\ reload'.w = w
        /\ reload'.todo = reload.todo \ {w}
  BY <1>1 DEF ReloadNext, ReloadRecords
<1>5. ReloadDone => reload' = ReloadIdle
  BY DEF ReloadDone
<1>6. ReloadStop => reload' \in ReloadRecords /\ reload'.at = "wait" /\ reload'.w = reload.w
                    /\ reload'.p = tab[reload.w] /\ reload'.todo = reload.todo
  BY <1>1 DEF ReloadStop, ReloadRecords
<1>7. ReloadStopFails \/ Respawn \/ RespawnFails =>
        reload' \in ReloadRecords /\ reload'.at = "next" /\ reload'.todo = reload.todo
  BY <1>1 DEF ReloadStopFails, Respawn, RespawnFails, ReloadRecords
<1>8. ReloadStopped =>
        /\ reload' \in ReloadRecords /\ reload'.w = reload.w /\ reload'.todo = reload.todo
        /\ reload'.at = IF reload.p \in alive THEN "next" ELSE "respawn"
  BY <1>1 DEF ReloadStopped, ReloadRecords
<1>9. reload' \in ReloadRecords
  BY <1>2, <1>3, <1>4, <1>5, <1>6, <1>7, <1>8 DEF ReloadStep
<1> QED BY <1>3, <1>4, <1>5, <1>6, <1>7, <1>8, <1>9

LEMMA ReloadTypes ==
  ASSUME TypeOK, ToolInv, Usr1 \/ ReloadStep
  PROVE  TypeOK' /\ ToolInv'
<1> USE DEF disk, limits
<1>1. UNCHANGED <<kind, core, term, failed, main, todo, tool, installed, boots>>
  BY DEF Usr1, ReloadStep, ReloadNext, ReloadDone, ReloadStop, ReloadStopFails, ReloadStopped,
         Respawn, RespawnFails, stopVars
<1>2. /\ tab \in [Workers -> 0..MaxProcs] /\ alive \subseteq Procs /\ told \subseteq Procs
      /\ excused \subseteq Procs /\ troubles \in 0..MaxTroubles /\ 0 \in 0..MaxProcs
      /\ rec \in [Workers -> {"none", "starting", "running", "unhealthy", "restarting", "stopped"}]
      /\ frame \in [Workers -> {"none", "bad", "good", "capabilities"}]
      /\ reload.w \in Workers
  BY CoreAssumption DEF TypeOK
<1>3. reload' \in ReloadRecords
  BY ReloadMoves
<1>4. /\ rec' \in [Workers -> {"none", "starting", "running", "unhealthy", "restarting", "stopped"}]
      /\ frame' \in [Workers -> {"none", "bad", "good", "capabilities"}]
  BY <1>2 DEF Usr1, ReloadStep, ReloadNext, ReloadDone, ReloadStop, ReloadStopFails,
         ReloadStopped, Respawn, RespawnFails
<1>5. troubles' \in 0..MaxTroubles
  <2>1. Trouble \/ UNCHANGED troubles
    BY DEF Usr1, ReloadStep, ReloadNext, ReloadDone, ReloadStop, ReloadStopFails,
           ReloadStopped, Respawn, RespawnFails
  <2> QED BY <1>2, <2>1, TroubleCounts
<1>6. tab' \in [Workers -> 0..MaxProcs] /\ alive' \subseteq Procs /\ told' \subseteq Procs
      /\ excused' \subseteq Procs
  <2>1. CASE Respawn
    <3>1. PICK p \in Procs : alive' = alive \cup {p} /\ tab' \in [Workers -> 0..MaxProcs]
                             /\ tab'[reload.w] = p
      BY <1>2, <2>1, NewProcs DEF Respawn
    <3> QED BY <1>2, <2>1, <3>1 DEF Respawn
  <2>2. CASE ~Respawn
    BY <1>2, <2>2 DEF Usr1, ReloadStep, ReloadNext, ReloadDone, ReloadStop, ReloadStopFails,
           ReloadStopped, RespawnFails, procVars, Gone
  <2> QED BY <2>1, <2>2
<1>7. TypeOK'
  BY <1>1, <1>3, <1>4, <1>5, <1>6 DEF TypeOK, ReloadRecords
<1> QED BY <1>1, <1>7 DEF ToolInv

\* What the workers and the system do.
WorldStep ==
  \/ \E w \in Workers : \/ \E f \in {"bad", "good", "capabilities"} : Dial(w, f)
                        \/ Unhealthy(w) \/ Beat(w)
  \/ \E p \in Procs : ProcEnds(p)
  \/ Term \/ Boot \/ UNCHANGED vars

LEMMA WorldTypes ==
  ASSUME TypeOK, ToolInv, WorldStep
  PROVE  TypeOK' /\ ToolInv'
<1> USE DEF disk, limits
<1>1. UNCHANGED <<kind, failed, main, reload, todo, tool, installed, tab>>
  BY DEF WorldStep, Dial, Unhealthy, Beat, ProcEnds, Term, Boot, vars, procVars, stopVars
<1>2. /\ rec' \in [Workers -> {"none", "starting", "running", "unhealthy", "restarting", "stopped"}]
      /\ frame' \in [Workers -> {"none", "bad", "good", "capabilities"}]
  BY DEF WorldStep, Dial, Unhealthy, Beat, ProcEnds, Term, Boot, vars, TypeOK
<1>3. troubles' \in 0..MaxTroubles
  <2>1. Trouble \/ UNCHANGED troubles
    BY DEF WorldStep, Dial, Unhealthy, Beat, ProcEnds, Term, Boot, vars
  <2> QED BY <2>1, TroubleCounts DEF TypeOK
<1>4. boots' \in 1..MaxBoots
  BY CoreAssumption DEF WorldStep, Dial, Unhealthy, Beat, ProcEnds, Term, Boot, vars, TypeOK
<1>5. alive' \subseteq Procs /\ told' \subseteq Procs /\ excused' \subseteq Procs
  BY DEF WorldStep, Dial, Unhealthy, Beat, ProcEnds, Term, Boot, vars, procVars, Gone, TypeOK
<1>6. core' \in {"up", "killed", "clean", "error"} /\ term' \in BOOLEAN
  BY DEF WorldStep, Dial, Unhealthy, Beat, ProcEnds, Term, Boot, vars, TypeOK
<1>7. TypeOK'
  BY <1>1, <1>2, <1>3, <1>4, <1>5, <1>6 DEF TypeOK
<1> QED BY <1>1, <1>7 DEF ToolInv

LEMMA DieTypes == ASSUME TypeOK, Die PROVE TypeOK' /\ ToolInv'
<1>1. main' \in MainRecords /\ reload' \in ReloadRecords /\ main'.at = "register"
  BY Firsts DEF Die, MainFirst
<1>2. tab' \in [Workers -> 0..MaxProcs]
  BY CoreAssumption DEF Die
<1>3. tool' \in [Tools -> {"absent", "writing", "partial", "whole"}]
  BY DEF Die, TypeOK
<1>4. /\ kind' \in Kinds /\ core' = "killed" /\ term' = FALSE /\ failed' = FALSE /\ todo' = {}
      /\ rec' = [w \in Workers |-> "none"] /\ frame' = [w \in Workers |-> "none"]
      /\ alive' = {} /\ told' = {} /\ excused' = {} /\ installed' \subseteq Tools
      /\ boots' \in 1..MaxBoots /\ troubles' \in 0..MaxTroubles
  BY DEF Die, TypeOK, limits
<1>5. TypeOK'
  BY <1>1, <1>2, <1>3, <1>4 DEF TypeOK, MainRecords, ReloadRecords
<1> QED BY <1>1, <1>5 DEF ToolInv

\* Every step is one of these.
LEMMA StepKinds ==
  [Next]_vars <=> StartStep \/ StopStep \/ Usr1 \/ ReloadStep \/ WorldStep
                  \/ HandshakePanics \/ Crash
BY DEF Next, MainStep, StartStep, StopStep, WorldStep

LEMMA CoreTypeStep == TypeOK /\ ToolInv /\ [Next]_vars => TypeOK' /\ ToolInv'
BY StepKinds, StartTypes, StopTypes, ReloadTypes, WorldTypes, DieTypes DEF HandshakePanics, Crash

\* The core keeps its types; in particular only a worker that has a runtime
\* to be provisioned is ever provisioned.
THEOREM CoreTypeCorrect == Spec => []TypeOK
BY CoreInitTypes, CoreTypeStep, PTL DEF Spec

-----------------------------------------------------------------------------
(* What is recorded of a worker, and its process *)

\* Steps that leave the start of the worker at hand where it is: they record
\* something new only of workers main is done with.
LEMMA StartKept ==
  ASSUME TypeOK, StartInv, main'.at \in Starting <=> main.at \in Starting,
         main'.at \in BeforeSpawn <=> main.at \in BeforeSpawn,
         main.at \in Starting => main'.w = main.w,
         \A w \in Workers : rec'[w] = rec[w] \/ (rec'[w] \notin {"none", "starting"} /\ Past(w)),
         \A w \in Workers : rec[w] \in {"none", "starting"} =>
             tab'[w] \in {tab[w], 0} /\ (tab[w] \notin alive => tab'[w] \notin alive')
  PROVE  StartInv'
<1>0. main \in MainRecords
  BY DEF TypeOK, MainRecords
<1>1. \A w \in Workers : Past(w)' <=> Past(w)
  BY DEF Past
<1>2. \A w \in Workers : rec'[w] = "none" => tab'[w] = 0
  BY DEF StartInv
<1>3. \A w \in Workers : rec'[w] = "starting" /\ Past(w)' => tab'[w] \notin alive'
  BY <1>1 DEF StartInv
<1>4. main'.at \in Starting =>
        /\ \A w \in Workers : w > main'.w => rec'[w] = "none"
        /\ main'.at \in BeforeSpawn => rec'[main'.w] = "none"
        /\ main'.at \notin BeforeSpawn => rec'[main'.w] = "starting"
  <2> SUFFICES ASSUME main'.at \in Starting
               PROVE  /\ \A w \in Workers : w > main.w => rec'[w] = "none"
                      /\ main.at \in BeforeSpawn => rec'[main.w] = "none"
                      /\ main.at \notin BeforeSpawn => rec'[main.w] = "starting"
    OBVIOUS
  <2>1. \A w \in Workers : w >= main.w => ~Past(w)
    BY <1>0 DEF Past, MainRecords, Workers
  <2>2. main.w \in Workers /\ main.w >= main.w
    BY <1>0 DEF MainRecords, Workers
  <2>3. \A w \in Workers : w > main.w => w >= main.w
    BY <1>0 DEF MainRecords, Workers
  <2> QED BY <2>1, <2>2, <2>3 DEF StartInv
<1> QED BY <1>2, <1>3, <1>4 DEF StartInv

\* Main goes on to the next worker when it is done with this one.
LEMMA StartNext ==
  ASSUME TypeOK, StartInv, NextWorker, main.at \in Starting, alive' \subseteq alive,
         \A w \in Workers \ {main.w} : rec'[w] = rec[w] /\ tab'[w] = tab[w],
         rec'[main.w] = "none" => tab'[main.w] = 0,
         rec'[main.w] = "starting" => tab'[main.w] \notin alive'
  PROVE  StartInv'
<1>0. main \in MainRecords /\ main.w \in Workers
  BY DEF TypeOK, MainRecords
<1>1. \A w \in Workers : rec'[w] = "none" => tab'[w] = 0
  BY DEF StartInv
<1>2. \A w \in Workers : w > main.w => rec[w] = "none"
  BY DEF StartInv
<1>3. \A w \in Workers \ {main.w} : Past(w)' => w < main.w \/ w > main.w
  BY <1>0 DEF Workers
<1>4. \A w \in Workers : rec'[w] = "starting" /\ Past(w)' => tab'[w] \notin alive'
  BY <1>2, <1>3 DEF StartInv, Past
<1>5. CASE main.w < N
  <2>1. main'.at = "register" /\ main'.w = main.w + 1
    BY <1>5, NextWorkerMoves
  <2>2. \A w \in Workers : w >= main.w + 1 => w > main.w /\ w # main.w
    BY <1>0 DEF Workers
  <2>3. main.w + 1 \in Workers /\ main.w + 1 >= main.w + 1
    BY <1>0, <1>5, CoreAssumption DEF Workers
  <2>4. \A w \in Workers : w > main.w + 1 => w >= main.w + 1
    BY <1>0 DEF Workers
  <2>5. main'.at \in BeforeSpawn
    BY <2>1 DEF BeforeSpawn
  <2> QED BY <1>1, <1>2, <1>4, <2>1, <2>2, <2>3, <2>4, <2>5 DEF StartInv
<1>6. CASE ~(main.w < N)
  <2>1. main'.at \notin Starting
    BY <1>6, NextWorkerMoves DEF Starting
  <2> QED BY <1>1, <1>4, <2>1 DEF StartInv
<1> QED BY <1>5, <1>6

\* Steps of others do not disturb the reload: its workers stay started, and
\* of their entries in the table they can only delete.
LEMMA ReloadKept ==
  ASSUME ReloadInv, reload' = reload,
         \A w \in InReload : rec'[w] \notin {"none", "starting"} /\ tab'[w] \in {tab[w], 0}
  PROVE  ReloadInv'
<1>1. InReload' = InReload
  BY DEF InReload
<1>2. reload.at \in {"wait", "respawn"} => reload.w \in InReload
  BY DEF InReload
<1> QED BY <1>1, <1>2 DEF ReloadInv

\* The worker main starts is not one the reload has in hand, nor is a later one.
LEMMA ReloadElsewhere ==
  ASSUME TypeOK, StartInv, ReloadInv, NEW w \in InReload
  PROVE  w \in Workers /\ Past(w) /\ (main.at \in Starting => w # main.w)
<1>1. main \in MainRecords /\ reload \in ReloadRecords
  BY DEF TypeOK, MainRecords, ReloadRecords
<1>2. w \in Workers
  BY <1>1 DEF InReload, ReloadRecords
<1>3. rec[w] \notin {"none", "starting"}
  BY DEF ReloadInv
<1>4. main.at \in Starting => w # main.w /\ ~(w > main.w)
  BY <1>2, <1>3 DEF StartInv
<1>5. w # main.w /\ ~(w > main.w) => w < main.w
  BY <1>1, <1>2 DEF MainRecords, Workers
<1> QED BY <1>2, <1>4, <1>5 DEF Past

\* Steps that start and end no process, and after which main waits for the
\* process it waited for or for the one in the table.
LEMMA ProcKept ==
  ASSUME ProcInv, UNCHANGED <<tab, alive, excused>>,
         main'.at \in {"give_up_wait", "stop_wait"} =>
           \/ main.at \in {"give_up_wait", "stop_wait"} /\ main'.w = main.w /\ main'.p = main.p
           \/ main'.p = tab[main'.w]
  PROVE  ProcInv'
BY DEF ProcInv

LifeInv == StartInv /\ ReloadInv /\ ProcInv /\ StopInv /\ ExitInv

LEMMA StartLife ==
  ASSUME TypeOK, ToolInv, LifeInv, StartStep
  PROVE  LifeInv'
<1> USE DEF LifeInv
<1>0. /\ main \in MainRecords /\ main.w \in Workers
      /\ rec \in [Workers -> {"none", "starting", "running", "unhealthy", "restarting", "stopped"}]
      /\ tab \in [Workers -> 0..MaxProcs] /\ 0 \notin alive
  BY CoreAssumption DEF TypeOK, MainRecords, Procs
<1>1. UNCHANGED <<reload, todo, excused, core>> /\ main' \in MainRecords /\ core = "up"
  <2>1. core = "up"
    BY DEF StartStep, Register, RegisterFails, Ensure, Download, DownloadFails, Copied,
           CopyFails, Install, InstallFails, Spawn, SpawnFails, HandshakeDone, HandshakeRetries,
           GiveUp, Main
  <2> QED BY <2>1, StartMoves
<1>2. main.at \in Starting
  BY DEF StartStep, Register, RegisterFails, Ensure, Download, DownloadFails, Copied,
         CopyFails, Install, InstallFails, Spawn, SpawnFails, HandshakeDone, HandshakeRetries,
         GiveUp, Main, Starting
<1>3. CASE Register \/ Ensure \/ Download \/ Copied \/ Install \/ HandshakeRetries \/ GiveUp
  <2>1. UNCHANGED <<rec, tab, alive>>
    BY <1>3 DEF Register, Ensure, Download, Copied, Install, HandshakeRetries, GiveUp, procVars
  <2>2. PICK l \in Starting : /\ main' = [main EXCEPT !.at = l] /\ l # "give_up_wait"
                              /\ l \in BeforeSpawn <=> main.at \in BeforeSpawn
    BY <1>3 DEF Register, Ensure, Download, Copied, Install, HandshakeRetries, GiveUp, Main,
           Starting, BeforeSpawn
  <2>3. main'.at = l /\ main'.w = main.w /\ main'.p = main.p
    BY <2>2, MainMoves
  <2>4. StartInv'
    BY <1>2, <2>1, <2>2, <2>3, StartKept
  <2>5. ReloadInv'
    BY <1>1, <2>1, ReloadKept DEF ReloadInv
  <2>6. ProcInv'
    BY <1>1, <2>1, <2>2, <2>3, ProcKept DEF Starting
  <2>7. StopInv' /\ ExitInv'
    BY <1>1, <2>2, <2>3 DEF StopInv, ExitInv, StoppingAll, Stopping, Starting
  <2> QED BY <2>4, <2>5, <2>6, <2>7
<1>4. CASE RegisterFails \/ DownloadFails \/ CopyFails \/ InstallFails \/ SpawnFails
           \/ HandshakeDone
  <2>1. NextWorker /\ UNCHANGED <<tab, alive>>
    BY <1>4 DEF RegisterFails, DownloadFails, CopyFails, InstallFails, SpawnFails,
           HandshakeDone, procVars
  <2>2. /\ \A w \in Workers \ {main.w} : rec'[w] = rec[w]
        /\ rec'[main.w] = "none" => rec[main.w] = "none"
        /\ rec'[main.w] # "starting"
    <3>1. CASE RegisterFails \/ DownloadFails \/ CopyFails \/ InstallFails
      <4>1. main.at \in BeforeSpawn /\ rec' = rec
        BY <3>1 DEF RegisterFails, DownloadFails, CopyFails, InstallFails, BeforeSpawn
      <4> QED BY <1>2, <4>1 DEF StartInv
    <3>2. CASE SpawnFails \/ HandshakeDone
      BY <1>0, <3>2 DEF SpawnFails, HandshakeDone
    <3> QED BY <1>4, <3>1, <3>2
  <2>3. StartInv'
    <3>1. rec'[main.w] = "none" => tab'[main.w] = 0
      BY <1>0, <2>1, <2>2 DEF StartInv
    <3> QED BY <1>2, <2>1, <2>2, <3>1, StartNext
  <2>4. ReloadInv'
    <3>1. \A w \in InReload : rec'[w] \notin {"none", "starting"} /\ tab'[w] \in {tab[w], 0}
      BY <1>2, <2>1, <2>2, ReloadElsewhere DEF ReloadInv
    <3> QED BY <1>1, <3>1, ReloadKept
  <2>5. main'.at \in {"register", "serving"}
    BY <2>1, NextWorkerMoves
  <2>6. ProcInv'
    BY <1>1, <2>1, <2>5, ProcKept
  <2>7. StopInv' /\ ExitInv'
    BY <1>1, <2>5 DEF StopInv, ExitInv, StoppingAll, Stopping
  <2> QED BY <2>3, <2>4, <2>6, <2>7
<1>5. CASE Spawn
  <2>1. /\ main.at = "spawn" /\ main' = [main EXCEPT !.at = "handshake"]
        /\ "handshake" \in Starting /\ "handshake" \notin BeforeSpawn
        /\ NewProc(main.w)
        /\ rec'[main.w] = "starting" /\ \A w \in Workers \ {main.w} : rec'[w] = rec[w]
    BY <1>0, <1>5 DEF Spawn, Main, Starting, BeforeSpawn
  <2>2. main'.at = "handshake" /\ main'.w = main.w
    BY <2>1, MainMoves
  <2>3. PICK p \in Procs :
           /\ p \notin alive /\ p # 0 /\ \A x \in Workers : tab[x] # p
           /\ alive' = alive \cup {p}
           /\ tab'[main.w] = p /\ \A x \in Workers \ {main.w} : tab'[x] = tab[x]
    BY <1>0, <2>1, NewProcs
  <2>4. rec[main.w] = "none" /\ tab[main.w] = 0
    BY <1>0, <1>2, <2>1 DEF StartInv, BeforeSpawn
  <2>5. StartInv'
    <3>1. ~Past(main.w)' /\ \A w \in Workers \ {main.w} : Past(w)' <=> Past(w)
      BY <1>0, <1>2, <2>1, <2>2 DEF Past, MainRecords, Workers
    <3>2. \A w \in Workers : rec'[w] = "starting" /\ Past(w)' => tab'[w] \notin alive'
      BY <2>1, <2>3, <3>1 DEF StartInv
    <3>3. \A w \in Workers : rec'[w] = "none" => tab'[w] = 0
      BY <2>1, <2>3 DEF StartInv
    <3>4. \A w \in Workers : w > main.w => rec'[w] = "none" 
      <4>1. \A w \in Workers : w > main.w => w # main.w
        BY <1>0 DEF Workers
      <4> QED BY <1>2, <2>1, <4>1 DEF StartInv
    <3> QED BY <2>1, <2>2, <3>2, <3>3, <3>4 DEF StartInv
  <2>6. ReloadInv'
    <3>1. \A w \in InReload : rec'[w] \notin {"none", "starting"} /\ tab'[w] \in {tab[w], 0}
      BY <1>2, <2>1, <2>3, ReloadElsewhere DEF ReloadInv
    <3> QED BY <1>1, <3>1, ReloadKept
  <2>7. ProcInv'
    BY <1>0, <1>1, <2>2, <2>3, <2>4 DEF ProcInv
  <2>8. StopInv' /\ ExitInv'
    BY <1>1, <2>2 DEF StopInv, ExitInv, StoppingAll, Stopping
  <2> QED BY <2>5, <2>6, <2>7, <2>8
<1> QED BY <1>3, <1>4, <1>5 DEF StartStep

\* What a step of StopWorker does to the table and to the processes.
LEMMA StopTable ==
  ASSUME TypeOK, ProcInv, StopReturns \/ StopKills
  PROVE  /\ tab'[main.w] = 0 /\ \A w \in Workers \ {main.w} : tab'[w] = tab[w]
         /\ alive' = alive \ {main.p} /\ excused' = excused \ {main.p}
         /\ main.at \in {"give_up_wait", "stop_wait"} /\ UNCHANGED <<reload, todo, core, rec>>
         /\ core = "up" /\ main.p \notin alive'
<1>1. tab \in [Workers -> 0..MaxProcs] /\ main.w \in Workers
  BY DEF TypeOK
<1>2. CASE StopReturns
  BY <1>1, <1>2 DEF StopReturns, stopVars, ProcInv
<1>3. CASE StopKills
  BY <1>1, <1>3 DEF StopKills, Gone
<1> QED BY <1>2, <1>3

\* When main has stopped a worker, what is left to StopAll is still listed.
LEMMA StopLeaves ==
  ASSUME TypeOK, ProcInv, StopInv, StopReturns \/ StopKills,
         main'.at \in StoppingAll => main.at = "stop_wait"
  PROVE  StopInv'
<1> SUFFICES ASSUME main.at = "stop_wait" PROVE alive' \subseteq excused' \cup {tab'[w] : w \in todo'}
  BY DEF StopInv, Left
<1>1. /\ \A w \in Workers \ {main.w} : tab'[w] = tab[w]
      /\ alive' = alive \ {main.p} /\ excused' = excused \ {main.p} /\ todo' = todo
  BY StopTable
<1>2. todo \subseteq Workers
  BY DEF TypeOK
<1>3. alive \subseteq excused \cup {tab[w] : w \in todo} \cup {main.p}
  BY DEF StopInv, Left, StoppingAll, Stopping
<1>4. tab[main.w] = main.p \/ tab[main.w] \in excused \/ tab[main.w] \notin alive
  BY DEF ProcInv
<1>5. ASSUME NEW p \in alive', p \notin excused'
      PROVE  \E w \in todo : tab'[w] = p
  <2>1. p # main.p /\ p \in alive /\ p \notin excused
    BY <1>1, <1>5
  <2>2. PICK w \in todo : tab[w] = p
    BY <1>3, <2>1
  <2>3. w # main.w
    BY <1>4, <2>1, <2>2
  <2> QED BY <1>1, <1>2, <2>2, <2>3
<1> QED BY <1>1, <1>5

LEMMA StopLife ==
  ASSUME TypeOK, LifeInv, StopStep
  PROVE  LifeInv'
<1> USE DEF LifeInv
<1>0. /\ main \in MainRecords /\ main.w \in Workers /\ 0 \notin alive
      /\ rec \in [Workers -> {"none", "starting", "running", "unhealthy", "restarting", "stopped"}]
      /\ tab \in [Workers -> 0..MaxProcs] /\ reload \in ReloadRecords
  BY CoreAssumption DEF TypeOK, MainRecords, ReloadRecords, Procs
<1>1. InReload \subseteq Workers
  BY <1>0 DEF InReload, ReloadRecords
<1>2. CASE Signal
  <2>1. UNCHANGED <<rec, tab, alive, excused, reload, todo, core>> /\ core = "up"
    BY <1>2 DEF Signal, stopVars
  <2>2. /\ main'.w = main.w /\ main'.p = tab[main.w]
        /\ main'.at = IF main.at = "stop" THEN "stop_wait" ELSE "give_up_wait"
        /\ main.at \in {"give_up", "stop"}
    BY <1>2, SignalMoves
  <2>3. StartInv'
    BY <2>1, <2>2, StartKept DEF Starting, BeforeSpawn
  <2>4. ReloadInv'
    BY <2>1, ReloadKept DEF ReloadInv
  <2>5. ProcInv'
    BY <2>1, <2>2, ProcKept
  <2>6. StopInv' /\ ExitInv'
    BY <2>1, <2>2 DEF StopInv, Left, ExitInv, StoppingAll, Stopping
  <2> QED BY <2>3, <2>4, <2>5, <2>6
<1>3. CASE StopReturns
  <2>1. /\ tab'[main.w] = 0 /\ \A w \in Workers \ {main.w} : tab'[w] = tab[w]
        /\ alive' = alive \ {main.p} /\ excused' = excused \ {main.p}
        /\ main.at \in {"give_up_wait", "stop_wait"} /\ UNCHANGED <<reload, todo, core, rec>>
        /\ core = "up"
    BY <1>3, StopTable
  <2>2. /\ main'.w = main.w
        /\ main'.at = IF main.at = "stop_wait" THEN "stop_save" ELSE "give_up_save"
    BY <1>3, ReturnMoves
  <2>3. StartInv'
    BY <1>0, <2>1, <2>2, StartKept DEF Starting, BeforeSpawn
  <2>4. ReloadInv'
    BY <1>1, <2>1, ReloadKept DEF ReloadInv
  <2>5. ProcInv'
    BY <1>0, <2>1, <2>2 DEF ProcInv
  <2>6. StopInv' /\ ExitInv'
    BY <1>3, <2>1, <2>2, StopLeaves DEF ExitInv, StoppingAll, Stopping
  <2> QED BY <2>3, <2>4, <2>5, <2>6
<1>4. CASE SignalFails \/ StopKills \/ StopSaves
  <2>1. PICK err \in BOOLEAN : Stopped(err)
    BY <1>4 DEF SignalFails, StopKills, StopSaves
  <2>2. /\ main.at \in GivingUp => NextWorker
        /\ main.at \notin GivingUp => main'.at = "stop_all" /\ main'.w = main.w
        /\ main'.at \in {"register", "serving", "stop_all"}
    BY <2>1, StoppedMoves
  <2>3. /\ UNCHANGED <<reload, todo, core>> /\ core = "up"
        /\ \A w \in Workers \ {main.w} : rec'[w] = rec[w] /\ tab'[w] = tab[w]
        /\ rec'[main.w] = rec[main.w] \/ rec'[main.w] = "stopped"
        /\ rec'[main.w] = "stopped" \/ tab'[main.w] \notin alive'
        /\ tab'[main.w] \in {tab[main.w], 0}
        /\ alive' \subseteq alive
        /\ main.at \in GivingUp \cup {"stop", "stop_wait", "stop_save"}
    <3>1. CASE SignalFails
      BY <3>1 DEF SignalFails, procVars, GivingUp
    <3>2. CASE StopKills
      BY <1>0, <3>2, StopTable DEF GivingUp
    <3>3. CASE StopSaves
      BY <1>0, <3>3 DEF StopSaves, procVars, GivingUp
    <3> QED BY <1>4, <3>1, <3>2, <3>3
  <2>4. StartInv'
    <3>1. CASE main.at \in GivingUp
      <4>1. main.at \in Starting
        BY <3>1 DEF GivingUp, Starting
      <4>2. rec'[main.w] = "none" => tab'[main.w] = 0
        BY <1>0, <2>3 DEF StartInv
      <4> QED BY <2>2, <2>3, <3>1, <4>1, <4>2, StartNext
    <3>2. CASE main.at \notin GivingUp
      <4>1. main.at \notin Starting /\ main'.at \notin Starting
            /\ main.at \notin BeforeSpawn /\ main'.at \notin BeforeSpawn
        BY <2>2, <2>3, <3>2 DEF Starting, BeforeSpawn
      <4>2. \A w \in Workers : Past(w)
        BY <4>1 DEF Past
      <4>3. \A w \in Workers : tab'[w] \in {tab[w], 0}
        BY <2>3
      <4> QED BY <1>0, <2>3, <4>1, <4>2, <4>3, StartKept
    <3> QED BY <3>1, <3>2
  <2>5. ReloadInv'
    <3>1. \A w \in InReload : rec'[w] \notin {"none", "starting"} /\ tab'[w] \in {tab[w], 0}
      BY <1>1, <2>3 DEF ReloadInv
    <3> QED BY <2>3, <3>1, ReloadKept
  <2>6. ProcInv' /\ StopInv'
    <3>1. CASE SignalFails \/ StopSaves
      <4>1. UNCHANGED <<tab, alive, excused>>
        BY <3>1 DEF SignalFails, StopSaves, procVars
      <4>2. ProcInv'
        BY <2>2, <4>1, ProcKept
      <4>3. main.at = "stop" => tab[main.w] \notin alive
        BY <3>1 DEF SignalFails, StopSaves
      <4>4. main.at # "stop_wait"
        BY <3>1 DEF SignalFails, StopSaves
      <4>5. main'.at = "stop_all" => main.at \in StoppingAll
        <5>1. main.at \in GivingUp => main'.at # "stop_all"
          BY <2>2, NextWorkerMoves
        <5> QED BY <2>3, <5>1 DEF StoppingAll, Stopping
      <4>6. StopInv'
        BY <2>2, <2>3, <4>1, <4>3, <4>4, <4>5 DEF StopInv, Left, StoppingAll, Stopping
      <4> QED BY <4>2, <4>6
    <3>2. CASE StopKills
      <4>1. /\ tab'[main.w] = 0 /\ \A w \in Workers \ {main.w} : tab'[w] = tab[w]
            /\ alive' = alive \ {main.p} /\ excused' = excused \ {main.p}
            /\ main.at \in {"give_up_wait", "stop_wait"}
        BY <3>2, StopTable
      <4>2. ProcInv'
        BY <1>0, <2>2, <4>1 DEF ProcInv
      <4>3. main'.at = "stop_all" => main.at = "stop_wait"
        <5>1. main.at \in GivingUp => main'.at # "stop_all"
          BY <2>2, NextWorkerMoves
        <5> QED BY <4>1, <5>1 DEF GivingUp
      <4>4. StopInv'
        BY <2>2, <3>2, <4>3, StopLeaves DEF StoppingAll, Stopping
      <4> QED BY <4>2, <4>4
    <3> QED BY <1>4, <3>1, <3>2
  <2>7. ExitInv'
    BY <2>3 DEF ExitInv
  <2> QED BY <2>4, <2>5, <2>6, <2>7
<1>5. CASE Shutdown \/ Snapshot \/ (\E w \in Workers : StopNext(w)) \/ Exit
  <2>1. UNCHANGED <<rec, tab, alive, reload>> /\ excused \subseteq excused'
        /\ core = "up" /\ main.at \in {"serving", "close", "stop_all"}
    BY <1>5 DEF Shutdown, Snapshot, StopNext, Exit, procVars, Main
  <2>2. main'.at \in {"close", "stop_all", "stop"}
    BY <1>0, <1>5 DEF Shutdown, Snapshot, StopNext, Exit, Main, MainRecords
  <2>3. StartInv'
    BY <2>1, <2>2, StartKept DEF Starting, BeforeSpawn
  <2>4. ReloadInv'
    BY <2>1, ReloadKept DEF ReloadInv
  <2>5. excused' \subseteq alive
    BY <1>5 DEF Shutdown, Snapshot, StopNext, Exit, procVars, ProcInv
  <2>6. ProcInv'
    BY <2>1, <2>2, <2>5 DEF ProcInv
  <2>7. StopInv'
    <3>1. CASE Shutdown
      BY <1>0, <3>1 DEF Shutdown, Main, StopInv, StoppingAll, Stopping, MainRecords
    <3>2. CASE Snapshot
      <4>1. /\ todo' = {w \in Workers : rec[w] = "running"}
            /\ excused' = excused \cup ({tab[w] : w \in Workers \ todo'} \cap alive)
        BY <3>2 DEF Snapshot
      <4>2. \A p \in alive : p \in excused' \/ p \in {tab[w] : w \in todo'}
        BY <4>1 DEF ProcInv
      <4> QED BY <2>1, <4>2 DEF StopInv, Left
    <3>3. ASSUME NEW w \in Workers, StopNext(w)
          PROVE  StopInv'
      <4>1. main'.at = "stop" /\ main'.w = w /\ todo' = todo \ {w} /\ excused' = excused
            /\ main.at = "stop_all"
        BY <3>3 DEF StopNext, procVars
      <4> QED BY <2>1, <4>1 DEF StopInv, Left, StoppingAll, Stopping
    <3>4. CASE Exit
      BY <3>4 DEF Exit, StopInv, Left, stopVars, procVars
    <3> QED BY <1>5, <3>1, <3>2, <3>3, <3>4
  <2>8. ExitInv'
    BY <1>5 DEF Shutdown, Snapshot, StopNext, Exit, ExitInv, stopVars, Main
  <2> QED BY <2>3, <2>4, <2>6, <2>7, <2>8
<1> QED BY <1>2, <1>3, <1>4, <1>5 DEF StopStep

LEMMA ReloadLife ==
  ASSUME TypeOK, LifeInv, Usr1 \/ ReloadStep
  PROVE  LifeInv'
<1> USE DEF LifeInv
<1>0. /\ main \in MainRecords /\ main.w \in Workers /\ 0 \notin alive /\ todo \subseteq Workers
      /\ rec \in [Workers -> {"none", "starting", "running", "unhealthy", "restarting", "stopped"}]
      /\ tab \in [Workers -> 0..MaxProcs] /\ reload \in ReloadRecords /\ reload.w \in Workers
  BY CoreAssumption DEF TypeOK, MainRecords, ReloadRecords, Procs
<1>1. UNCHANGED <<main, todo, core>> /\ core = "up"
  BY DEF Usr1, ReloadStep, ReloadNext, ReloadDone, ReloadStop, ReloadStopFails, ReloadStopped,
         Respawn, RespawnFails, stopVars
<1>2. ExitInv'
  BY <1>1 DEF ExitInv
<1>3. \A w \in InReload : w \in Workers /\ Past(w) /\ rec[w] \notin {"none", "starting"}
  BY ReloadElsewhere DEF ReloadInv
<1>4. CASE Usr1 \/ (\E w \in Workers : ReloadNext(w)) \/ ReloadDone \/ ReloadStop
           \/ ReloadStopFails \/ RespawnFails
  <2>1. UNCHANGED <<tab, alive, excused>>
    BY <1>4 DEF Usr1, ReloadNext, ReloadDone, ReloadStop, ReloadStopFails, RespawnFails, procVars
  <2>2. \A w \in Workers : rec'[w] = rec[w] \/ (rec'[w] \notin {"none", "starting"} /\ w \in InReload)
    <3>1. CASE Usr1 \/ ReloadDone \/ ReloadStop \/ ReloadStopFails
      BY <3>1 DEF Usr1, ReloadDone, ReloadStop, ReloadStopFails
    <3>2. ASSUME NEW x \in Workers, ReloadNext(x)
          PROVE  \A w \in Workers :
                   rec'[w] = rec[w] \/ (rec'[w] \notin {"none", "starting"} /\ w \in InReload)
      BY <1>0, <3>2 DEF ReloadNext, InReload
    <3>3. CASE RespawnFails
      BY <1>0, <3>3 DEF RespawnFails, InReload
    <3> QED BY <1>4, <3>1, <3>2, <3>3
  <2>3. StartInv'
    BY <1>1, <1>3, <2>1, <2>2, StartKept
  <2>4. ProcInv'
    BY <1>1, <2>1, ProcKept
  <2>5. StopInv'
    BY <1>1, <2>1 DEF StopInv, Left
  <2>6. ReloadInv'
    <3>1. CASE Usr1
      <4>1. reload'.at = "next" /\ reload'.todo = {w \in Workers : rec[w] = "running"} /\ rec' = rec
        BY <3>1, ReloadMoves DEF Usr1
      <4> QED BY <4>1 DEF ReloadInv, InReload
    <3>2. ASSUME NEW x \in Workers, ReloadNext(x)
          PROVE  ReloadInv'
      <4>1. reload'.at = "stop" /\ reload'.w = x /\ reload'.todo = reload.todo \ {x}
            /\ x \in reload.todo
        BY <3>2, ReloadMoves DEF ReloadStep, ReloadNext
      <4>2. InReload' \subseteq InReload
        BY <4>1 DEF InReload
      <4> QED BY <1>3, <2>2, <4>1, <4>2 DEF ReloadInv
    <3>3. CASE ReloadDone
      <4>1. reload' = ReloadIdle
        BY <3>3 DEF ReloadDone
      <4>2. reload'.at = "idle" /\ reload'.todo = {}
        BY <4>1 DEF ReloadIdle
      <4> QED BY <4>2 DEF ReloadInv, InReload
    <3>4. CASE ReloadStop
      <4>1. reload'.at = "wait" /\ reload'.w = reload.w /\ reload'.p = tab[reload.w]
            /\ reload'.todo = reload.todo /\ reload.at = "stop" /\ rec' = rec
        BY <3>4, ReloadMoves DEF ReloadStep, ReloadStop
      <4>2. InReload' = InReload
        BY <4>1 DEF InReload
      <4> QED BY <1>3, <2>1, <4>1, <4>2 DEF ReloadInv
    <3>5. CASE ReloadStopFails \/ RespawnFails
      <4>1. reload'.at = "next" /\ reload'.todo = reload.todo
        BY <3>5, ReloadMoves DEF ReloadStep
      <4>2. InReload' \subseteq InReload
        BY <4>1 DEF InReload
      <4> QED BY <1>3, <2>2, <4>1, <4>2 DEF ReloadInv
    <3> QED BY <1>4, <3>1, <3>2, <3>3, <3>4, <3>5
  <2> QED BY <1>2, <2>3, <2>4, <2>5, <2>6
<1>5. CASE ReloadStopped
  <2>1. /\ tab'[reload.w] = 0 /\ \A w \in Workers \ {reload.w} : tab'[w] = tab[w]
        /\ alive' = alive \ {reload.p} /\ excused' = excused \ {reload.p}
        /\ rec' = rec /\ reload.at = "wait"
    <3>1. reload.p \notin alive => reload.p \notin excused
      BY DEF ProcInv
    <3> QED BY <1>0, <1>5, <3>1 DEF ReloadStopped, Gone
  <2>2. reload.w \in InReload /\ tab[reload.w] \in {0, reload.p}
    BY <2>1 DEF InReload, ReloadInv
  <2>3. StartInv'
    BY <1>0, <1>1, <1>3, <2>1, <2>2, StartKept
  <2>4. ReloadInv'
    <3>1. reload'.w = reload.w /\ reload'.todo = reload.todo /\ reload'.at \in {"next", "respawn"}
      BY <1>5, ReloadMoves DEF ReloadStep
    <3>2. InReload' \subseteq InReload
      BY <2>1, <3>1 DEF InReload
    <3> QED BY <1>3, <2>1, <3>1, <3>2 DEF ReloadInv
  <2>5. ProcInv'
    BY <1>0, <1>1, <2>1, <2>2 DEF ProcInv
  <2>6. StopInv'
    <3>1. ASSUME NEW p \in alive', p \notin excused', main.at \in StoppingAll
          PROVE  \/ \E w \in todo : tab'[w] = p
                 \/ main.at = "stop" /\ p = tab'[main.w]
                 \/ main.at = "stop_wait" /\ p = main.p
      <4>1. p # reload.p /\ p \in alive /\ p \notin excused /\ p # 0
        BY <1>0, <2>1, <3>1
      <4>2. \/ \E w \in todo : tab[w] = p
            \/ main.at = "stop" /\ p = tab[main.w]
            \/ main.at = "stop_wait" /\ p = main.p
        BY <3>1, <4>1 DEF StopInv, Left
      <4> QED BY <1>0, <2>1, <2>2, <4>1, <4>2
    <3> QED BY <1>1, <3>1 DEF StopInv, Left
  <2> QED BY <1>2, <2>3, <2>4, <2>5, <2>6
<1>6. CASE Respawn
  <2>1. PICK p \in Procs :
           /\ p \notin alive /\ p # 0 /\ p # main.p /\ \A x \in Workers : tab[x] # p
           /\ alive' = alive \cup {p}
           /\ tab'[reload.w] = p /\ \A x \in Workers \ {reload.w} : tab'[x] = tab[x]
    BY <1>0, <1>6, NewProcs DEF Respawn
  <2>2. /\ reload.at = "respawn" /\ rec'[reload.w] = "running"
        /\ \A x \in Workers \ {reload.w} : rec'[x] = rec[x]
        /\ excused' = IF main.at \in StoppingAll THEN excused \cup {p} ELSE excused
    BY <1>0, <1>6, <2>1 DEF Respawn, StoppingAll
  <2>3. reload.w \in InReload /\ tab[reload.w] = 0
    BY <2>2 DEF InReload, ReloadInv
  <2>4. StartInv'
    BY <1>0, <1>1, <1>3, <2>1, <2>2, <2>3, StartKept
  <2>5. ReloadInv'
    <3>1. reload'.at = "next" /\ reload'.todo = reload.todo
      BY <1>6, ReloadMoves DEF ReloadStep
    <3>2. InReload' \subseteq InReload
      BY <3>1 DEF InReload
    <3> QED BY <1>3, <2>2, <3>1, <3>2 DEF ReloadInv
  <2>6. ProcInv'
    <3>1. main.at \in Starting => main.w # reload.w
      BY <2>3, ReloadElsewhere
    <3>2. main.at = "give_up_wait" => main.at \in Starting
      BY DEF Starting
    <3>3. main.at = "stop_wait" => main.at \in StoppingAll
      BY DEF StoppingAll, Stopping
    <3>4. excused' \subseteq alive'
      BY <2>1, <2>2 DEF ProcInv
    <3>5. \A q \in alive' \ excused' : \E w \in Workers : tab'[w] = q
      BY <1>0, <2>1, <2>2, <2>3 DEF ProcInv
    <3>6. main.at \in {"give_up_wait", "stop_wait"} =>
             tab'[main.w] = main.p \/ tab'[main.w] \in excused' \/ tab'[main.w] \notin alive'
      BY <1>0, <2>1, <2>2, <3>1, <3>2, <3>3 DEF ProcInv
    <3> QED BY <1>1, <3>4, <3>5, <3>6 DEF ProcInv
  <2>7. StopInv'
    <3>1. ASSUME NEW q \in alive', q \notin excused', main.at \in StoppingAll
          PROVE  \/ \E w \in todo : tab'[w] = q
                 \/ main.at = "stop" /\ q = tab'[main.w]
                 \/ main.at = "stop_wait" /\ q = main.p
      <4>1. q \in alive /\ q \notin excused /\ q # 0
        BY <1>0, <2>1, <2>2, <3>1
      <4>2. \/ \E w \in todo : tab[w] = q
            \/ main.at = "stop" /\ q = tab[main.w]
            \/ main.at = "stop_wait" /\ q = main.p
        BY <3>1, <4>1 DEF StopInv, Left
      <4> QED BY <1>0, <2>1, <2>3, <4>1, <4>2
    <3> QED BY <1>1, <3>1 DEF StopInv, Left
  <2> QED BY <1>2, <2>4, <2>5, <2>6, <2>7
<1> QED BY <1>4, <1>5, <1>6 DEF ReloadStep

LEMMA WorldLife ==
  ASSUME TypeOK, LifeInv, WorldStep
  PROVE  LifeInv'
<1> USE DEF LifeInv
<1>0. rec \in [Workers -> {"none", "starting", "running", "unhealthy", "restarting", "stopped"}]
      /\ reload \in ReloadRecords
  BY DEF TypeOK, ReloadRecords
<1>1. UNCHANGED <<main, reload, todo, tab>>
  BY DEF WorldStep, Dial, Unhealthy, Beat, ProcEnds, Term, Boot, vars, procVars, stopVars
<1>2. \A w \in Workers : rec'[w] = rec[w] \/ (rec'[w] \notin {"none", "starting"} /\ Past(w))
  <2>1. CASE \E w \in Workers : Unhealthy(w) \/ Beat(w)
    BY <1>0, <2>1 DEF Unhealthy, Beat, Watched, Past
  <2>2. CASE ~(\E w \in Workers : Unhealthy(w) \/ Beat(w))
    <3>1. rec' = rec
      BY <2>2 DEF WorldStep, Dial, ProcEnds, Term, Boot, vars
    <3> QED BY <3>1
  <2> QED BY <2>1, <2>2
<1>3. \/ UNCHANGED <<alive, excused>>
      \/ \E p \in Procs : alive' = alive \ {p} /\ excused' = excused \ {p}
  BY DEF WorldStep, Dial, Unhealthy, Beat, ProcEnds, Term, Boot, vars, procVars, Gone
<1>4. StartInv'
  BY <1>1, <1>2, <1>3, StartKept
<1>5. ReloadInv'
  <2>1. InReload \subseteq Workers
    BY <1>0 DEF InReload, ReloadRecords
  <2> QED BY <1>1, <1>2, <2>1, ReloadKept DEF ReloadInv
<1>6. ProcInv'
  BY <1>1, <1>3 DEF ProcInv
<1>7. StopInv'
  <2>1. Left' = Left
    BY <1>1 DEF Left
  <2> QED BY <1>1, <1>3, <2>1 DEF StopInv
<1>8. ExitInv'
  <2>1. core' = core \/ core' = "up"
    BY DEF WorldStep, Dial, Unhealthy, Beat, ProcEnds, Term, Boot, vars
  <2> QED BY <1>1, <2>1 DEF ExitInv
<1> QED BY <1>4, <1>5, <1>6, <1>7, <1>8

\* The first moments of a core, the first one or another.
Fresh ==
  /\ main = MainFirst /\ reload = ReloadIdle
  /\ rec = [w \in Workers |-> "none"] /\ tab = [w \in Workers |-> 0]
  /\ alive = {} /\ excused = {} /\ core \notin {"clean", "error"}

LEMMA FreshLife == Fresh => LifeInv
<1> SUFFICES ASSUME Fresh PROVE LifeInv
  OBVIOUS
<1>1. main.at = "register" /\ main.w = 1 /\ 1 \in Workers /\ reload.at = "idle" /\ reload.todo = {}
  BY Firsts DEF Fresh, MainFirst, ReloadIdle
<1>2. InReload = {}
  BY <1>1 DEF InReload
<1>3. main.at \in BeforeSpawn
  BY <1>1 DEF BeforeSpawn
<1>4. StartInv
  BY <1>1, <1>3 DEF StartInv, Fresh
<1>5. ReloadInv /\ ProcInv /\ StopInv /\ ExitInv
  BY <1>1, <1>2 DEF ReloadInv, ProcInv, StopInv, ExitInv, Fresh
<1> QED BY <1>4, <1>5 DEF LifeInv

LEMMA DieLife == Die => LifeInv'
<1>1. Die => Fresh'
  BY DEF Die, Fresh
<1> QED BY <1>1, FreshLife, PTL

LEMMA CoreInitHolds == Init => CoreInv
<1>1. Init => Fresh
  BY DEF Init, Fresh
<1> QED BY <1>1, CoreInitTypes, FreshLife DEF CoreInv, LifeInv

LEMMA CoreStep == CoreInv /\ [Next]_vars => CoreInv'
<1> SUFFICES ASSUME CoreInv, [Next]_vars PROVE CoreInv'
  OBVIOUS
<1>1. TypeOK /\ ToolInv /\ LifeInv
  BY DEF CoreInv, LifeInv
<1>2. TypeOK' /\ ToolInv'
  BY <1>1, CoreTypeStep
<1>3. LifeInv'
  BY <1>1, StepKinds, StartLife, StopLife, ReloadLife, WorldLife, DieLife DEF HandshakePanics, Crash
<1> QED BY <1>2, <1>3 DEF CoreInv, LifeInv

LEMMA CoreInvariant == Spec => []CoreInv
BY CoreInitHolds, CoreStep, PTL DEF Spec

\* No worker is left recorded as starting, a state no health check looks at,
\* with a process that runs: whatever fails or is killed during start-up, and
\* however reloads restart the workers that came before.
THEOREM StartupLeavesNone == Spec => []NoneLeftStarting
<1>1. CoreInv => NoneLeftStarting
  BY DEF CoreInv, StartInv, NoneLeftStarting, Watched, Past
<1> QED BY <1>1, CoreInvariant, PTL

\* A core that ends with status 0 leaves running only what StopAll did not see
\* running or a reload started behind its back.
THEOREM CleanExitStops == Spec => []CleanExitStopsTheRunning
<1>1. CoreInv => CleanExitStopsTheRunning
  BY DEF CoreInv, ExitInv, StopInv, Left, StoppingAll, Stopping, CleanExitStopsTheRunning
<1> QED BY <1>1, CoreInvariant, PTL
=============================================================================
