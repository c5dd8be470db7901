----------------------- MODULE FailureHandlingProofs ------------------------
(***************************************************************************)
(* Proofs about what the core does when workers fail: HealthMonitor, for   *)
(* any number of loops and calls, and CircuitBreaker, for any number of    *)
(* requests, threshold, cooldown and number of probes.  They share no      *)
(* state.                                                                  *)
(***************************************************************************)
EXTENDS HealthMonitor, CircuitBreaker, TLAPS

-----------------------------------------------------------------------------
(* The monitor and the heartbeat loops *)

\* TrackedLoopIsLive is inductive together with the type invariant: only Exit
\* turns a loop off, and it forgets the entry of the worker in the same critical
\* section; every launch tracks the loop it starts.
HInv == TypeOK /\ TrackedLoopIsLive

\* What the service methods make of a worker's record is a record again.
LEMMA RecordsClosed ==
  /\ NoCopy \in Records
  /\ [state |-> "running", hb |-> "fresh"] \in Records
  /\ \A w \in Records : /\ Alive(w) \in Records
                        /\ Unhealthy(w) \in Records
                        /\ Restarting(w) \in Records
                        /\ Stale(w) \in Records
                        /\ [w EXCEPT !.state = "running"] \in Records
                        /\ [w EXCEPT !.state = "stopped"] \in Records
  BY DEF Records, States, NoCopy, Alive, Unhealthy, Restarting, Stale

\* A loop may have missed no heartbeat, whatever the threshold.
LEMMA NoneMissed == MissedThreshold \in Nat /\ 0 \in 0..(MissedThreshold - 1)
<1>1. MissedThreshold \in Nat \ {0}
  BY HealthAssumption
<1> QED BY <1>1

\* A loop that is off, one just launched and a call that is idle are well
\* formed.
LEMMA FreshOnes ==
  /\ LoopOff \in LoopRecords
  /\ CallIdle \in CallRecords
  /\ \A x \in Calls \cup {Root, Done} : LoopUnder(x) \in LoopRecords /\ LoopUnder(x).pc = "read"
<1>1. LoopOff \in LoopRecords
  BY RecordsClosed, NoneMissed DEF LoopOff, LoopRecords, LoopSteps
<1>2. CallIdle \in CallRecords
  BY RecordsClosed DEF CallIdle, CallRecords, CallSteps
<1>3. ASSUME NEW x \in Calls \cup {Root, Done}
      PROVE  LoopUnder(x) \in LoopRecords /\ LoopUnder(x).pc = "read"
  BY <1>1 DEF LoopUnder, LoopRecords, LoopSteps
<1> QED BY <1>1, <1>2, <1>3

\* The initial state of HealthMonitor satisfies the invariant: the receiver
\* tracks no loop yet.
LEMMA HealthInit == Init => HInv
<1> SUFFICES ASSUME Init PROVE HInv
  OBVIOUS
<1>1. loop \in [Loops -> LoopRecords] /\ call \in [Calls -> CallRecords]
  BY FreshOnes DEF Init
<1>2. mon \in [pc : {"idle", "mark", "save"}, copy : Records] /\ repo \in Records
  BY RecordsClosed DEF Init
<1> QED BY <1>1, <1>2 DEF Init, HInv, TypeOK, TrackedLoopIsLive

\* A loop that moves to another step, short of being off, leaves the loops well
\* formed and the tracked one alive.
LEMMA LoopMoves ==
  ASSUME HInv, NEW l \in Loops, NEW x \in LoopRecords, x.pc # "off",
         loop' = [loop EXCEPT ![l] = x], running' = running
  PROVE  loop' \in [Loops -> LoopRecords] /\ TrackedLoopIsLive'
  BY DEF HInv, TypeOK, TrackedLoopIsLive

\* Every step of a heartbeat loop preserves the invariant: Exit, the only one
\* to end a loop, deletes the worker's entry as well.
LEMMA LoopPreserves == ASSUME HInv, NEW l \in Loops, LoopStep(l) PROVE HInv'
<1>0. loop[l] \in LoopRecords /\ repo \in Records /\ loop[l].copy \in Records
  BY DEF HInv, TypeOK, LoopRecords
<1>1. CASE ReceiveHeartbeat(l)
  <2> DEFINE x == [loop[l] EXCEPT !.pc = "record", !.missed = 0, !.copy = Alive(repo)]
  <2>1. x \in LoopRecords /\ x.pc # "off"
    BY <1>0, RecordsClosed, NoneMissed DEF LoopRecords, LoopSteps
  <2>2. loop' = [loop EXCEPT ![l] = x]
    BY <1>1 DEF ReceiveHeartbeat
  <2> QED BY <1>1, <2>1, <2>2, LoopMoves DEF ReceiveHeartbeat, HInv, TypeOK
<1>2. CASE RecordHeartbeat(l)
  <2> DEFINE x == [loop[l] EXCEPT !.pc = NextIteration(l), !.copy = NoCopy]
  <2>1. x \in LoopRecords /\ x.pc # "off"
    BY <1>0, RecordsClosed DEF LoopRecords, LoopSteps, NextIteration
  <2>2. loop' = [loop EXCEPT ![l] = x]
    BY <1>2 DEF RecordHeartbeat
  <2> QED BY <1>0, <1>2, <2>1, <2>2, LoopMoves DEF RecordHeartbeat, HInv, TypeOK
<1>3. CASE ReceiveHandshake(l)
  <2> DEFINE pc == IF repo.state = "running" THEN NextIteration(l) ELSE "greet"
             x == [loop[l] EXCEPT !.pc = pc, !.missed = 0]
  <2>1. pc \in LoopSteps \ {"off"}
    BY DEF LoopSteps, NextIteration
  <2> HIDE DEF pc
  <2>2. x \in LoopRecords /\ x.pc # "off"
    BY <1>0, <2>1, NoneMissed DEF LoopRecords
  <2>3. loop' = [loop EXCEPT ![l] = x]
    BY <1>3 DEF ReceiveHandshake, pc
  <2> QED BY <1>3, <2>2, <2>3, LoopMoves DEF ReceiveHandshake, HInv, TypeOK
<1>4. CASE MarkRunning(l)
  <2> DEFINE x == [loop[l] EXCEPT !.pc = NextIteration(l)]
  <2>1. x \in LoopRecords /\ x.pc # "off"
    BY <1>0 DEF LoopRecords, LoopSteps, NextIteration
  <2>2. loop' = [loop EXCEPT ![l] = x]
    BY <1>4 DEF MarkRunning
  <2> QED BY <1>4, <2>1, <2>2, LoopMoves, RecordsClosed DEF MarkRunning, HInv, TypeOK
<1>5. CASE Miss(l)
  <2>1. PICK x \in LoopRecords : x.pc # "off" /\ loop' = [loop EXCEPT ![l] = x]
    <3>1. CASE loop[l].missed + 1 < MissedThreshold
      <4> DEFINE x == [loop[l] EXCEPT !.missed = loop[l].missed + 1]
      <4>1. x \in LoopRecords
        BY <1>0, <3>1, NoneMissed DEF LoopRecords
      <4>2. x.pc # "off"
        BY <1>0, <1>5 DEF Miss, Reading, LoopRecords
      <4>3. ~(loop[l].missed + 1 >= MissedThreshold)
        BY <1>0, <3>1, NoneMissed DEF LoopRecords
      <4>4. loop' = [loop EXCEPT ![l].missed = loop[l].missed + 1]
        BY <1>5, <4>3 DEF Miss
      <4>5. loop' = [loop EXCEPT ![l] = x]
        BY <4>4
      <4> QED BY <4>1, <4>2, <4>5
    <3>2. CASE loop[l].missed + 1 >= MissedThreshold
      <4> DEFINE x == [loop[l] EXCEPT !.pc = "condemn", !.missed = 0, !.copy = Unhealthy(repo)]
      <4>1. x \in LoopRecords /\ x.pc # "off"
        BY <1>0, RecordsClosed, NoneMissed DEF LoopRecords, LoopSteps
      <4>2. ~(loop[l].missed + 1 < MissedThreshold)
        BY <1>0, <3>2, NoneMissed DEF LoopRecords
      <4>3. loop' = [loop EXCEPT ![l] = x]
        BY <1>5, <4>2 DEF Miss
      <4> QED BY <4>1, <4>3
    <3> QED BY <1>5, <3>1, <3>2 DEF Miss
  <2> QED BY <1>5, <2>1, LoopMoves DEF Miss, HInv, TypeOK
<1>6. CASE MarkUnhealthy(l)
  <2> DEFINE x == [loop[l] EXCEPT !.pc = "exit", !.copy = NoCopy]
  <2>1. x \in LoopRecords /\ x.pc # "off"
    BY <1>0, RecordsClosed DEF LoopRecords, LoopSteps
  <2>2. loop' = [loop EXCEPT ![l] = x]
    BY <1>6 DEF MarkUnhealthy
  <2> QED BY <1>0, <1>6, <2>1, <2>2, LoopMoves DEF MarkUnhealthy, HInv, TypeOK
<1>7. CASE StopReading(l)
  <2> DEFINE x == [loop[l] EXCEPT !.pc = "exit"]
  <2>1. x \in LoopRecords /\ x.pc # "off"
    BY <1>0 DEF LoopRecords, LoopSteps
  <2>2. loop' = [loop EXCEPT ![l] = x]
    BY <1>7 DEF StopReading
  <2> QED BY <1>7, <2>1, <2>2, LoopMoves DEF StopReading, HInv, TypeOK
<1>8. CASE Exit(l)
  BY <1>8, FreshOnes DEF Exit, HInv, TypeOK, TrackedLoopIsLive
<1> QED BY <1>1, <1>2, <1>3, <1>4, <1>5, <1>6, <1>7, <1>8 DEF LoopStep

\* Cancelling the tracked loop, and launching another in its place, leaves the
\* loops well formed and each at its step.
LEMMA CancelKeeps ==
  ASSUME HInv
  PROVE  /\ CancelTracked \in [Loops -> LoopRecords]
         /\ \A l \in Loops : CancelTracked[l].pc = loop[l].pc
<1>1. \A x \in LoopRecords : /\ [x EXCEPT !.ctx = Done] \in LoopRecords
                             /\ [x EXCEPT !.ctx = Done].pc = x.pc
  BY DEF LoopRecords
<1> QED BY <1>1 DEF CancelTracked, HInv, TypeOK

\* Every step of a RestartWorker call preserves the invariant: RestartLoop
\* tracks the loop it has just started.
LEMMA CallPreserves == ASSUME HInv, NEW c \in Calls, CallStep(c) PROVE HInv'
<1>0. call[c] \in CallRecords /\ repo \in Records /\ call[c].copy \in Records
  BY DEF HInv, TypeOK, CallRecords
<1>a. \A s \in CallSteps : [call[c] EXCEPT !.pc = s] \in CallRecords
  BY <1>0 DEF CallRecords
<1>1. CASE BackoffOver(c)
  <2> DEFINE x == [call[c] EXCEPT !.pc = "begin", !.copy = Restarting(repo)]
  <2>1. x \in CallRecords
    BY <1>0, RecordsClosed DEF CallRecords, CallSteps
  <2>2. call' = [call EXCEPT ![c] = x] \/ call' = [call EXCEPT ![c] = CallIdle]
    BY <1>1 DEF BackoffOver
  <2>3. call' \in [Calls -> CallRecords]
    BY <2>1, <2>2, FreshOnes DEF HInv, TypeOK
  <2> QED BY <1>1, <2>3 DEF BackoffOver, HInv, TypeOK, TrackedLoopIsLive
<1>2. CASE Begin(c)
  <2>1. call' = [call EXCEPT ![c] = [call[c] EXCEPT !.pc = "stop"]]
    BY <1>2 DEF Begin
  <2>2. call' \in [Calls -> CallRecords]
    BY <1>a, <2>1 DEF CallSteps, HInv, TypeOK
  <2> QED BY <1>0, <1>2, <2>2 DEF Begin, HInv, TypeOK, TrackedLoopIsLive
<1>3. CASE Stop(c)
  <2>1. \/ call' = [call EXCEPT ![c] = [call[c] EXCEPT !.pc = "respawn"]]
        \/ call' = [call EXCEPT ![c] = CallIdle]
    BY <1>3 DEF Stop
  <2>2. call' \in [Calls -> CallRecords]
    BY <1>a, <2>1, FreshOnes DEF CallSteps, HInv, TypeOK
  <2> QED BY <1>3, <2>2 DEF Stop, HInv, TypeOK, TrackedLoopIsLive
<1>4. CASE Respawn(c)
  <2>1. call' = [call EXCEPT ![c] = [call[c] EXCEPT !.pc = "running"]]
    BY <1>4 DEF Respawn
  <2>2. call' \in [Calls -> CallRecords]
    BY <1>a, <2>1 DEF CallSteps, HInv, TypeOK
  <2> QED BY <1>4, <2>2 DEF Respawn, HInv, TypeOK, TrackedLoopIsLive
<1>5. CASE RespawnFails(c)
  <2>1. call' \in [Calls -> CallRecords]
    BY <1>5, FreshOnes DEF RespawnFails, HInv, TypeOK
  <2>2. repo' \in Records
    BY <1>0, <1>5, RecordsClosed DEF RespawnFails
  <2> QED BY <1>5, <2>1, <2>2 DEF RespawnFails, HInv, TypeOK, TrackedLoopIsLive
<1>6. CASE SaveRunning(c)
  <2> DEFINE x == [call[c] EXCEPT !.pc = "loop", !.copy = NoCopy]
  <2>1. x \in CallRecords
    BY <1>0, RecordsClosed DEF CallRecords, CallSteps
  <2>2. call' = [call EXCEPT ![c] = x]
    BY <1>6 DEF SaveRunning
  <2>3. call' \in [Calls -> CallRecords]
    BY <2>1, <2>2 DEF HInv, TypeOK
  <2>4. repo' \in Records
    BY <1>0, <1>6, RecordsClosed DEF SaveRunning
  <2> QED BY <1>6, <2>3, <2>4 DEF SaveRunning, HInv, TypeOK, TrackedLoopIsLive
<1>7. ASSUME NEW l \in Loops, RestartLoop(c, l) PROVE HInv'
  <2>1. PICK x \in Calls \cup {Root, Done} : loop' = [CancelTracked EXCEPT ![l] = LoopUnder(x)]
    BY <1>7 DEF RestartLoop
  <2>2. loop' \in [Loops -> LoopRecords] /\ loop'[l].pc = "read"
    BY <2>1, CancelKeeps, FreshOnes
  <2>3. call' = [call EXCEPT ![c] = [call[c] EXCEPT !.pc = "return"]]
    BY <1>7 DEF RestartLoop
  <2>4. call' \in [Calls -> CallRecords]
    BY <1>a, <2>3 DEF CallSteps, HInv, TypeOK
  <2> QED BY <1>7, <2>2, <2>4 DEF RestartLoop, HInv, TypeOK, TrackedLoopIsLive
<1>8. CASE Return(c)
  <2>1. \A x \in LoopRecords : /\ [x EXCEPT !.ctx = Done] \in LoopRecords
                               /\ [x EXCEPT !.ctx = Done].pc = x.pc
    BY DEF LoopRecords
  <2>2. /\ loop' \in [Loops -> LoopRecords]
        /\ \A l \in Loops : loop'[l].pc = loop[l].pc
    BY <1>8, <2>1 DEF Return, HInv, TypeOK
  <2>3. call' \in [Calls -> CallRecords]
    BY <1>8, FreshOnes DEF Return, HInv, TypeOK
  <2> QED BY <1>8, <2>2, <2>3 DEF Return, HInv, TypeOK, TrackedLoopIsLive
<1> QED BY <1>1, <1>2, <1>3, <1>4, <1>5, <1>6, <1>7, <1>8 DEF CallStep

\* Every step of HealthMonitor preserves the invariant.
LEMMA HealthNext == HInv /\ [Next]_vars => HInv'
<1> SUFFICES ASSUME HInv, [Next]_vars PROVE HInv'
  OBVIOUS
<1>1. CASE \E l \in Loops : LoopStep(l)
  BY <1>1, LoopPreserves
<1>2. CASE \E c \in Calls : CallStep(c)
  BY <1>2, CallPreserves
<1>3. ASSUME NEW l \in Loops, Reconcile(l) PROVE HInv'
  <2>1. loop' \in [Loops -> LoopRecords] /\ loop'[l].pc = "read"
    BY <1>3, FreshOnes DEF Reconcile, HInv, TypeOK
  <2> QED BY <1>3, <2>1 DEF Reconcile, HInv, TypeOK, TrackedLoopIsLive
<1>4. ASSUME NEW c \in Calls, CheckSchedules(c) PROVE HInv'
  <2>1. [call[c] EXCEPT !.pc = "backoff"] \in CallRecords
    BY DEF HInv, TypeOK, CallRecords, CallSteps
  <2>2. call' = [call EXCEPT ![c] = [call[c] EXCEPT !.pc = "backoff"]]
    BY <1>4 DEF CheckSchedules
  <2>3. call' \in [Calls -> CallRecords]
    BY <2>1, <2>2 DEF HInv, TypeOK
  <2> QED BY <1>4, <2>3, RecordsClosed DEF CheckSchedules, HInv, TypeOK, TrackedLoopIsLive
<1>5. ASSUME NEW c \in Calls, Reload(c) PROVE HInv'
  <2>1. [pc |-> "begin", copy |-> Restarting(repo), reload |-> TRUE] \in CallRecords
    BY RecordsClosed DEF HInv, TypeOK, CallRecords, CallSteps
  <2>2. call' \in [Calls -> CallRecords]
    BY <1>5, <2>1 DEF Reload, HInv, TypeOK
  <2> QED BY <1>5, <2>2 DEF Reload, HInv, TypeOK, TrackedLoopIsLive
<1>6. CASE Check
  BY <1>6 DEF Check, HInv, TypeOK, TrackedLoopIsLive
<1>7. CASE CheckMarks
  BY <1>7, RecordsClosed DEF CheckMarks, HInv, TypeOK, TrackedLoopIsLive
<1>8. CASE Shutdown
  BY <1>8 DEF Shutdown, HInv, TypeOK, TrackedLoopIsLive
<1>9. CASE StopAll
  BY <1>9, CancelKeeps DEF StopAll, HInv, TypeOK, TrackedLoopIsLive
<1>10. CASE Connect
  BY <1>10 DEF Connect, HInv, TypeOK, TrackedLoopIsLive
<1>11. CASE Falter
  BY <1>11 DEF Falter, HInv, TypeOK, TrackedLoopIsLive
<1>12. CASE Age
  <2>1. repo' \in Records /\ mon' \in [pc : {"idle", "mark", "save"}, copy : Records]
    BY <1>12, RecordsClosed DEF Age, HInv, TypeOK
  <2>2. \A x \in LoopRecords : /\ [x EXCEPT !.copy = Stale(x.copy)] \in LoopRecords
                               /\ [x EXCEPT !.copy = Stale(x.copy)].pc = x.pc
    BY RecordsClosed DEF LoopRecords
  <2>3. /\ loop' \in [Loops -> LoopRecords]
        /\ \A l \in Loops : loop'[l].pc = loop[l].pc
    BY <1>12, <2>2 DEF Age, HInv, TypeOK
  <2>4. \A x \in CallRecords : [x EXCEPT !.copy = Stale(x.copy)] \in CallRecords
    BY RecordsClosed DEF CallRecords
  <2>5. call' \in [Calls -> CallRecords]
    BY <1>12, <2>4 DEF Age, HInv, TypeOK
  <2> QED BY <1>12, <2>1, <2>3, <2>5 DEF Age, HInv, TypeOK, TrackedLoopIsLive
<1>13. CASE UNCHANGED vars
  BY <1>13 DEF vars, HInv, TypeOK, TrackedLoopIsLive
<1> QED
  BY <1>1, <1>2, <1>3, <1>4, <1>5, <1>6, <1>7, <1>8, <1>9, <1>10, <1>11, <1>12, <1>13 DEF Next

\* The invariant holds in every reachable state of the heartbeat receiver, the
\* monitor and the restarts.
THEOREM HealthInvariant == Spec => []HInv
  BY HealthInit, HealthNext, PTL DEF Spec

\* The state of the receiver, the monitor and the restarts has its types.
THEOREM HealthTypeCorrect == Spec => []TypeOK
<1>1. HInv => TypeOK
  BY DEF HInv
<1> QED BY <1>1, HealthInvariant, PTL

\* Whatever loops end, are cancelled or are replaced, the entry the receiver
\* keeps for the worker stands for a loop that has not ended, so that
\* reconcile is never held up by the entry of a loop that is gone.
THEOREM TrackedLoopLives == Spec => []TrackedLoopIsLive
<1>1. HInv => TrackedLoopIsLive
  BY DEF HInv
<1> QED BY <1>1, HealthInvariant, PTL

-----------------------------------------------------------------------------
(* The circuit breaker *)

\* A saturated counter stays in its range: once it is not below the top it is
\* the top.
LEMMA SaturateRange ==
  ASSUME NEW top \in Nat, NEW n \in 0..top
  PROVE  /\ Saturate(n, top) \in 0..top
         /\ Saturate(n, top) >= top => Saturate(n, top) = top
BY DEF Saturate

\* A closed breaker with nothing counted.
LEMMA BreakerStarts ==
  ASSUME BreakerInit
  PROVE  IInv
BY ConfigAssumption DEF BreakerInit, IInv, BreakerTypeOK, ClosedCountsTheStreak,
                        TrialsAreCounted, BreakerStates, Phases, Closed, Open, HalfOpen

\* Every method of the breaker and every step of a request preserves the
\* inductive invariant.
LEMMA BreakerPreserves ==
  ASSUME IInv, [BreakerNext]_breakerVars
  PROVE  IInv'
<1> USE ConfigAssumption DEF BreakerStates, Phases, Closed,
            Open, HalfOpen
<1>0. BreakerTypeOK /\ ClosedCountsTheStreak /\ TrialsAreCounted
  BY DEF IInv
<1>1. ASSUME NEW r \in Requests, AllowClosed(r) PROVE IInv'
  BY <1>0, <1>1 DEF AllowClosed, Admit, breaker, history, IInv, BreakerTypeOK,
                    ClosedCountsTheStreak, TrialsAreCounted
<1>2. ASSUME NEW r \in Requests, AllowCooled(r) PROVE IInv'
  BY <1>0, <1>2 DEF AllowCooled, Admit, IInv, BreakerTypeOK, ClosedCountsTheStreak,
                    TrialsAreCounted
<1>3. ASSUME NEW r \in Requests, AllowProbe(r) PROVE IInv'
  BY <1>0, <1>3 DEF AllowProbe, Admit, IInv, BreakerTypeOK, ClosedCountsTheStreak,
                    TrialsAreCounted
<1>4. ASSUME NEW r \in Requests, Refuse(r) \/ Retry(r) \/ Send(r) \/ Written(r) PROVE IInv'
  BY <1>0, <1>4 DEF Refuse, Retry, Send, Written, breaker, history, IInv, BreakerTypeOK,
                    ClosedCountsTheStreak, TrialsAreCounted
<1>5. ASSUME NEW r \in Requests, RecordSuccess(r) PROVE IInv'
  BY <1>0, <1>5 DEF RecordSuccess, Finish, IInv, BreakerTypeOK, ClosedCountsTheStreak,
                    TrialsAreCounted
<1>6. ASSUME NEW r \in Requests, RecordFailure(r) PROVE IInv'
  <2>1. /\ failures' \in 0..Failures /\ streak' \in 0..Failures
        /\ failures = streak => failures' = streak'
    BY <1>0, <1>6, SaturateRange DEF RecordFailure, BreakerTypeOK
  <2>2. BreakerTypeOK'
    BY <1>0, <1>6, <2>1 DEF RecordFailure, Finish, BreakerTypeOK
  <2>3. ClosedCountsTheStreak'
    BY <1>0, <1>6, <2>1 DEF RecordFailure, BreakerTypeOK, ClosedCountsTheStreak
  <2>4. TrialsAreCounted'
    BY <1>0, <1>6 DEF RecordFailure, TrialsAreCounted
  <2>5. QED
    BY <2>2, <2>3, <2>4 DEF IInv
<1>7. ASSUME NEW r \in Requests, ReturnEarly(r) PROVE IInv'
  BY <1>0, <1>7 DEF ReturnEarly, Finish, breaker, IInv, BreakerTypeOK, ClosedCountsTheStreak,
                    TrialsAreCounted
<1>8. CASE Tick
  BY <1>0, <1>8 DEF Tick, history, IInv, BreakerTypeOK, ClosedCountsTheStreak, TrialsAreCounted
<1>9. CASE UNCHANGED breakerVars
  BY <1>0, <1>9 DEF breakerVars, breaker, history, IInv, BreakerTypeOK,
                    ClosedCountsTheStreak, TrialsAreCounted
<1>10. QED
  BY <1>1, <1>2, <1>3, <1>4, <1>5, <1>6, <1>7, <1>8, <1>9 DEF BreakerNext, Allow, Complete

\* The inductive invariant holds in every reachable state.
THEOREM BreakerInvariant == BreakerSpec => []IInv
BY BreakerStarts, BreakerPreserves, PTL DEF BreakerSpec

\* The breaker's fields and the history keep their types.
THEOREM BreakerTypeCorrect == BreakerSpec => []BreakerTypeOK
<1>1. IInv => BreakerTypeOK
  BY DEF IInv
<1>2. QED
  BY <1>1, BreakerInvariant, PTL

\* In every interleaving of any number of requests the counter of a closed
\* breaker is the current streak of failures and below the threshold.
THEOREM CountingCorrect == BreakerSpec => []ClosedCountsTheStreak
<1>1. IInv => ClosedCountsTheStreak
  BY DEF IInv
<1>2. QED
  BY <1>1, BreakerInvariant, PTL

\* At most HalfOpenMax + 1 requests reach a worker on trial.
THEOREM TrialsBounded == BreakerSpec => []TrialsAreBounded
<1>1. IInv => TrialsAreBounded
  BY ConfigAssumption DEF IInv, BreakerTypeOK, TrialsAreCounted, TrialsAreBounded
<1>2. QED
  BY <1>1, BreakerInvariant, PTL

\* A closed breaker opens only on a streak of Failures failures.
THEOREM OpeningNeedsStreak == BreakerSpec => OpensOnlyOnAStreak
<1>1. IInv /\ [BreakerNext]_breakerVars
        => [state = Closed /\ state' = Open => streak' = Failures]_breakerVars
  <2> SUFFICES ASSUME IInv, BreakerNext, state = Closed, state' = Open
               PROVE  streak' = Failures
    OBVIOUS
  <2> USE ConfigAssumption DEF Closed, Open, HalfOpen
  <2>1. PICK r \in Requests : RecordFailure(r)
    BY DEF BreakerNext, Allow, AllowClosed, AllowCooled, AllowProbe, Refuse, Retry, Send,
           Written, Complete, RecordSuccess, ReturnEarly, Tick, breaker
  <2>2. failures = streak /\ failures' >= Failures
    BY <2>1 DEF RecordFailure, IInv, ClosedCountsTheStreak
  <2>3. QED
    BY <2>1, <2>2, SaturateRange DEF RecordFailure, IInv, BreakerTypeOK
<1>2. QED
  BY <1>1, BreakerInvariant, PTL DEF BreakerSpec, OpensOnlyOnAStreak

\* After a trip nothing but the passing of the cooldown ends the open state.
THEOREM TripHolds == BreakerSpec => TripHoldsForCooldown
<1>1. IInv /\ [BreakerNext]_breakerVars
        => [state = Open /\ openedFor < Cooldown => state' = Open]_breakerVars
  <2> SUFFICES ASSUME IInv, BreakerNext, state = Open, openedFor < Cooldown
               PROVE  state' = Open
    OBVIOUS
  <2> USE ConfigAssumption DEF Closed, Open, HalfOpen
  <2>1. openedFor \in Nat
    BY DEF IInv, BreakerTypeOK
  <2>2. QED
    BY <2>1 DEF BreakerNext, Allow, AllowClosed, AllowCooled, AllowProbe, Refuse, Retry,
                Send, Written, Complete, RecordSuccess, RecordFailure, ReturnEarly, Tick, breaker
<1>2. QED
  BY <1>1, BreakerInvariant, PTL DEF BreakerSpec, TripHoldsForCooldown
=============================================================================
