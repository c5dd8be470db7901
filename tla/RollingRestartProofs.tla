------------------------ MODULE RollingRestartProofs ------------------------
(***************************************************************************)
(* Proofs about RollingRestart, for any number of requests and calls.      *)
(*                                                                         *)
(* What the drainer promises holds until a StopWorker has forgotten the    *)
(* WaitGroup (Cleaned); what concerns the process holds of a call that no  *)
(* other overlaps (OneCall), which is shown to implement Handover.         *)
(***************************************************************************)
EXTENDS RollingRestart, FiniteSetTheorems, TLAPS

\* No two calls of the lifecycle service.
OneCall == \A o, q \in Ops : o = q

\* The calls that have spawned a process, and those that have cleaned up.
Respawned == {o \in Ops : op[o].pc \in {"running", "done"} /\ op[o].kind # "stop"}
Cleaned == {o \in Ops : op[o].pc = "done" /\ op[o].kind = "stop"}

ReqRecords == [pc : ReqSteps, to : Processes \cup {None}, via : Processes \cup {None}]
CallRecords == [pc : OpSteps, kind : CallKinds,
                on : Groups \cup {None}, target : Processes \cup {None}]

\* A call goes the way of its kind.
CallInv ==
  \A o \in Ops :
    /\ op[o].kind \in Kinds
    /\ op[o].pc \in {"deregister", "register", "spawn", "running"} => op[o].kind # "stop"
    /\ op[o].pc \in {"stopped", "cleanup"} => op[o].kind = "stop"

\* Processes and WaitGroups are numbered by the calls that make room for them.
NumberInv ==
  /\ spawned = 1 + Cardinality(Respawned)
  /\ inflight <= made
  /\ inflight # None => made <= 1 + Cardinality(Cleaned)
  /\ inflight = None => made <= Cardinality(Cleaned)
  /\ \A g \in Groups : g > made => group[g] = 0

BaseInv == TypeOK /\ CallInv /\ NumberInv

\* The numbers that are compared are numbers.
LEMMA Numbers ==
  /\ Bound = Cardinality(Ops) + 1 /\ Cardinality(Ops) \in Nat
  /\ IsFiniteSet(Respawned) /\ Cardinality(Respawned) \in 0..Cardinality(Ops)
  /\ IsFiniteSet(Cleaned) /\ Cardinality(Cleaned) \in 0..Cardinality(Ops)
<1>1. IsFiniteSet(Ops)
  BY RestartAssumption
<1>2. Respawned \in SUBSET Ops /\ Cleaned \in SUBSET Ops
  BY DEF Respawned, Cleaned
<1>3. IsFiniteSet(Respawned) /\ IsFiniteSet(Cleaned)
      /\ Cardinality(Respawned) <= Cardinality(Ops) /\ Cardinality(Cleaned) <= Cardinality(Ops)
  BY <1>1, <1>2, FS_Subset
<1>4. Cardinality(Ops) \in Nat /\ Cardinality(Respawned) \in Nat /\ Cardinality(Cleaned) \in Nat
  BY <1>1, <1>3, FS_CardinalityType
<1> QED BY <1>3, <1>4 DEF Bound

\* The worker that serves, and calls that have not begun.
LEMMA BaseInit == Init => BaseInv
<1> SUFFICES ASSUME Init PROVE BaseInv
  OBVIOUS
<1>1. Respawned = {} /\ Cleaned = {}
  BY DEF Init, Respawned, Cleaned
<1>2. Cardinality({}) = 0
  BY FS_EmptySet
<1>3. Bound \in Nat \ {0}
  BY Numbers
<1>4. TypeOK
  <2>1. op \in [Ops -> [pc : OpSteps, kind : CallKinds,
                        on : Groups \cup {None}, target : Processes \cup {None}]]
    BY RestartAssumption DEF Init, OpSteps
  <2>2. req \in [Requests -> [pc : ReqSteps, to : Processes \cup {None},
                              via : Processes \cup {None}]]
    BY DEF Init, Idle, ReqSteps, InFlight
  <2>3. 1 \in Processes /\ 1..spawned = {1} /\ None \notin Processes
    BY <1>3 DEF Init, Processes, None
  <2>4. /\ inflight \in Groups \cup {None} /\ made \in Groups \cup {0}
        /\ group \in [Groups -> Int] /\ answer \in [Requests -> {0, 200, 502, 503, 504}]
        /\ early \in [Ops -> SUBSET Requests]
    BY DEF Init
  <2> QED BY <2>1, <2>2, <2>3, <2>4 DEF Init, TypeOK
<1>5. CallInv
  BY DEF Init, CallInv
<1>6. NumberInv
  BY <1>1, <1>2, <1>3 DEF Init, NumberInv, None, Groups
<1> QED BY <1>4, <1>5, <1>6 DEF BaseInv

\* A request that moves on keeps its form.
LEMMA RequestMoves ==
  ASSUME TypeOK, NEW r \in Requests, NEW l \in ReqSteps, NEW p \in Processes \cup {None},
         \/ req' = [req EXCEPT ![r].pc = l]
         \/ req' = [req EXCEPT ![r].pc = l, ![r].to = p]
         \/ req' = [req EXCEPT ![r].pc = l, ![r].via = p]
         \/ req' = [req EXCEPT ![r] = Over]
  PROVE  req' \in [Requests -> ReqRecords]
<1>1. req \in [Requests -> ReqRecords]
  BY DEF TypeOK, ReqRecords
<1>2. /\ [req[r] EXCEPT !.pc = l] \in ReqRecords
      /\ [req[r] EXCEPT !.pc = l, !.to = p] \in ReqRecords
      /\ [req[r] EXCEPT !.pc = l, !.via = p] \in ReqRecords
  BY <1>1 DEF ReqRecords
<1>3. CASE req' = [req EXCEPT ![r].pc = l]
  BY <1>1, <1>2, <1>3
<1>4. CASE req' = [req EXCEPT ![r].pc = l, ![r].to = p]
  <2>1. req' = [req EXCEPT ![r] = [req[r] EXCEPT !.pc = l, !.to = p]]
    BY <1>1, <1>4
  <2> QED BY <1>1, <1>2, <2>1
<1>5. CASE req' = [req EXCEPT ![r].pc = l, ![r].via = p]
  <2>1. req' = [req EXCEPT ![r] = [req[r] EXCEPT !.pc = l, !.via = p]]
    BY <1>1, <1>5
  <2> QED BY <1>1, <1>2, <2>1
<1>6. CASE req' = [req EXCEPT ![r] = Over]
  <2>1. Over \in ReqRecords
    BY DEF Over, ReqRecords, ReqSteps, InFlight
  <2> QED BY <1>1, <1>6, <2>1
<1> QED BY <1>3, <1>4, <1>5, <1>6

\* A step of something else leaves the calls as they are.
LEMMA CallsStay ==
  ASSUME CallInv, op' = op
  PROVE  CallInv' /\ Respawned' = Respawned /\ Cleaned' = Cleaned
BY DEF CallInv, Respawned, Cleaned

\* Every step of a dispatch keeps types and numbers.
LEMMA BaseRequest ==
  ASSUME BaseInv, NEW r \in Requests, CheckDrainStatus(r) \/ Proceed(r) \/ Written(r) \/ Reply(r)
  PROVE  BaseInv'
<1> USE DEF BaseInv
<1>0. op' = op
  BY DEF CheckDrainStatus, Proceed, Reply, Acquire, Send, LockWrite, Written, WriteError,
           Receive, Deliver, ReceiveError, ReceiveTimeout, Release
<1>1. CallInv' /\ Respawned' = Respawned /\ Cleaned' = Cleaned
  BY <1>0, CallsStay
<1>2. {"idle", "checked", "acquired", "locking", "writing", "sent", "waiting", "replied"}
        \subseteq ReqSteps
  BY DEF ReqSteps, InFlight
<1>3. conn \in Processes \cup {None} /\ None \in Processes \cup {None}
  BY DEF TypeOK
<1>4. CASE Acquire(r)
  <2>1. req' \in [Requests -> ReqRecords]
    BY <1>2, <1>3, <1>4, RequestMoves DEF Acquire, ReqGoes, ReqEnds
  <2>2. made \in Nat /\ made' \in Groups /\ inflight' \in Groups /\ group' \in [Groups -> Int]
        /\ inflight' # None
    <3>1. made \in Nat /\ made' \in Groups /\ inflight' \in Groups /\ inflight' # None
      BY <1>4, Numbers DEF Acquire, TypeOK, NumberInv, Groups, None
    <3>2. group' = [group EXCEPT ![inflight'] = @ + 1] /\ group \in [Groups -> Int]
      BY <1>4 DEF Acquire, TypeOK
    <3> QED BY <3>1, <3>2
  <2>3. UNCHANGED <<draining, asleep, wstate, processes, transport, op, answer, history>>
    BY <1>4 DEF Acquire
  <2>4. TypeOK'
    BY <2>1, <2>2, <2>3 DEF TypeOK, ReqRecords, processes, transport, history
  <2>5. \A g \in Groups : g > made' => group'[g] = 0
    <3> TAKE g \in Groups
    <3> HAVE g > made'
    <3>1. made' >= made /\ inflight' <= made'
      BY <1>4, <2>2 DEF Acquire, NumberInv, TypeOK, Groups, None
    <3>2. group'[g] = group[g]
      BY <1>4, <2>2, <3>1 DEF Acquire, TypeOK, Groups
    <3> QED BY <2>2, <3>1, <3>2 DEF NumberInv, Groups
  <2>6. made' <= 1 + Cardinality(Cleaned) /\ inflight' <= made'
    BY <1>4, <2>2, Numbers DEF Acquire, TypeOK, NumberInv, Groups, None
  <2>7. NumberInv'
    BY <1>1, <2>2, <2>3, <2>5, <2>6 DEF NumberInv, processes
  <2> QED BY <1>1, <2>4, <2>7
<1>5. CASE Release(r)
  <2>1. Idle \in ReqRecords /\ req \in [Requests -> ReqRecords]
    BY DEF Idle, ReqRecords, ReqSteps, InFlight, TypeOK
  <2>2. req' \in [Requests -> ReqRecords]
    BY <1>5, <2>1 DEF Release
  <2>3. group' \in [Groups -> Int] /\ early' \in [Ops -> SUBSET Requests]
        /\ answer' \in [Requests -> {0, 200, 502, 503, 504}]
    BY <1>5 DEF Release, Answer, TypeOK
  <2>8. asleep' \subseteq Ops
    BY <1>5 DEF Release, Wake, TypeOK
  <2>4. UNCHANGED <<draining, inflight, made, wstate, processes, transport, op, expired>>
    BY <1>5 DEF Release
  <2>5. TypeOK'
    BY <2>2, <2>3, <2>4, <2>8 DEF TypeOK, ReqRecords, processes, transport
  <2>6. \A g \in Groups : g > made => group'[g] = 0
    <3> TAKE g \in Groups
    <3> HAVE g > made
    <3>1. g # inflight
      BY DEF NumberInv, TypeOK, Groups, None
    <3>2. group'[g] = group[g]
      BY <1>5, <3>1 DEF Release, TypeOK
    <3> QED BY <3>2 DEF NumberInv
  <2>7. NumberInv'
    BY <1>1, <2>4, <2>6 DEF NumberInv, processes
  <2> QED BY <1>1, <2>5, <2>7
<1>6. CASE CheckDrainStatus(r) \/ Send(r) \/ LockWrite(r) \/ Written(r) \/ WriteError(r)
           \/ Receive(r) \/ Deliver(r) \/ ReceiveError(r) \/ ReceiveTimeout(r) \/ Reply(r)
  <2>1. UNCHANGED <<drainer, wstate, processes, transport, op, history>>
    BY <1>6 DEF CheckDrainStatus, Reply, Send, LockWrite, Written, WriteError, Receive,
             Deliver, ReceiveError, ReceiveTimeout
  <2>2. PICK l \in ReqSteps, p \in Processes \cup {None} :
          \/ req' = [req EXCEPT ![r].pc = l]
          \/ req' = [req EXCEPT ![r].pc = l, ![r].to = p]
          \/ req' = [req EXCEPT ![r].pc = l, ![r].via = p]
          \/ req' = [req EXCEPT ![r] = Over]
    BY <1>2, <1>3, <1>6 DEF CheckDrainStatus, Reply, Send, LockWrite, Written, WriteError,
             Receive, Deliver, ReceiveError, ReceiveTimeout, ReqGoes, ReqEnds
  <2>3. req' \in [Requests -> ReqRecords]
    BY <2>2, RequestMoves
  <2>4. answer' \in [Requests -> {0, 200, 502, 503, 504}]
    BY <1>6 DEF TypeOK, CheckDrainStatus, Reply, Send, LockWrite, Written, WriteError,
             Receive, Deliver, ReceiveError, ReceiveTimeout, Answer
  <2>5. TypeOK'
    BY <2>1, <2>3, <2>4 DEF TypeOK, ReqRecords, drainer, processes, transport, history
  <2>6. NumberInv'
    BY <1>1, <2>1 DEF NumberInv, drainer, processes
  <2> QED BY <1>1, <2>5, <2>6
<1> QED BY <1>4, <1>5, <1>6 DEF Proceed

\* What a step makes of a call: another place, and perhaps what it waits for.
LEMMA CallGoes ==
  ASSUME TypeOK, NEW o \in Ops, NEW l \in OpSteps,
         \/ op' = [op EXCEPT ![o].pc = l]
         \/ \E g \in Groups \cup {None} : op' = [op EXCEPT ![o].pc = l, ![o].on = g]
         \/ \E p \in Processes \cup {None} : op' = [op EXCEPT ![o].pc = l, ![o].target = p]
  PROVE  /\ op' \in [Ops -> CallRecords]
         /\ op'[o].pc = l /\ op'[o].kind = op[o].kind
         /\ \A q \in Ops \ {o} : op'[q] = op[q]
<1>1. op \in [Ops -> CallRecords]
  BY DEF TypeOK, CallRecords
<1>2. CASE op' = [op EXCEPT ![o].pc = l]
  BY <1>1, <1>2 DEF CallRecords
<1>3. ASSUME NEW g \in Groups \cup {None}, op' = [op EXCEPT ![o].pc = l, ![o].on = g]
      PROVE  /\ op' \in [Ops -> CallRecords]
             /\ op'[o].pc = l /\ op'[o].kind = op[o].kind
             /\ \A q \in Ops \ {o} : op'[q] = op[q]
  <2>1. op' = [op EXCEPT ![o] = [op[o] EXCEPT !.pc = l, !.on = g]]
    BY <1>1, <1>3
  <2>2. [op[o] EXCEPT !.pc = l, !.on = g] \in CallRecords
    BY <1>1 DEF CallRecords
  <2> QED BY <1>1, <2>1, <2>2 DEF CallRecords
<1>4. ASSUME NEW p \in Processes \cup {None}, op' = [op EXCEPT ![o].pc = l, ![o].target = p]
      PROVE  /\ op' \in [Ops -> CallRecords]
             /\ op'[o].pc = l /\ op'[o].kind = op[o].kind
             /\ \A q \in Ops \ {o} : op'[q] = op[q]
  <2>1. op' = [op EXCEPT ![o] = [op[o] EXCEPT !.pc = l, !.target = p]]
    BY <1>1, <1>4
  <2>2. [op[o] EXCEPT !.pc = l, !.target = p] \in CallRecords
    BY <1>1 DEF CallRecords
  <2> QED BY <1>1, <2>1, <2>2 DEF CallRecords
<1> QED BY <1>2, <1>3, <1>4

\* A step of a call that neither spawns nor cleans up leaves the numbers alone.
LEMMA CallMoves ==
  ASSUME CallInv, NEW o \in Ops, op'[o].kind = op[o].kind,
         \A q \in Ops \ {o} : op'[q] = op[q],
         op[o].pc # "done",
         op'[o].pc = "done" <=> op[o].pc = "running", op'[o].pc # "running",
         op'[o].pc \in {"deregister", "register", "spawn"} => op[o].kind # "stop",
         op'[o].pc \in {"stopped", "cleanup"} => op[o].kind = "stop"
  PROVE  CallInv' /\ Respawned' = Respawned /\ Cleaned' = Cleaned
<1>1. op[o].pc = "running" => op[o].kind # "stop"
  BY DEF CallInv
<1>2. CallInv'
  BY DEF CallInv
<1>3. Respawned' = Respawned
  BY <1>1 DEF Respawned
<1>4. Cleaned' = Cleaned
  BY <1>1 DEF Cleaned
<1> QED BY <1>2, <1>3, <1>4

\* Where the step of a call other than Spawn and Cleanup leads.
LEMMA CallSteps ==
  ASSUME BaseInv, NEW o \in Ops, Lifecycle(o), ~Spawn(o), ~Cleanup(o)
  PROVE  /\ op' \in [Ops -> CallRecords] /\ op'[o].kind = op[o].kind
         /\ \A q \in Ops \ {o} : op'[q] = op[q]
         /\ CallInv' /\ Respawned' = Respawned /\ Cleaned' = Cleaned
<1> USE DEF BaseInv
<1>1. inflight \in Groups \cup {None} /\ table \in Processes \cup {None}
  BY DEF TypeOK
<1>2. op[o].pc \in {"stop", "exit"} \/ op[o].pc \notin {"stop", "exit"}
  OBVIOUS
<1>3. PICK l \in OpSteps :
        /\ \/ op' = [op EXCEPT ![o].pc = l]
           \/ \E g \in Groups \cup {None} : op' = [op EXCEPT ![o].pc = l, ![o].on = g]
           \/ \E p \in Processes \cup {None} : op' = [op EXCEPT ![o].pc = l, ![o].target = p]
        /\ op[o].pc # "done" /\ l # "running"
        /\ l = "done" <=> op[o].pc = "running"
        /\ l \in {"deregister", "register", "spawn"} => op[o].kind # "stop"
        /\ l \in {"stopped", "cleanup"} => op[o].kind = "stop"
  <2> USE DEF OpGoes, OpSteps
  <2>1. CASE Begin(o)
    BY <2>1 DEF Begin
  <2>2. CASE MarkDraining(o)
    BY <2>2 DEF MarkDraining
  <2>3. CASE Drain(o)
    BY <1>1, <2>3 DEF Drain
  <2>4. CASE WaitBegins(o) \/ WaitReturns(o) \/ DrainTimeout(o)
    BY <2>4 DEF WaitBegins, WaitReturns, DrainTimeout, Waiting
  <2>5. CASE StopSignal(o)
    BY <1>1, <2>5 DEF StopSignal
  <2>6. CASE StopWaited(o)
    BY <2>6 DEF StopWaited
  <2>7. CASE StopTimeout(o)
    BY <2>7 DEF StopTimeout
  <2>8. CASE Deregister(o)
    BY <2>8 DEF Deregister, CallInv
  <2>9. CASE Register(o)
    BY <2>9 DEF Register, CallInv
  <2>10. CASE RestartFails(o)
    BY <2>10 DEF RestartFails
  <2>11. CASE SaveRunning(o)
    BY <2>11 DEF SaveRunning
  <2>12. CASE SaveStopped(o)
    BY <2>12 DEF SaveStopped, CallInv
  <2> QED BY <2>1, <2>2, <2>3, <2>4, <2>5, <2>6, <2>7, <2>8, <2>9, <2>10, <2>11, <2>12
          DEF Lifecycle
<1>4. /\ op' \in [Ops -> CallRecords]
      /\ op'[o].pc = l /\ op'[o].kind = op[o].kind
      /\ \A q \in Ops \ {o} : op'[q] = op[q]
  BY <1>3, CallGoes
<1>5. CallInv' /\ Respawned' = Respawned /\ Cleaned' = Cleaned
  BY <1>3, <1>4, CallMoves
<1> QED BY <1>4, <1>5

\* Every step of a call keeps types and numbers.
LEMMA BaseCall ==
  ASSUME BaseInv, NEW o \in Ops, Lifecycle(o)
  PROVE  BaseInv'
<1> USE DEF BaseInv
<1>1. CASE Spawn(o)
  <2>1. op[o].pc = "spawn" /\ op' = [op EXCEPT ![o].pc = "running"] /\ "running" \in OpSteps
    BY <1>1 DEF Spawn, OpGoes, OpSteps
  <2>2. /\ op' \in [Ops -> CallRecords]
        /\ op'[o].pc = "running" /\ op'[o].kind = op[o].kind
        /\ \A q \in Ops \ {o} : op'[q] = op[q]
    BY <2>1, CallGoes
  <2>3. op[o].kind # "stop"
    BY <2>1 DEF CallInv
  <2>4. CallInv'
    BY <2>2, <2>3 DEF CallInv
  <2>5. Cleaned' = Cleaned
    BY <2>1, <2>2 DEF Cleaned
  <2>6. Respawned' = Respawned \cup {o} /\ o \notin Respawned
    BY <2>1, <2>2, <2>3 DEF Respawned
  <2>7. Cardinality(Respawned') = Cardinality(Respawned) + 1
    BY <2>6, Numbers, FS_AddElement
  <2>8. IsFiniteSet(Ops) /\ Respawned' \in SUBSET Ops
    BY RestartAssumption DEF Respawned
  <2>9. Cardinality(Respawned') <= Cardinality(Ops)
    BY <2>8, FS_Subset
  <2>10. spawned' = spawned + 1 /\ spawned' \in Processes /\ spawned \in Processes
    BY <1>1, <2>7, <2>9, Numbers DEF Spawn, NumberInv, Processes, TypeOK
  <2>11. alive' \subseteq 1..spawned' /\ table' \in Processes \cup {None}
         /\ signalled' \subseteq 1..spawned'
    BY <1>1, <2>10 DEF Spawn, TypeOK, Processes
  <2>12. UNCHANGED <<drainer, wstate, signalled, transport, req, answer, history>>
    BY <1>1 DEF Spawn
  <2>13. TypeOK'
    BY <2>2, <2>10, <2>11, <2>12 DEF TypeOK, CallRecords, drainer, transport, history
  <2>14. NumberInv'
    BY <2>5, <2>7, <2>10, <2>12, Numbers DEF NumberInv, drainer
  <2> QED BY <2>4, <2>13, <2>14
<1>2. CASE Cleanup(o)
  <2>1. op[o].pc = "cleanup" /\ op' = [op EXCEPT ![o].pc = "done"] /\ "done" \in OpSteps
    BY <1>2 DEF Cleanup, OpGoes, OpSteps
  <2>2. /\ op' \in [Ops -> CallRecords]
        /\ op'[o].pc = "done" /\ op'[o].kind = op[o].kind
        /\ \A q \in Ops \ {o} : op'[q] = op[q]
    BY <2>1, CallGoes
  <2>3. op[o].kind = "stop"
    BY <2>1 DEF CallInv
  <2>4. CallInv'
    BY <2>2, <2>3 DEF CallInv
  <2>5. Respawned' = Respawned
    BY <2>1, <2>2, <2>3 DEF Respawned
  <2>6. Cleaned' = Cleaned \cup {o} /\ o \notin Cleaned
    BY <2>1, <2>2, <2>3 DEF Cleaned
  <2>7. Cardinality(Cleaned') = Cardinality(Cleaned) + 1
    BY <2>6, Numbers, FS_AddElement
  <2>8. /\ inflight' = None /\ draining' = FALSE
        /\ UNCHANGED <<made, group, asleep, wstate, processes, transport, req, answer, history>>
    BY <1>2 DEF Cleanup
  <2>9. TypeOK'
    BY <2>2, <2>8 DEF TypeOK, CallRecords, processes, transport, history
  <2>10. made \in Nat /\ inflight \in Nat
    BY Numbers DEF TypeOK, Groups, None
  <2>11. NumberInv'
    BY <2>5, <2>7, <2>8, <2>10, Numbers DEF NumberInv, processes, None
  <2> QED BY <2>4, <2>9, <2>11
<1>3. CASE ~Spawn(o) /\ ~Cleanup(o)
  <2>1. op' \in [Ops -> CallRecords] /\ CallInv' /\ Respawned' = Respawned /\ Cleaned' = Cleaned
    BY <1>3, CallSteps
  <2>2. UNCHANGED <<inflight, made, group, spawned, dialled, req, answer>>
    BY <1>3 DEF Lifecycle, Begin, MarkDraining, Drain, WaitBegins, WaitReturns, DrainTimeout,
             StopSignal, StopWaited, StopTimeout, Deregister, Register, RestartFails,
             SaveRunning, SaveStopped, drainer, processes, transport
  <2>3. NumberInv'
    BY <2>1, <2>2 DEF NumberInv
  <2>4. draining' \in BOOLEAN /\ wstate' \in {"running", "restarting", "stopped"}
    BY <1>3 DEF Lifecycle, Begin, MarkDraining, Drain, WaitBegins, WaitReturns, DrainTimeout,
             StopSignal, StopWaited, StopTimeout, Deregister, Register, RestartFails,
             SaveRunning, SaveStopped, drainer, TypeOK
  <2>5. /\ table' \in Processes \cup {None} /\ alive' \subseteq 1..spawned
        /\ signalled' \subseteq 1..spawned
    BY <1>3 DEF Lifecycle, Begin, MarkDraining, Drain, WaitBegins, WaitReturns, DrainTimeout,
             StopSignal, StopWaited, StopTimeout, Deregister, Register, RestartFails,
             SaveRunning, SaveStopped, processes, TypeOK
  <2>6. listening' \in Ops \cup {None} /\ conn' \in Processes \cup {None} /\ asleep' \subseteq Ops
    BY <1>3 DEF Lifecycle, Begin, MarkDraining, Drain, WaitBegins, WaitReturns, DrainTimeout,
             StopSignal, StopWaited, StopTimeout, Deregister, Register, RestartFails,
             SaveRunning, SaveStopped, drainer, transport, TypeOK
  <2>7. early' \in [Ops -> SUBSET Requests] /\ expired' \subseteq Ops
    <3>1. Holders \in SUBSET Requests
      BY DEF Holders
    <3> QED BY <1>3, <3>1
       DEF Lifecycle, Begin, MarkDraining, Drain, WaitBegins, WaitReturns, DrainTimeout,
                StopSignal, StopWaited, StopTimeout, Deregister, Register, RestartFails,
                SaveRunning, SaveStopped, history, TypeOK
  <2>8. TypeOK'
    BY <2>1, <2>2, <2>4, <2>5, <2>6, <2>7 DEF TypeOK, CallRecords
  <2> QED BY <2>1, <2>3, <2>8
<1> QED BY <1>1, <1>2, <1>3

\* So does a step of the environment: a context ends, a process exits or dials.
LEMMA BaseWorker ==
  ASSUME BaseInv,
         \/ \E o \in Ops : ContextEnds(o)
         \/ \E p \in Processes : Exit(p) \/ Connect(p)
         \/ UNCHANGED vars
  PROVE  BaseInv'
<1> USE DEF BaseInv
<1>1. UNCHANGED <<drainer, wstate, table, spawned, signalled, op, req, answer, history>>
  BY DEF ContextEnds, Exit, Connect, vars, processes
<1>2. /\ alive' \subseteq 1..spawned /\ listening' \in Ops \cup {None}
      /\ dialled' \subseteq Processes /\ conn' \in Processes \cup {None}
  <2>1. /\ alive \subseteq 1..spawned /\ listening \in Ops \cup {None}
        /\ dialled \subseteq Processes /\ conn \in Processes \cup {None}
    BY DEF TypeOK
  <2>2. ASSUME NEW o \in Ops, ContextEnds(o)
        PROVE  listening' = None /\ UNCHANGED <<alive, dialled, conn>>
    BY <2>2 DEF ContextEnds, processes
  <2>3. ASSUME NEW p \in Processes, Exit(p)
        PROVE  alive' \subseteq alive /\ UNCHANGED <<listening, dialled, conn>>
    BY <2>3 DEF Exit, transport
  <2>4. ASSUME NEW p \in Processes, Connect(p)
        PROVE  listening' = None /\ dialled' = dialled \cup {p} /\ conn' = p /\ alive' = alive
    BY <2>4 DEF Connect, processes
  <2>5. CASE UNCHANGED vars
    BY <2>1, <2>5 DEF vars, processes, transport
  <2> QED BY <2>1, <2>2, <2>3, <2>4, <2>5
<1>3. CallInv' /\ Respawned' = Respawned /\ Cleaned' = Cleaned
  BY <1>1, CallsStay
<1>4. TypeOK'
  BY <1>1, <1>2 DEF TypeOK, drainer, history
<1>5. NumberInv'
  BY <1>1, <1>3 DEF NumberInv, drainer
<1> QED BY <1>3, <1>4, <1>5

LEMMA BaseStep == BaseInv /\ [Next]_vars => BaseInv'
BY BaseRequest, BaseCall, BaseWorker DEF Next

\* Types hold whatever calls overlap: in particular a call makes at most one
\* process, so that no more than Bound of them exist, and at most one WaitGroup
\* is made for every StopWorker that forgets one.
THEOREM RestartTypeCorrect == Spec => []TypeOK
<1>1. Spec => []BaseInv
  BY BaseInit, BaseStep, PTL DEF Spec
<1>2. BaseInv => TypeOK
  BY DEF BaseInv
<1> QED BY <1>1, <1>2, PTL

-----------------------------------------------------------------------------
(* What the drainer promises *)

\* The requests in flight after a step of one of them.
LEMMA HoldersMove ==
  ASSUME TypeOK, NEW r \in Requests, CheckDrainStatus(r) \/ Proceed(r) \/ Written(r) \/ Reply(r)
  PROVE  /\ Acquire(r) => Holders' = Holders \cup {r} /\ r \notin Holders
         /\ Release(r) => Holders' = Holders \ {r} /\ r \in Holders
         /\ ~Acquire(r) /\ ~Release(r) =>
              Holders' = Holders /\ UNCHANGED <<drainer, processes, transport, op, history>>
<1>1. req \in [Requests -> ReqRecords]
  BY DEF TypeOK, ReqRecords
<1>2. Holders = {q \in Requests : req[q].pc \in InFlight}
  BY DEF Holders
<1>3. Holders' = {q \in Requests : req'[q].pc \in InFlight}
  BY DEF Holders
<1>4. CASE Acquire(r)
  <2>1. /\ req[r].pc = "checked" /\ req'[r].pc = "acquired"
        /\ \A q \in Requests \ {r} : req'[q] = req[q]
    BY <1>1, <1>4 DEF Acquire, ReqGoes, ReqEnds, ReqRecords
  <2>2. ~Release(r)
    BY <2>1 DEF Release
  <2> QED BY <1>2, <1>3, <1>4, <2>1, <2>2 DEF InFlight
<1>5. CASE Release(r)
  <2>1. req[r].pc = "release" /\ req'[r] = Idle /\ \A q \in Requests \ {r} : req'[q] = req[q]
    BY <1>1, <1>5 DEF Release
  <2>2. Idle.pc = "idle"
    BY DEF Idle
  <2>3. ~Acquire(r)
    BY <2>1 DEF Acquire, ReqGoes, ReqEnds
  <2> QED BY <1>2, <1>3, <1>5, <2>1, <2>2, <2>3 DEF InFlight
<1>6. CASE ~Acquire(r) /\ ~Release(r)
  <2>1. \A q \in Requests \ {r} : req'[q] = req[q]
    BY <1>1, <1>6 DEF CheckDrainStatus, Proceed, Reply, Send, LockWrite, Written, WriteError,
             Receive, Deliver, ReceiveError, ReceiveTimeout, ReqGoes, ReqEnds
  <2>2. req[r].pc \in InFlight <=> req'[r].pc \in InFlight
    <3> USE DEF ReqGoes, ReqEnds, ReqRecords, InFlight
    <3>1. CASE CheckDrainStatus(r) \/ LockWrite(r) \/ Written(r) \/ Reply(r)
      BY <1>1, <3>1 DEF CheckDrainStatus, LockWrite, Written, Reply
    <3>2. CASE WriteError(r) \/ Deliver(r) \/ ReceiveError(r) \/ ReceiveTimeout(r)
      BY <1>1, <3>2 DEF WriteError, Deliver, ReceiveError, ReceiveTimeout, Over
    <3>3. CASE Send(r) \/ Receive(r)
      BY <1>1, <3>3 DEF Send, Receive, Over
    <3> QED BY <1>6, <3>1, <3>2, <3>3 DEF Proceed
  <2>3. UNCHANGED <<drainer, processes, transport, op, history>>
    BY <1>6 DEF CheckDrainStatus, Proceed, Reply, Send, LockWrite, Written, WriteError,
             Receive, Deliver, ReceiveError, ReceiveTimeout
  <2> QED BY <1>2, <1>3, <1>6, <2>1, <2>2, <2>3
<1> QED BY <1>4, <1>5, <1>6

\* The requests in flight can be counted.
LEMMA HoldersCounted ==
  /\ IsFiniteSet(Holders) /\ Cardinality(Holders) \in Nat
  /\ Cardinality(Holders) = 0 <=> Holders = {}
<1>1. IsFiniteSet(Holders)
  BY RestartAssumption, FS_Subset DEF Holders
<1> QED BY <1>1, FS_CardinalityType, FS_EmptySet

\* A step of a call, or of the worker, leaves the WaitGroup alone unless it
\* cleans up; what has been cleaned up stays so.
LEMMA GroupStays ==
  ASSUME BaseInv,
         \/ \E o \in Ops : Lifecycle(o)
         \/ \E o \in Ops : ContextEnds(o)
         \/ \E p \in Processes : Exit(p) \/ Connect(p)
         \/ UNCHANGED vars
  PROVE  /\ Cleaned \subseteq Cleaned' /\ Holders' = Holders /\ UNCHANGED <<made, group, req>>
         /\ Cleaned' = {} => inflight' = inflight
<1>1. CASE \E o \in Ops : Lifecycle(o)
  <2>1. PICK o \in Ops : Lifecycle(o)
    BY <1>1
  <2>2. UNCHANGED <<made, group, req>> /\ (~Cleanup(o) => inflight' = inflight)
    BY <2>1 DEF Lifecycle, Begin, MarkDraining, Drain, WaitBegins, WaitReturns, DrainTimeout,
             StopSignal, StopWaited, StopTimeout, Deregister, Register, RestartFails, Spawn,
             SaveRunning, SaveStopped, Cleanup, drainer
  <2>3. Holders' = Holders
    BY <2>2 DEF Holders
  <2>4. Cleaned \subseteq Cleaned' /\ (Cleanup(o) => Cleaned' # {})
    <3>1. CASE Spawn(o) \/ Cleanup(o)
      <4>1. PICK l \in OpSteps : op' = [op EXCEPT ![o].pc = l] /\ op[o].pc # "done"
                                 /\ (Cleanup(o) => l = "done" /\ op[o].pc = "cleanup")
        BY <3>1 DEF Spawn, Cleanup, OpGoes, OpSteps
      <4>2. op'[o].kind = op[o].kind /\ op'[o].pc = l /\ \A q \in Ops \ {o} : op'[q] = op[q]
        BY <4>1, CallGoes DEF BaseInv
      <4> QED BY <4>1, <4>2 DEF Cleaned, BaseInv, CallInv
    <3>2. CASE ~Spawn(o) /\ ~Cleanup(o)
      BY <2>1, <3>2, CallSteps
    <3> QED BY <3>1, <3>2
  <2> QED BY <2>2, <2>3, <2>4
<1>2. CASE \/ \E o \in Ops : ContextEnds(o)
           \/ \E p \in Processes : Exit(p) \/ Connect(p)
           \/ UNCHANGED vars
  <2>1. UNCHANGED <<drainer, op, req>>
    BY <1>2 DEF ContextEnds, Exit, Connect, vars
  <2> QED BY <2>1 DEF drainer, Holders, Cleaned
<1> QED BY <1>1, <1>2

CountInv == Cleaned = {} => CountIsInFlight

LEMMA CountStep == BaseInv /\ CountInv /\ [Next]_vars => CountInv'
<1> SUFFICES ASSUME BaseInv, CountInv, [Next]_vars, Cleaned' = {} PROVE CountIsInFlight'
  BY DEF CountInv
<1>1. ASSUME NEW r \in Requests, CheckDrainStatus(r) \/ Proceed(r) \/ Written(r) \/ Reply(r)
      PROVE  CountIsInFlight'
  <2>1. TypeOK /\ op' = op
    BY <1>1 DEF BaseInv, CheckDrainStatus, Proceed, Reply, Acquire, Send, LockWrite, Written,
             WriteError, Receive, Deliver, ReceiveError, ReceiveTimeout, Release
  <2>2. Cleaned = {} /\ CountIsInFlight
    BY <2>1 DEF Cleaned, CountInv
  <2>3. group \in [Groups -> Int] /\ inflight \in Groups \cup {None} /\ made \in Nat
        /\ None \notin Groups
    BY <2>1, Numbers DEF TypeOK, Groups, None
  <2>4. CASE Acquire(r)
    <3>1. Holders' = Holders \cup {r} /\ r \notin Holders
      BY <1>1, <2>1, <2>4, HoldersMove
    <3>2. Cardinality(Holders') = Cardinality(Holders) + 1
      BY <3>1, HoldersCounted, FS_AddElement
    <3>3. CASE inflight = None
      <4>1. made = 0 /\ inflight' = 1
        BY <2>2, <2>3, <2>4, <3>3, FS_EmptySet DEF BaseInv, NumberInv, Acquire
      <4>2. 1 \in Groups
        BY Numbers DEF Groups
      <4>3. group[1] = 0
        BY <4>1, <4>2 DEF BaseInv, NumberInv
      <4>4. group'[1] = 1
        BY <2>3, <2>4, <4>1, <4>2, <4>3 DEF Acquire
      <4>5. Cardinality(Holders) = 0
        BY <2>2, <3>3, HoldersCounted DEF CountIsInFlight
      <4> QED BY <3>2, <4>1, <4>4, <4>5 DEF CountIsInFlight, None
    <3>4. CASE inflight # None
      <4>1. inflight' = inflight /\ inflight \in Groups
        BY <2>3, <2>4, <3>4 DEF Acquire
      <4>2. group'[inflight] = group[inflight] + 1
        BY <2>3, <2>4, <4>1 DEF Acquire
      <4> QED BY <2>2, <3>2, <3>4, <4>1, <4>2 DEF CountIsInFlight
    <3> QED BY <3>3, <3>4
  <2>5. CASE Release(r)
    <3>1. Holders' = Holders \ {r} /\ r \in Holders
      BY <1>1, <2>1, <2>5, HoldersMove
    <3>2. Cardinality(Holders') = Cardinality(Holders) - 1
      BY <3>1, HoldersCounted, FS_RemoveElement
    <3>3. inflight # None /\ inflight' = inflight /\ inflight \in Groups
      BY <2>2, <2>3, <2>5, <3>1 DEF CountIsInFlight, Release
    <3>4. group'[inflight] = group[inflight] - 1
      BY <2>3, <2>5, <3>3 DEF Release
    <3> QED BY <2>2, <3>2, <3>3, <3>4 DEF CountIsInFlight
  <2>6. CASE ~Acquire(r) /\ ~Release(r)
    <3>1. Holders' = Holders /\ UNCHANGED drainer
      BY <1>1, <2>1, <2>6, HoldersMove
    <3> QED BY <2>2, <3>1 DEF CountIsInFlight, drainer
  <2> QED BY <2>4, <2>5, <2>6
<1>2. CASE \/ \E o \in Ops : Lifecycle(o)
           \/ \E o \in Ops : ContextEnds(o)
           \/ \E p \in Processes : Exit(p) \/ Connect(p)
           \/ UNCHANGED vars
  <2>1. Cleaned \subseteq Cleaned' /\ Holders' = Holders /\ group' = group /\ inflight' = inflight
    BY <1>2, GroupStays
  <2>2. CountIsInFlight
    BY <2>1 DEF CountInv
  <2> QED BY <2>1, <2>2 DEF CountIsInFlight
<1> QED BY <1>1, <1>2 DEF Next

LEMMA CountInit == Init => CountInv
<1> SUFFICES ASSUME Init PROVE CountIsInFlight
  BY DEF CountInv
<1>1. \A r \in Requests : req[r].pc = "idle"
  BY DEF Init, Idle
<1>2. Holders = {}
  BY <1>1 DEF Holders, InFlight
<1> QED BY <1>2 DEF Init, CountIsInFlight

\* Until a StopWorker cleans up, however calls overlap, the WaitGroup counts
\* the requests in flight: Done never panics and no drain ends early.
THEOREM CountIsExact == Spec => [](Cleaned = {} => CountIsInFlight)
<1>1. Spec => [](BaseInv /\ CountInv)
  BY BaseInit, CountInit, BaseStep, CountStep, PTL DEF Spec
<1>2. BaseInv /\ CountInv => (Cleaned = {} => CountIsInFlight)
  BY DEF CountInv
<1> QED BY <1>1, <1>2, PTL

\* Where no call is a StopWorker the count is exact for ever.
THEOREM RestartsKeepCount ==
  ASSUME "stop" \notin Kinds
  PROVE  Spec => []CountIsInFlight
<1>1. Spec => [](BaseInv /\ CountInv)
  BY BaseInit, CountInit, BaseStep, CountStep, PTL DEF Spec
<1>2. BaseInv /\ CountInv => CountIsInFlight
  BY DEF CountInv, BaseInv, CallInv, Cleaned
<1> QED BY <1>1, <1>2, PTL

\* What a call found in flight is in flight, a waiting call waits for the
\* WaitGroup in use, and has nothing early left once it goes on.
DrainInv ==
  /\ \A o \in Ops : early[o] \subseteq Holders
  /\ Cleaned = {} =>
       \A o \in Ops : op[o].pc \in Waiting => op[o].on = inflight /\ inflight # None
  /\ Cleaned = {} \/ OneCall => DrainWaitsForEarlyRequests

LEMMA DrainRequest ==
  ASSUME BaseInv, DrainInv, CountInv, NEW r \in Requests,
         CheckDrainStatus(r) \/ Proceed(r) \/ Written(r) \/ Reply(r)
  PROVE  DrainInv'
<1>1. TypeOK
  BY DEF BaseInv
<1>2. op' = op /\ expired' = expired
  BY DEF CheckDrainStatus, Proceed, Reply, Acquire, Send, LockWrite, Written, WriteError,
           Receive, Deliver, ReceiveError, ReceiveTimeout, Release, history
<1>3. Cleaned' = Cleaned
  BY <1>2 DEF Cleaned
<1>4. \A o \in Ops : early'[o] \subseteq Holders' /\ early'[o] \subseteq early[o]
  <2>1. CASE Acquire(r)
    BY <1>1, <2>1, HoldersMove DEF Acquire, history, DrainInv
  <2>2. CASE Release(r)
    <3>1. \A o \in Ops : early'[o] = early[o] \ {r}
      BY <2>2 DEF Release
    <3> QED BY <1>1, <2>2, <3>1, HoldersMove DEF DrainInv
  <2>3. CASE ~Acquire(r) /\ ~Release(r)
    BY <1>1, <2>3, HoldersMove DEF history, DrainInv
  <2> QED BY <2>1, <2>2, <2>3
<1>5. inflight # None => inflight' = inflight
  <2>1. CASE Acquire(r)
    BY <2>1 DEF Acquire
  <2>2. CASE Release(r)
    BY <2>2 DEF Release
  <2>3. CASE ~Acquire(r) /\ ~Release(r)
    BY <1>1, <2>3, HoldersMove DEF drainer
  <2> QED BY <2>1, <2>2, <2>3
<1>6. Cleaned = {} =>
        \A o \in Ops : op'[o].pc \in Waiting => op'[o].on = inflight' /\ inflight' # None
  BY <1>2, <1>5 DEF DrainInv
<1>7. DrainWaitsForEarlyRequests => DrainWaitsForEarlyRequests'
  BY <1>2, <1>4 DEF DrainWaitsForEarlyRequests
<1> QED BY <1>3, <1>4, <1>6, <1>7 DEF DrainInv

LEMMA DrainCall ==
  ASSUME BaseInv, DrainInv, CountInv, NEW o \in Ops, Lifecycle(o)
  PROVE  DrainInv'
<1>1. TypeOK
  BY DEF BaseInv
<1>2. /\ Cleaned \subseteq Cleaned' /\ Holders' = Holders /\ group' = group
      /\ Cleaned' = {} => inflight' = inflight
  BY GroupStays
<1>3. /\ op'[o].kind = op[o].kind /\ \A q \in Ops \ {o} : op'[q] = op[q]
      /\ op[o].pc # "done"
  <2>1. CASE Spawn(o) \/ Cleanup(o)
    <3>1. PICK l \in OpSteps : op' = [op EXCEPT ![o].pc = l] /\ op[o].pc # "done"
      BY <2>1 DEF Spawn, Cleanup, OpGoes, OpSteps
    <3> QED BY <1>1, <3>1, CallGoes
  <2>2. CASE ~Spawn(o) /\ ~Cleanup(o)
    <3>1. op[o].pc # "done"
      BY <2>2 DEF Lifecycle, Begin, MarkDraining, Drain, WaitBegins, WaitReturns,
               DrainTimeout, StopSignal, StopWaited, StopTimeout, Deregister, Register,
               RestartFails, SaveRunning, SaveStopped, OpGoes, Waiting
    <3> QED BY <2>2, <3>1, CallSteps
  <2> QED BY <2>1, <2>2
<1>4. op \in [Ops -> CallRecords] /\ early \in [Ops -> SUBSET Requests]
  BY <1>1 DEF TypeOK, CallRecords
<1>5. \A q \in Ops : early'[q] \subseteq Holders' /\ (q # o => early'[q] = early[q])
  <2>1. CASE MarkDraining(o)
    BY <1>2, <1>4, <2>1 DEF MarkDraining, DrainInv
  <2>2. CASE ~MarkDraining(o)
    <3>1. early' = early
      BY <2>2 DEF Lifecycle, Begin, Drain, WaitBegins, WaitReturns, DrainTimeout, StopSignal,
                  StopWaited, StopTimeout, Deregister, Register, RestartFails, Spawn,
                  SaveRunning, SaveStopped, Cleanup, history
    <3> QED BY <1>2, <3>1 DEF DrainInv
  <2> QED BY <2>1, <2>2
<1>6. expired \subseteq expired'
  BY DEF Lifecycle, Begin, MarkDraining, Drain, WaitBegins, WaitReturns, DrainTimeout,
           StopSignal, StopWaited, StopTimeout, Deregister, Register, RestartFails, Spawn,
           SaveRunning, SaveStopped, Cleanup, history
<1>7. op'[o].pc \in Waiting =>
        \/ op'[o].on = inflight /\ inflight # None
        \/ op[o].pc \in Waiting /\ op'[o].on = op[o].on
  <2> USE DEF Waiting, CallRecords, OpGoes
  <2>1. CASE Drain(o)
    BY <1>4, <2>1 DEF Drain
  <2>2. CASE WaitBegins(o)
    BY <1>4, <2>2 DEF WaitBegins
  <2>3. CASE WaitReturns(o)
    BY <1>4, <2>3 DEF WaitReturns
  <2>4. CASE ~Drain(o) /\ ~WaitBegins(o) /\ ~WaitReturns(o)
    <3>1. op'[o].pc \notin Waiting
      BY <1>4, <2>4 DEF Lifecycle, Begin, MarkDraining, DrainTimeout, StopSignal,
             StopWaited, StopTimeout, Deregister, Register, RestartFails, Spawn, SaveRunning,
             SaveStopped, Cleanup
    <3> QED BY <3>1
  <2> QED BY <2>1, <2>2, <2>3, <2>4
<1>8. Cleaned' = {} =>
        \A q \in Ops : op'[q].pc \in Waiting => op'[q].on = inflight' /\ inflight' # None
  BY <1>2, <1>3, <1>7 DEF DrainInv
<1>9. ASSUME Cleaned = {} \/ OneCall, op'[o].pc \in Drained, o \notin expired'
      PROVE  early'[o] = {}
  <2>1. Cleaned = {}
    BY <1>3, <1>9 DEF Cleaned, OneCall
  <2>2. CASE op[o].pc \in Drained
    <3>1. early' = early
      BY <2>2 DEF Lifecycle, Begin, MarkDraining, Drain, WaitBegins, WaitReturns,
               DrainTimeout, StopSignal, StopWaited, StopTimeout, Deregister, Register,
               RestartFails, Spawn, SaveRunning, SaveStopped, Cleanup, history, OpGoes,
               Drained
    <3> QED BY <1>6, <1>9, <2>2, <3>1 DEF DrainInv, DrainWaitsForEarlyRequests
  <2>3. CASE op[o].pc \notin Drained
    <3>1. \/ Drain(o) /\ inflight = None
          \/ op[o].pc \in Waiting /\ group[op[o].on] = 0
      BY <1>4, <1>9, <2>3 DEF Lifecycle, Begin, MarkDraining, Drain, WaitBegins, WaitReturns,
             DrainTimeout, StopSignal, StopWaited, StopTimeout, Deregister, Register,
             RestartFails, Spawn,
             SaveRunning, SaveStopped, Cleanup, OpGoes, Drained, Waiting, OpSteps, CallRecords
    <3>2. Holders = {}
      <4>1. CASE inflight = None
        BY <2>1, <4>1 DEF CountInv, CountIsInFlight
      <4>2. CASE inflight # None
        <5>1. group[inflight] = 0
          BY <2>1, <3>1, <4>2 DEF Drain, DrainInv
        <5> QED BY <2>1, <4>2, <5>1, HoldersCounted DEF CountInv, CountIsInFlight
      <4> QED BY <4>1, <4>2
    <3> QED BY <1>2, <1>5, <3>2
  <2> QED BY <2>2, <2>3
<1>10. ASSUME Cleaned' = {} \/ OneCall
       PROVE  DrainWaitsForEarlyRequests'
  <2>1. Cleaned = {} \/ OneCall
    BY <1>2, <1>10
  <2>2. DrainWaitsForEarlyRequests
    BY <2>1 DEF DrainInv
  <2>3. \A q \in Ops \ {o} : op'[q].pc \in Drained /\ q \notin expired' => early'[q] = {}
    BY <1>3, <1>5, <1>6, <2>2 DEF DrainWaitsForEarlyRequests
  <2> QED BY <1>9, <2>1, <2>3 DEF DrainWaitsForEarlyRequests
<1> QED BY <1>5, <1>8, <1>10 DEF DrainInv

LEMMA DrainStep == BaseInv /\ CountInv /\ DrainInv /\ [Next]_vars => DrainInv'
<1> SUFFICES ASSUME BaseInv, CountInv, DrainInv, [Next]_vars PROVE DrainInv'
  OBVIOUS
<1>1. CASE \/ \E o \in Ops : ContextEnds(o)
           \/ \E p \in Processes : Exit(p) \/ Connect(p)
           \/ UNCHANGED vars
  <2>1. UNCHANGED <<drainer, op, req, history>>
    BY <1>1 DEF ContextEnds, Exit, Connect, vars
  <2>2. Cleaned' = Cleaned /\ Holders' = Holders /\ early' = early /\ inflight' = inflight
        /\ expired' = expired
    BY <2>1 DEF Cleaned, Holders, drainer, history
  <2> QED BY <2>1, <2>2 DEF DrainInv, DrainWaitsForEarlyRequests
<1> QED BY <1>1, DrainRequest, DrainCall DEF Next

LEMMA DrainInit == Init => DrainInv
<1> SUFFICES ASSUME Init PROVE DrainInv
  OBVIOUS
<1>1. \A o \in Ops : op[o].pc = "new" /\ early[o] = {}
  BY DEF Init
<1> QED BY <1>1 DEF DrainInv, DrainWaitsForEarlyRequests, Drained, Waiting, OpSteps

\* A call that is alone, or one of any number of restarts and reloads that
\* overlap, goes on to the process only when nothing it found in flight still
\* is, or its drain has timed out.
THEOREM DrainsWait ==
  ASSUME "stop" \notin Kinds \/ OneCall
  PROVE  Spec => []DrainWaitsForEarlyRequests
<1>1. Spec => [](BaseInv /\ CountInv /\ DrainInv)
  BY BaseInit, CountInit, DrainInit, BaseStep, CountStep, DrainStep, PTL DEF Spec
<1>2. BaseInv /\ CountInv /\ DrainInv => DrainWaitsForEarlyRequests
  BY DEF DrainInv, BaseInv, CallInv, Cleaned
<1> QED BY <1>1, <1>2, PTL

-----------------------------------------------------------------------------
(* What a call that is alone does to the process *)

\* The one process is the one in the table, except while a call waits for it
\* to exit; there is none from then until the call spawns the next.
TrackInv ==
  /\ \A o \in Ops : op[o].pc = "exit" => alive \subseteq {op[o].target}
  /\ \A o \in Ops : op[o].pc \in {"deregister", "register", "spawn", "stopped", "cleanup"}
                    => alive = {}
  /\ (\A o \in Ops : op[o].pc # "exit") => alive \subseteq {table}

\* A process leaves only by exiting when no call runs.
LEMMA TrackStays ==
  ASSUME TrackInv, op' = op, alive' \subseteq alive, table' = table
  PROVE  TrackInv'
BY DEF TrackInv

LEMMA TrackCall ==
  ASSUME BaseInv, TrackInv, OneCall, NEW o \in Ops, Lifecycle(o)
  PROVE  TrackInv'
<1>1. op \in [Ops -> CallRecords] /\ Ops = {o}
  BY DEF BaseInv, TypeOK, CallRecords, OneCall
<1>2. SUFFICES /\ op'[o].pc = "exit" => alive' \subseteq {op'[o].target}
               /\ op'[o].pc \in {"deregister", "register", "spawn", "stopped", "cleanup"}
                  => alive' = {}
               /\ op'[o].pc # "exit" => alive' \subseteq {table'}
  BY <1>1 DEF TrackInv
<1>3. /\ op[o].pc = "exit" => alive \subseteq {op[o].target}
      /\ op[o].pc \in {"deregister", "register", "spawn", "stopped", "cleanup"} => alive = {}
      /\ op[o].pc # "exit" => alive \subseteq {table}
  BY <1>1 DEF TrackInv
<1>4. CASE StopSignal(o)
  <2>1. table' = table /\ alive' = alive /\ op[o].pc = "stop"
    BY <1>4 DEF StopSignal
  <2>2. \/ table \in alive /\ op'[o].pc = "exit" /\ op'[o].target = table
        \/ table \notin alive /\ op'[o].pc = "failed"
    BY <1>1, <1>4 DEF StopSignal, CallRecords
  <2> QED BY <1>3, <2>1, <2>2
<1>5. CASE StopWaited(o)
  <2>1. op[o].pc = "exit" /\ op[o].target \notin alive /\ alive' = alive
        /\ op'[o].pc \in {"stopped", "deregister"}
    BY <1>1, <1>5 DEF StopWaited, CallRecords
  <2> QED BY <1>3, <2>1
<1>6. CASE StopTimeout(o)
  <2>1. op[o].pc = "exit" /\ alive' = alive \ {op[o].target} /\ op'[o].pc = "failed"
    BY <1>1, <1>6 DEF StopTimeout, OpGoes, CallRecords
  <2> QED BY <1>3, <2>1
<1>7. CASE Spawn(o)
  <2>1. op[o].pc = "spawn" /\ alive' = alive \cup {table'} /\ op'[o].pc = "running"
    BY <1>1, <1>7 DEF Spawn, OpGoes, CallRecords
  <2> QED BY <1>3, <2>1
<1>8. CASE ~StopSignal(o) /\ ~StopWaited(o) /\ ~StopTimeout(o) /\ ~Spawn(o)
  <2>1. UNCHANGED <<alive, table>> /\ op[o].pc # "exit" /\ op'[o].pc # "exit"
        /\ (op'[o].pc \in {"deregister", "register", "spawn", "stopped", "cleanup"}
              => op[o].pc \in {"deregister", "register", "spawn", "stopped", "cleanup"})
    BY <1>1, <1>8 DEF Lifecycle, Begin, MarkDraining, Drain, WaitBegins, WaitReturns,
             DrainTimeout, Deregister, Register, RestartFails, SaveRunning, SaveStopped,
             Cleanup, OpGoes, Waiting, CallRecords, processes
  <2> QED BY <1>3, <2>1
<1> QED BY <1>4, <1>5, <1>6, <1>7, <1>8

LEMMA TrackStep == OneCall /\ BaseInv /\ TrackInv /\ [Next]_vars => TrackInv'
<1> SUFFICES ASSUME OneCall, BaseInv, TrackInv, [Next]_vars PROVE TrackInv'
  OBVIOUS
<1>1. ASSUME NEW r \in Requests, CheckDrainStatus(r) \/ Proceed(r) \/ Written(r) \/ Reply(r)
      PROVE  TrackInv'
  <2>1. op' = op /\ alive' = alive /\ table' = table
    BY <1>1 DEF CheckDrainStatus, Proceed, Reply, Acquire, Send, LockWrite, Written,
             WriteError, Receive, Deliver, ReceiveError, ReceiveTimeout, Release, processes
  <2> QED BY <2>1, TrackStays
<1>2. CASE \/ \E o \in Ops : ContextEnds(o)
           \/ \E p \in Processes : Exit(p) \/ Connect(p)
           \/ UNCHANGED vars
  <2>1. op' = op /\ alive' \subseteq alive /\ table' = table
    BY <1>2 DEF ContextEnds, Exit, Connect, vars, processes
  <2> QED BY <2>1, TrackStays
<1> QED BY <1>1, <1>2, TrackCall DEF Next

\* A call that no other overlaps never loses sight of a process: whatever
\* times out or fails, what runs is in the table or is being waited for.
THEOREM LoneCallTracks ==
  ASSUME OneCall
  PROVE  Spec => []EveryProcessIsTracked
<1>1. Init => TrackInv
  BY DEF Init, TrackInv
<1>2. Spec => [](BaseInv /\ TrackInv)
  BY <1>1, BaseInit, BaseStep, TrackStep, PTL DEF Spec
<1>3. BaseInv /\ TrackInv => EveryProcessIsTracked
  BY DEF TrackInv, EveryProcessIsTracked
<1> QED BY <1>2, <1>3, PTL

\* The steps of a call before it signals the process.
Before == {"new", "mark", "drain", "stop"} \cup Waiting

\* The mark is there from MarkDraining until Cleanup, which comes when there is
\* no process; a drain times out only while it waits, and nothing is signalled
\* before StopSignal.
GateInv ==
  /\ (\A o \in Ops : op[o].pc \in Before) => signalled = {}
  /\ ~MayTimeOut => expired = {}
  /\ \A o \in Ops :
       /\ op[o].pc \in {"new", "mark"} => ~draining
       /\ op[o].pc \notin {"new", "mark", "done"} => draining
       /\ op[o].pc = "done" => draining \/ alive = {}
       /\ op[o].pc \in {"new", "mark", "drain"} \cup Waiting => o \notin expired
       /\ op[o].pc = "exit" => op[o].target \in signalled

LEMMA GateInit == Init => GateInv
<1> SUFFICES ASSUME Init PROVE GateInv
  OBVIOUS
<1>1. \A o \in Ops : op[o].pc = "new"
  BY DEF Init
<1> QED BY <1>1 DEF Init, GateInv

\* Processes only exit when no call takes a step.
LEMMA GateStays ==
  ASSUME GateInv, UNCHANGED <<draining, op, signalled, expired>>, alive' \subseteq alive
  PROVE  GateInv'
BY DEF GateInv

LEMMA GateCall ==
  ASSUME BaseInv, TrackInv, GateInv, OneCall, NEW o \in Ops, Lifecycle(o)
  PROVE  GateInv'
<1>1. op \in [Ops -> CallRecords] /\ Ops = {o} /\ draining \in BOOLEAN
  BY DEF BaseInv, TypeOK, CallRecords, OneCall
<1>2. SUFFICES /\ op'[o].pc \in Before => signalled' = {}
               /\ ~MayTimeOut => expired' = {}
               /\ op'[o].pc \in {"new", "mark"} => ~draining'
               /\ op'[o].pc \notin {"new", "mark", "done"} => draining'
               /\ op'[o].pc = "done" => draining' \/ alive' = {}
               /\ op'[o].pc \in {"new", "mark", "drain"} \cup Waiting => o \notin expired'
               /\ op'[o].pc = "exit" => op'[o].target \in signalled'
  BY <1>1 DEF GateInv
<1>3. /\ op[o].pc \in Before => signalled = {}
      /\ ~MayTimeOut => expired = {}
      /\ op[o].pc \in {"new", "mark"} => ~draining
      /\ op[o].pc \notin {"new", "mark", "done"} => draining
      /\ op[o].pc = "done" => draining \/ alive = {}
      /\ op[o].pc \in {"new", "mark", "drain"} \cup Waiting => o \notin expired
      /\ op[o].pc = "exit" => op[o].target \in signalled
  BY <1>1 DEF GateInv
<1> USE DEF Before, Waiting
<1>4. CASE MarkDraining(o)
  <2>1. /\ op[o].pc = "mark" /\ op'[o].pc = "drain" /\ draining' = TRUE
        /\ signalled' = signalled /\ expired' = expired
    BY <1>1, <1>4 DEF MarkDraining, OpGoes, CallRecords, processes
  <2> QED BY <1>3, <2>1
<1>5. CASE DrainTimeout(o)
  <2>1. /\ op[o].pc \in Waiting /\ op'[o].pc = "stop" /\ draining' = draining
        /\ signalled' = signalled /\ MayTimeOut
    BY <1>1, <1>5 DEF DrainTimeout, OpGoes, CallRecords, processes, drainer
  <2> QED BY <1>3, <2>1
<1>6. CASE StopSignal(o)
  <2>1. /\ op[o].pc = "stop" /\ draining' = draining /\ expired' = expired
        /\ \/ op'[o].pc = "exit" /\ op'[o].target = table /\ signalled' = signalled \cup {table}
           \/ op'[o].pc = "failed"
    BY <1>1, <1>6 DEF StopSignal, CallRecords, history, drainer
  <2> QED BY <1>3, <2>1
<1>7. CASE Cleanup(o)
  <2>1. /\ op[o].pc = "cleanup" /\ op'[o].pc = "done" /\ alive' = alive /\ expired' = expired
    BY <1>1, <1>7 DEF Cleanup, OpGoes, CallRecords, history, processes
  <2>2. alive = {}
    BY <2>1 DEF TrackInv
  <2> QED BY <1>3, <2>1, <2>2
<1>8. CASE Begin(o)
  <2>1. /\ op[o].pc = "new" /\ op'[o].pc = "mark" /\ draining' = draining /\ expired' = expired
        /\ signalled' = signalled
    BY <1>1, <1>8 DEF Begin, OpGoes, CallRecords, history, processes, drainer
  <2> QED BY <1>3, <2>1
<1>9. CASE Drain(o) \/ WaitBegins(o) \/ WaitReturns(o)
  <2>1. /\ op[o].pc \in {"drain"} \cup Waiting /\ op'[o].pc \in {"stop"} \cup Waiting
        /\ draining' = draining /\ expired' = expired /\ signalled' = signalled
    BY <1>1, <1>9 DEF Drain, WaitBegins, WaitReturns, OpGoes, CallRecords, history, processes,
             drainer
  <2> QED BY <1>3, <2>1
<1>10. CASE \/ StopWaited(o) \/ StopTimeout(o) \/ Deregister(o) \/ Register(o)
            \/ RestartFails(o) \/ Spawn(o) \/ SaveRunning(o) \/ SaveStopped(o)
  <2>1. /\ op[o].pc \in {"exit", "deregister", "register", "spawn", "running", "stopped"}
        /\ op'[o].pc \in {"stopped", "deregister", "failed", "register", "spawn", "running",
                          "done", "cleanup"}
        /\ draining' = draining /\ expired' = expired
    BY <1>1, <1>10 DEF StopWaited, StopTimeout, Deregister, Register, RestartFails, Spawn,
           SaveRunning, SaveStopped, OpGoes, CallRecords, history, drainer
  <2> QED BY <1>3, <2>1
<1> QED BY <1>4, <1>5, <1>6, <1>7, <1>8, <1>9, <1>10 DEF Lifecycle

LEMMA GateStep == OneCall /\ BaseInv /\ TrackInv /\ GateInv /\ [Next]_vars => GateInv'
<1> SUFFICES ASSUME OneCall, BaseInv, TrackInv, GateInv, [Next]_vars PROVE GateInv'
  OBVIOUS
<1>1. ASSUME NEW r \in Requests, CheckDrainStatus(r) \/ Proceed(r) \/ Written(r) \/ Reply(r)
      PROVE  GateInv'
  <2>1. UNCHANGED <<draining, op, signalled, expired, alive>>
    BY <1>1 DEF CheckDrainStatus, Proceed, Reply, Acquire, Send, LockWrite, Written,
             WriteError, Receive, Deliver, ReceiveError, ReceiveTimeout, Release, processes,
             drainer, history
  <2> QED BY <2>1, GateStays
<1>2. CASE \/ \E o \in Ops : ContextEnds(o)
           \/ \E p \in Processes : Exit(p) \/ Connect(p)
           \/ UNCHANGED vars
  <2>1. UNCHANGED <<draining, op, signalled, expired>> /\ alive' \subseteq alive
    BY <1>2 DEF ContextEnds, Exit, Connect, vars, processes, drainer, history
  <2> QED BY <2>1, GateStays
<1> QED BY <1>1, <1>2, GateCall DEF Next

\* Until the call signals it, the first process serves its connection.
ServeInv ==
  (\A o \in Ops : op[o].pc \in Before) =>
    /\ conn = 1 /\ alive = {1} /\ 1 \in dialled
    /\ \A r \in Requests :
         /\ req[r].pc \in {"locking", "writing"} => req[r].to = 1
         /\ req[r].pc = "waiting" => req[r].via = 1

LEMMA ServeStep ==
  OneCall /\ ~MayFail /\ BaseInv /\ GateInv /\ ServeInv /\ [Next]_vars => ServeInv'
<1> SUFFICES ASSUME OneCall, ~MayFail, BaseInv, GateInv, ServeInv, [Next]_vars PROVE ServeInv'
  OBVIOUS
<1>1. ASSUME NEW r \in Requests, CheckDrainStatus(r) \/ Proceed(r) \/ Written(r) \/ Reply(r)
      PROVE  ServeInv'
  <2>1. UNCHANGED <<op, processes, transport>>
    BY <1>1 DEF CheckDrainStatus, Proceed, Reply, Acquire, Send, LockWrite, Written,
             WriteError, Receive, Deliver, ReceiveError, ReceiveTimeout, Release
  <2>2. req \in [Requests -> ReqRecords]
    BY DEF BaseInv, TypeOK, ReqRecords
  <2>3. \A q \in Requests :
          /\ req'[q].pc \in {"locking", "writing"} =>
               \/ req[q].pc \in {"locking", "writing"} /\ req'[q].to = req[q].to
               \/ req'[q].to = conn
          /\ req'[q].pc = "waiting" => \/ req[q].pc = "waiting" /\ req'[q].via = req[q].via
                                       \/ req'[q].via = conn
    <3> USE DEF ReqRecords, ReqGoes, ReqEnds
    <3>1. CASE Receive(r)
      BY <2>2, <3>1 DEF Receive, Over
    <3>2. CASE Release(r)
      BY <2>2, <3>2 DEF Release, Idle
    <3>3. CASE Send(r)
      BY <2>2, <3>3 DEF Send, Over
    <3>4. CASE LockWrite(r)
      BY <2>2, <3>4 DEF LockWrite
    <3>5. CASE CheckDrainStatus(r) \/ Reply(r) \/ Acquire(r) \/ Written(r)
      BY <2>2, <3>5 DEF CheckDrainStatus, Reply, Acquire, Written
    <3>6. CASE WriteError(r) \/ Deliver(r) \/ ReceiveError(r) \/ ReceiveTimeout(r)
      BY <2>2, <3>6 DEF WriteError, Deliver, ReceiveError, ReceiveTimeout, Over
    <3> QED BY <1>1, <3>1, <3>2, <3>3, <3>4, <3>5, <3>6 DEF Proceed
  <2> QED BY <2>1, <2>3 DEF ServeInv, processes, transport
<1>2. ASSUME NEW o \in Ops, Lifecycle(o)
      PROVE  ServeInv'
  <2>1. op \in [Ops -> CallRecords] /\ Ops = {o}
    BY DEF BaseInv, TypeOK, CallRecords, OneCall
  <2>2. req' = req
    BY <1>2 DEF Lifecycle, Begin, MarkDraining, Drain, WaitBegins, WaitReturns, DrainTimeout,
             StopSignal, StopWaited, StopTimeout, Deregister, Register, RestartFails, Spawn,
             SaveRunning, SaveStopped, Cleanup
  <2>3. op'[o].pc \in Before =>
          /\ op[o].pc \in Before
          /\ UNCHANGED <<processes, transport>>
    BY <1>2, <2>1 DEF Lifecycle, Begin, MarkDraining, Drain, WaitBegins, WaitReturns,
             DrainTimeout, StopSignal, StopWaited, StopTimeout, Deregister, Register,
             RestartFails, Spawn, SaveRunning, SaveStopped, Cleanup, OpGoes, CallRecords,
             Before, Waiting
  <2> QED BY <2>1, <2>2, <2>3 DEF ServeInv, processes, transport
<1>3. ASSUME NEW p \in Processes, Exit(p)
      PROVE  ServeInv'
  <2>1. op' = op
    BY <1>3 DEF Exit
  <2>2. ~ \A o \in Ops : op[o].pc \in Before
    BY <1>3 DEF Exit, CutOff, ServeInv, GateInv
  <2> QED BY <2>1, <2>2 DEF ServeInv
<1>4. ASSUME NEW p \in Processes, Connect(p)
      PROVE  ServeInv'
  <2>1. op' = op
    BY <1>4 DEF Connect
  <2>2. ~ \A o \in Ops : op[o].pc \in Before
    BY <1>4 DEF Connect, ServeInv
  <2> QED BY <2>1, <2>2 DEF ServeInv
<1>5. CASE (\E o \in Ops : ContextEnds(o)) \/ UNCHANGED vars
  <2>1. UNCHANGED <<op, req, conn, alive, dialled>>
    BY <1>5 DEF ContextEnds, vars, processes, transport
  <2> QED BY <2>1 DEF ServeInv
<1> QED BY <1>1, <1>2, <1>3, <1>4, <1>5 DEF Next

LEMMA ServeInit == Init => ServeInv
<1> SUFFICES ASSUME Init PROVE ServeInv
  OBVIOUS
<1>1. \A r \in Requests : req[r].pc = "idle"
  BY DEF Init, Idle
<1> QED BY <1>1 DEF Init, ServeInv

\* Is every process sure of its connection until it is signalled?
Reliable == ~MayFail /\ "reload" \notin Kinds

\* What runs has its connection or a socket to dial, which the call has made
\* before it spawns.
LinkInv ==
  /\ dialled \subseteq 1..spawned
  /\ Reliable =>
       /\ \A p \in alive \ signalled : ~CutOff(p)
       /\ \A o \in Ops : op[o].pc = "spawn" => listening # None

LEMMA LinkInit == Init => LinkInv
<1> SUFFICES ASSUME Init PROVE LinkInv
  OBVIOUS
<1>1. \A o \in Ops : op[o].pc = "new"
  BY DEF Init
<1> QED BY <1>1 DEF Init, LinkInv, CutOff

LEMMA LinkCall ==
  ASSUME BaseInv, TrackInv, LinkInv, OneCall, NEW o \in Ops, Lifecycle(o)
  PROVE  LinkInv'
<1>1. op \in [Ops -> CallRecords] /\ Ops = {o} /\ spawned \in Nat
  BY Numbers DEF BaseInv, TypeOK, CallRecords, OneCall, Processes
<1>2. dialled' = dialled
  BY DEF Lifecycle, Begin, MarkDraining, Drain, WaitBegins, WaitReturns, DrainTimeout,
           StopSignal, StopWaited, StopTimeout, Deregister, Register, RestartFails, Spawn,
           SaveRunning, SaveStopped, Cleanup, transport
<1>3. CASE Spawn(o)
  <2>1. /\ op[o].pc = "spawn" /\ op'[o].pc = "running" /\ spawned' = spawned + 1
        /\ alive' = alive \cup {spawned + 1} /\ listening' = listening /\ conn' = conn
    BY <1>1, <1>3 DEF Spawn, OpGoes, CallRecords, transport
  <2>2. alive = {}
    BY <2>1 DEF TrackInv
  <2>3. dialled' \subseteq 1..spawned' /\ spawned + 1 \notin dialled
    BY <1>1, <1>2, <2>1 DEF LinkInv
  <2>4. ASSUME Reliable, NEW p \in alive' PROVE ~CutOff(p)'
    <3>1. p = spawned + 1 /\ listening # None
      BY <2>1, <2>2, <2>4 DEF LinkInv
    <3> QED BY <1>2, <2>1, <2>3, <3>1 DEF CutOff
  <2> QED BY <1>1, <2>1, <2>2, <2>3, <2>4 DEF LinkInv
<1>4. CASE Deregister(o)
  <2>1. op[o].pc = "deregister" /\ op'[o].pc = "register" /\ UNCHANGED <<alive, spawned>>
    BY <1>1, <1>4 DEF Deregister, OpGoes, CallRecords, processes
  <2>2. alive = {}
    BY <2>1 DEF TrackInv
  <2> QED BY <1>1, <1>2, <2>1, <2>2 DEF LinkInv
<1>5. CASE Register(o)
  <2>1. op[o].pc = "register" /\ listening' = o /\ UNCHANGED <<alive, spawned>>
    BY <1>1, <1>5 DEF Register, OpGoes, CallRecords, processes
  <2>2. alive = {} /\ o # None
    BY <2>1, RestartAssumption DEF TrackInv, None
  <2> QED BY <1>1, <1>2, <2>1, <2>2 DEF LinkInv
<1>6. CASE ~Spawn(o) /\ ~Deregister(o) /\ ~Register(o)
  <2>1. /\ op'[o].pc # "spawn" /\ alive' \subseteq alive /\ signalled \subseteq signalled'
        /\ UNCHANGED <<spawned, listening, conn>>
    BY <1>1, <1>6 DEF Lifecycle, Begin, MarkDraining, Drain, WaitBegins, WaitReturns,
             DrainTimeout, StopSignal, StopWaited, StopTimeout, RestartFails, SaveRunning,
             SaveStopped, Cleanup, OpGoes, CallRecords, processes, transport
  <2> QED BY <1>1, <1>2, <2>1 DEF LinkInv, CutOff
<1> QED BY <1>3, <1>4, <1>5, <1>6

\* At most one process runs.
LEMMA OneProcess ==
  ASSUME TrackInv, OneCall, NEW p \in alive
  PROVE  alive = {p}
BY DEF TrackInv, OneCall

LEMMA LinkStep == OneCall /\ BaseInv /\ TrackInv /\ LinkInv /\ [Next]_vars => LinkInv'
<1> SUFFICES ASSUME OneCall, BaseInv, TrackInv, LinkInv, [Next]_vars PROVE LinkInv'
  OBVIOUS
<1>1. ASSUME NEW r \in Requests, CheckDrainStatus(r) \/ Proceed(r) \/ Written(r) \/ Reply(r)
      PROVE  LinkInv'
  <2>1. UNCHANGED <<op, processes, transport>>
    BY <1>1 DEF CheckDrainStatus, Proceed, Reply, Acquire, Send, LockWrite, Written,
             WriteError, Receive, Deliver, ReceiveError, ReceiveTimeout, Release
  <2> QED BY <2>1 DEF LinkInv, CutOff, processes, transport
<1>2. ASSUME NEW o \in Ops, ContextEnds(o)
      PROVE  LinkInv'
  <2>1. ~Reliable /\ UNCHANGED <<dialled, spawned>>
    BY <1>2 DEF ContextEnds, BaseInv, CallInv, Reliable, processes
  <2> QED BY <2>1 DEF LinkInv
<1>3. ASSUME NEW p \in Processes, Exit(p)
      PROVE  LinkInv'
  <2>1. UNCHANGED <<op, dialled, spawned, listening, conn, signalled>> /\ alive' \subseteq alive
    BY <1>3 DEF Exit, transport
  <2> QED BY <2>1 DEF LinkInv, CutOff
<1>4. ASSUME NEW p \in Processes, Connect(p)
      PROVE  LinkInv'
  <2>1. /\ p \in alive /\ conn' = p /\ dialled' = dialled \cup {p}
        /\ UNCHANGED <<op, alive, spawned, signalled>>
    BY <1>4 DEF Connect, processes
  <2>2. alive = {p} /\ p \in 1..spawned
    BY <2>1, OneProcess DEF BaseInv, TypeOK
  <2>3. \A o \in Ops : op[o].pc # "spawn"
    BY <2>2 DEF TrackInv
  <2> QED BY <2>1, <2>2, <2>3 DEF LinkInv, CutOff
<1>5. CASE UNCHANGED vars
  BY <1>5 DEF vars, processes, transport, LinkInv, CutOff
<1> QED BY <1>1, <1>2, <1>3, <1>4, <1>5, LinkCall DEF Next

\* All that holds of a call that no other overlaps.
LoneInv ==
  /\ BaseInv /\ CountInv /\ DrainInv /\ TrackInv /\ GateInv /\ LinkInv
  /\ ~MayFail => ServeInv

LEMMA LoneInvariant == ASSUME OneCall PROVE Spec => []LoneInv
<1>1. Init => LoneInv
  BY BaseInit, CountInit, DrainInit, GateInit, LinkInit, ServeInit DEF Init, TrackInv, LoneInv
<1>2. LoneInv /\ [Next]_vars => LoneInv'
  BY BaseStep, CountStep, DrainStep, TrackStep, GateStep, LinkStep, ServeStep DEF LoneInv
<1> QED BY <1>1, <1>2, PTL DEF Spec

\* When nothing times out or fails, no request that a lone call found in
\* flight is answered 502: the drain holds the call back from the process
\* until the last of them is over.
THEOREM LoneCallServes ==
  ASSUME OneCall, ~MayTimeOut, ~MayFail
  PROVE  Spec => EarlyRequestsAreServed
<1>1. Spec => []LoneInv
  BY LoneInvariant
<1>2. LoneInv /\ [Next]_vars =>
        [\A r \in Requests, o \in Ops :
           /\ r \in early[o]
           /\ req[r].pc # "release"
           /\ req'[r].pc = "release"
           => answer'[r] # 502]_vars
  <2> SUFFICES ASSUME LoneInv, Next, NEW r \in Requests, NEW o \in Ops,
                      r \in early[o], req[r].pc # "release", req'[r].pc = "release"
               PROVE  answer'[r] # 502
    BY DEF vars
  <2>1. /\ req \in [Requests -> ReqRecords] /\ answer \in [Requests -> {0, 200, 502, 503, 504}]
        /\ op \in [Ops -> CallRecords]
    BY DEF LoneInv, BaseInv, TypeOK, ReqRecords, CallRecords
  <2>2. op[o].pc \in {"new", "mark", "drain"} \cup Waiting
    BY <2>1 DEF LoneInv, DrainInv, DrainWaitsForEarlyRequests, GateInv, Drained, CallRecords
  <2>3. conn = 1 /\ alive = {1} /\ (req[r].pc = "waiting" => req[r].via = 1)
        /\ (req[r].pc = "writing" => req[r].to = 1)
    BY <2>2 DEF LoneInv, ServeInv, Before, OneCall
  <2>4. PICK q \in Requests : CheckDrainStatus(q) \/ Proceed(q) \/ Written(q) \/ Reply(q)
    <3>1. (\E c \in Ops : Lifecycle(c) \/ ContextEnds(c))
            \/ (\E p \in Processes : Exit(p) \/ Connect(p))
          => req' = req
      BY DEF Lifecycle, Begin, MarkDraining, Drain, WaitBegins, WaitReturns, DrainTimeout,
               StopSignal, StopWaited, StopTimeout, Deregister, Register, RestartFails, Spawn,
               SaveRunning, SaveStopped, Cleanup, ContextEnds, Exit, Connect
    <3> QED BY <3>1 DEF Next
  <2>5. q = r
    BY <2>1, <2>4 DEF CheckDrainStatus, Proceed, Reply, Acquire, Send, LockWrite, Written,
             WriteError, Receive, Deliver, ReceiveError, ReceiveTimeout, Release, ReqGoes,
             ReqEnds
  <2>6. Deliver(r) \/ ReceiveTimeout(r)
    <3>1. ~Acquire(r) /\ ~Release(r) /\ ~CheckDrainStatus(r) /\ ~Reply(r)
      BY <2>1 DEF Acquire, Release, CheckDrainStatus, Reply, ReqGoes, ReqEnds, ReqRecords, Idle
    <3>2. ~Send(r) /\ ~Receive(r) /\ ~LockWrite(r) /\ ~Written(r) /\ ~WriteError(r)
      BY <2>1, <2>3 DEF Send, LockWrite, Written, WriteError, Receive, ReqGoes, ReqEnds, Usable,
                        ReqRecords, None
    <3>3. ~ReceiveError(r)
      BY <2>3 DEF ReceiveError, ReqGoes, ReqEnds, Usable
    <3> QED BY <2>4, <2>5, <3>1, <3>2, <3>3 DEF Proceed
  <2> QED BY <2>1, <2>6 DEF Deliver, ReceiveTimeout, Answer
<1> QED BY <1>1, <1>2, PTL DEF Spec, EarlyRequestsAreServed

-----------------------------------------------------------------------------
(* A call that is alone implements Handover *)

\* What a step of one request makes of those admitted, inside and failed.
LEMMA OneMoves ==
  ASSUME NEW r \in Requests, \A q \in Requests \ {r} : req'[q] = req[q] /\ answer'[q] = answer[q]
  PROVE  /\ Admitted' = IF req'[r].pc = "checked" THEN Admitted \cup {r} ELSE Admitted \ {r}
         /\ Holders' = IF req'[r].pc \in InFlight THEN Holders \cup {r} ELSE Holders \ {r}
         /\ Failed' = IF req'[r].pc = "release" /\ answer'[r] = 502
                      THEN Failed \cup {r} ELSE Failed \ {r}
<1>1. Admitted' = IF req'[r].pc = "checked" THEN Admitted \cup {r} ELSE Admitted \ {r}
  BY DEF Admitted
<1>2. Holders' = IF req'[r].pc \in InFlight THEN Holders \cup {r} ELSE Holders \ {r}
  BY DEF Holders, InFlight
<1>3. Failed' = IF req'[r].pc = "release" /\ answer'[r] = 502
                THEN Failed \cup {r} ELSE Failed \ {r}
  BY DEF Failed
<1> QED BY <1>1, <1>2, <1>3

\* The server and what is owed are a matter of the processes and the calls.
LEMMA ServerStays ==
  ASSUME UNCHANGED <<alive, signalled>>
  PROVE  Server' = Server
BY DEF Server

LEMMA OwedStays ==
  ASSUME UNCHANGED <<early, expired>>
  PROVE  Owed' = Owed
BY DEF Owed

\* A dispatch that fails was not owed anything, and did not come to a worker
\* that serves: those owed are in flight while the first process does.
LEMMA FailsOnlyUnowed ==
  ASSUME OneCall, LoneInv, Reliable, NEW r \in Requests,
         \/ req[r].pc \in {"acquired", "sent"} /\ conn = None
         \/ req[r].pc = "writing" /\ ~Usable(req[r].to)
         \/ req[r].pc = "waiting" /\ ~Usable(req[r].via)
  PROVE  r \notin Owed /\ (draining \/ Server # "up")
<1>1. ~ \A o \in Ops : op[o].pc \in Before
  BY DEF LoneInv, ServeInv, Reliable, Usable, None
<1>2. PICK o \in Ops : op[o].pc \notin Before
  BY <1>1
<1>3. Ops = {o} /\ op[o].pc \in OpSteps
  BY DEF OneCall, LoneInv, BaseInv, TypeOK
<1>4. r \notin Owed
  <2>1. op[o].pc \in Drained
    BY <1>2, <1>3 DEF Before, Drained
  <2>2. o \notin expired => early[o] = {}
    BY <2>1 DEF LoneInv, DrainInv, DrainWaitsForEarlyRequests
  <2> QED BY <1>3, <2>2 DEF Owed
<1>5. draining \/ Server # "up"
  <2>1. draining \/ alive = {}
    BY <1>2 DEF LoneInv, GateInv, Before
  <2> QED BY <2>1 DEF Server
<1> QED BY <1>4, <1>5

\* Each step of a dispatch is a step of one who comes to be served.
LEMMA RequestServed ==
  ASSUME OneCall, LoneInv, NEW r \in Requests,
         CheckDrainStatus(r) \/ Proceed(r) \/ Written(r) \/ Reply(r)
  PROVE  [Place!Next]_Place!handoverVars
<1>1. /\ req \in [Requests -> ReqRecords] /\ answer \in [Requests -> {0, 200, 502, 503, 504}]
      /\ early \in [Ops -> SUBSET Requests]
  BY DEF LoneInv, BaseInv, TypeOK, ReqRecords
<1>2. UNCHANGED <<draining, alive, signalled, expired>>
  BY DEF CheckDrainStatus, Proceed, Reply, Acquire, Send, LockWrite, Written, WriteError,
           Receive, Deliver, ReceiveError, ReceiveTimeout, Release, processes, drainer,
           history
<1>3. Server' = Server
  BY <1>2, ServerStays
<1>4. \A q \in Requests \ {r} : req'[q] = req[q] /\ answer'[q] = answer[q]
  BY <1>1 DEF CheckDrainStatus, Proceed, Reply, Acquire, Send, LockWrite, Written, WriteError,
           Receive, Deliver, ReceiveError, ReceiveTimeout, Release, ReqGoes, ReqEnds, Answer
<1>5. /\ r \in Admitted <=> req[r].pc = "checked"
      /\ r \in Holders <=> req[r].pc \in InFlight
      /\ r \in Failed <=> req[r].pc = "release" /\ answer[r] = 502
  BY DEF Admitted, Holders, Failed, InFlight
<1>6. /\ Admitted' = IF req'[r].pc = "checked" THEN Admitted \cup {r} ELSE Admitted \ {r}
      /\ Holders' = IF req'[r].pc \in InFlight THEN Holders \cup {r} ELSE Holders \ {r}
      /\ Failed' = IF req'[r].pc = "release" /\ answer'[r] = 502
                   THEN Failed \cup {r} ELSE Failed \ {r}
  BY <1>4, OneMoves
<1>7. CASE Release(r)
  <2>1. req[r].pc = "release" /\ req'[r].pc = "idle"
    BY <1>1, <1>7 DEF Release, Idle
  <2>2. Owed' = Owed \ {r}
    BY <1>1, <1>2, <1>7 DEF Release, Owed
  <2>3. Holders' = Holders \ {r} /\ Failed' = Failed \ {r} /\ Admitted' = Admitted
        /\ r \in Holders
    BY <1>5, <1>6, <2>1 DEF InFlight
  <2>4. Place!Leave(r)
    BY <1>2, <1>3, <2>2, <2>3 DEF Place!Leave
  <2> QED BY <2>4 DEF Place!Next
<1>8. CASE ~Release(r)
  <2>1. early' = early
    BY <1>8 DEF CheckDrainStatus, Proceed, Reply, Acquire, Send, LockWrite, Written,
             WriteError, Receive, Deliver, ReceiveError, ReceiveTimeout, history
  <2>2. Owed' = Owed
    BY <1>2, <2>1, OwedStays
  <2>3. CASE CheckDrainStatus(r)
    <3>1. /\ req[r].pc = "idle"
          /\ \/ ~draining /\ req'[r].pc = "checked"
             \/ draining /\ req'[r].pc = "idle"
      BY <1>1, <2>3 DEF CheckDrainStatus, ReqGoes, ReqEnds, ReqRecords
    <3>2. Holders' = Holders /\ Failed' = Failed /\ r \notin Admitted \cup Holders
      BY <1>5, <1>6, <3>1 DEF InFlight
    <3>3. CASE req'[r].pc = "checked"
      <4>1. Place!Admit(r)
        BY <1>2, <1>3, <1>6, <2>2, <3>1, <3>2, <3>3 DEF Place!Admit
      <4> QED BY <4>1 DEF Place!Next
    <3>4. CASE req'[r].pc = "idle"
      BY <1>2, <1>3, <1>6, <2>2, <3>2, <3>4 DEF Place!handoverVars
    <3> QED BY <3>1, <3>3, <3>4
  <2>4. CASE Acquire(r)
    <3>1. req[r].pc = "checked" /\ req'[r].pc = "acquired"
      BY <1>1, <2>4 DEF Acquire, ReqGoes, ReqEnds, ReqRecords
    <3>2. Holders' = Holders \cup {r} /\ Failed' = Failed /\ Admitted' = Admitted \ {r}
          /\ r \in Admitted
      BY <1>5, <1>6, <3>1 DEF InFlight
    <3>3. Place!Enter(r)
      BY <1>2, <1>3, <2>2, <3>2 DEF Place!Enter
    <3> QED BY <3>3 DEF Place!Next
  <2>5. CASE \/ Send(r) \/ LockWrite(r) \/ Written(r) \/ WriteError(r)
             \/ Receive(r) \/ Reply(r) \/ Deliver(r)
             \/ ReceiveError(r) \/ ReceiveTimeout(r)
    <3>1. /\ req[r].pc \in InFlight \ {"release"} /\ req'[r].pc \in InFlight
          /\ req'[r].pc = "release" /\ answer'[r] = 502 =>
               \/ req[r].pc \in {"acquired", "sent"} /\ conn = None
               \/ req[r].pc = "writing" /\ ~Usable(req[r].to)
               \/ req[r].pc = "waiting" /\ ~Usable(req[r].via)
      <4> USE DEF InFlight, ReqRecords, ReqGoes, ReqEnds, Over, Answer
      <4>1. CASE Send(r)
        BY <1>1, <4>1 DEF Send
      <4>2. CASE Receive(r)
        BY <1>1, <4>2 DEF Receive
      <4>3. CASE LockWrite(r) \/ Written(r) \/ Reply(r) \/ Deliver(r) \/ ReceiveTimeout(r)
        BY <1>1, <4>3 DEF LockWrite, Written, Reply, Deliver, ReceiveTimeout
      <4>4. CASE ReceiveError(r) \/ WriteError(r)
        BY <1>1, <4>4 DEF ReceiveError, WriteError
      <4> QED BY <2>5, <4>1, <4>2, <4>3, <4>4
    <3>2. Holders' = Holders /\ Admitted' = Admitted /\ r \in Holders /\ r \notin Failed
      BY <1>5, <1>6, <3>1 DEF InFlight
    <3>3. CASE req'[r].pc = "release" /\ answer'[r] = 502
      <4>1. Reliable => r \notin Owed /\ (draining \/ Server # "up")
        BY <3>1, <3>3, FailsOnlyUnowed
      <4>2. Place!Fail(r)
        BY <1>2, <1>3, <1>6, <2>2, <3>2, <3>3, <4>1 DEF Place!Fail, Reliable
      <4> QED BY <4>2 DEF Place!Next
    <3>4. CASE ~(req'[r].pc = "release" /\ answer'[r] = 502)
      BY <1>2, <1>3, <1>6, <2>2, <3>2, <3>4 DEF Place!handoverVars
    <3> QED BY <3>3, <3>4
  <2> QED BY <1>8, <2>3, <2>4, <2>5 DEF Proceed
<1> QED BY <1>7, <1>8

\* Each step of the call is one of the door, or of the one who tells the server.
LEMMA CallServed ==
  ASSUME OneCall, LoneInv, NEW o \in Ops, Lifecycle(o)
  PROVE  [Place!Next]_Place!handoverVars
<1> USE DEF LoneInv
<1>1. /\ op \in [Ops -> CallRecords] /\ Ops = {o} /\ early \in [Ops -> SUBSET Requests]
      /\ spawned \in Nat /\ signalled \subseteq 1..spawned
  BY Numbers DEF BaseInv, TypeOK, CallRecords, OneCall, Processes
<1>2. UNCHANGED <<req, answer>>
  BY DEF Lifecycle, Begin, MarkDraining, Drain, WaitBegins, WaitReturns, DrainTimeout,
           StopSignal, StopWaited, StopTimeout, Deregister, Register, RestartFails, Spawn,
           SaveRunning, SaveStopped, Cleanup
<1>3. UNCHANGED <<Admitted, Holders, Failed>>
  BY <1>2 DEF Admitted, Holders, Failed
<1>4. CASE MarkDraining(o)
  <2>1. op[o].pc = "mark" /\ draining' = TRUE /\ UNCHANGED <<alive, signalled, expired>>
        /\ early'[o] = Holders
    BY <1>1, <1>4 DEF MarkDraining, OpGoes, processes
  <2>2. ~draining /\ o \notin expired
    BY <2>1 DEF GateInv
  <2>3. Owed' = Holders
    BY <1>1, <2>1, <2>2 DEF Owed
  <2>4. Server' = Server
    BY <2>1, ServerStays
  <2>5. Place!Close
    BY <1>3, <2>1, <2>2, <2>3, <2>4 DEF Place!Close
  <2> QED BY <2>5 DEF Place!Next
<1>5. CASE DrainTimeout(o)
  <2>1. op[o].pc \in Waiting /\ MayTimeOut /\ o \in expired'
        /\ UNCHANGED <<draining, alive, signalled>>
    BY <1>5 DEF DrainTimeout, OpGoes, processes, drainer
  <2>2. draining
    BY <2>1 DEF GateInv, Waiting
  <2>3. Owed' = {}
    BY <1>1, <2>1 DEF Owed
  <2>4. Server' = Server
    BY <2>1, ServerStays
  <2>5. Place!GiveUp
    BY <1>3, <2>1, <2>2, <2>3, <2>4 DEF Place!GiveUp
  <2> QED BY <2>5 DEF Place!Next
<1>6. CASE StopSignal(o) /\ table \in alive
  <2>1. op[o].pc = "stop" /\ signalled' = signalled \cup {table}
        /\ UNCHANGED <<draining, alive, early, expired>>
    BY <1>6 DEF StopSignal, drainer, history
  <2>2. draining /\ signalled = {}
    BY <1>1, <2>1 DEF GateInv, Before
  <2>3. Owed = {} /\ Owed' = Owed
    <3>1. o \notin expired => early[o] = {}
      BY <2>1 DEF DrainInv, DrainWaitsForEarlyRequests, Drained, Waiting, OpSteps
    <3> QED BY <1>1, <2>1, <3>1, OwedStays DEF Owed
  <2>4. Server = "up" /\ Server' = "told"
    BY <1>6, <2>1, <2>2 DEF Server
  <2>5. Place!Tell
    BY <1>3, <2>1, <2>2, <2>3, <2>4 DEF Place!Tell
  <2> QED BY <2>5 DEF Place!Next
<1>7. CASE StopTimeout(o)
  <2>1. op[o].pc = "exit" /\ op[o].target \in alive /\ alive' = alive \ {op[o].target}
        /\ UNCHANGED <<draining, signalled, early, expired>>
    BY <1>7 DEF StopTimeout, OpGoes, drainer, history
  <2>2. op[o].target \in signalled /\ alive' = {}
    BY <2>1, OneProcess DEF GateInv
  <2>3. Server = "told" /\ Server' = "gone"
    BY <2>1, <2>2 DEF Server
  <2>4. Owed' = Owed
    BY <2>1, OwedStays
  <2>5. Place!Go
    BY <1>3, <2>1, <2>3, <2>4 DEF Place!Go
  <2> QED BY <2>5 DEF Place!Next
<1>8. CASE Spawn(o)
  <2>1. op[o].pc = "spawn" /\ alive' = alive \cup {spawned + 1}
        /\ UNCHANGED <<draining, signalled, early, expired>>
    BY <1>8 DEF Spawn, OpGoes, drainer, history
  <2>2. draining /\ alive = {}
    BY <2>1 DEF GateInv, TrackInv
  <2>3. Server = "gone" /\ Server' = "up"
    <3>1. spawned + 1 \notin signalled
      BY <1>1
    <3> QED BY <2>1, <2>2, <3>1 DEF Server
  <2>4. Owed' = Owed
    BY <2>1, OwedStays
  <2>5. Place!Replace
    BY <1>3, <2>1, <2>2, <2>3, <2>4 DEF Place!Replace
  <2> QED BY <2>5 DEF Place!Next
<1>9. CASE Cleanup(o)
  <2>1. op[o].pc = "cleanup" /\ draining' = FALSE
        /\ UNCHANGED <<alive, signalled, early, expired>>
    BY <1>9 DEF Cleanup, OpGoes, processes, history
  <2>2. draining /\ alive = {}
    BY <2>1 DEF GateInv, TrackInv
  <2>3. Server = "gone" /\ Server' = Server
    BY <2>1, <2>2, ServerStays DEF Server
  <2>4. Owed' = Owed
    BY <2>1, OwedStays
  <2>5. Place!Reopen
    BY <1>3, <2>1, <2>2, <2>3, <2>4 DEF Place!Reopen
  <2> QED BY <2>5 DEF Place!Next
<1>10. CASE \/ Begin(o) \/ Drain(o) \/ WaitBegins(o) \/ WaitReturns(o)
            \/ (StopSignal(o) /\ table \notin alive)
            \/ StopWaited(o) \/ Deregister(o) \/ Register(o) \/ RestartFails(o)
            \/ SaveRunning(o) \/ SaveStopped(o)
  <2>1. UNCHANGED <<draining, alive, signalled, early, expired>>
    BY <1>10 DEF Begin, Drain, WaitBegins, WaitReturns, StopSignal, StopWaited, Deregister,
             Register, RestartFails, SaveRunning, SaveStopped, drainer, processes, history
  <2>2. Server' = Server /\ Owed' = Owed
    BY <2>1, ServerStays, OwedStays
  <2> QED BY <1>3, <2>1, <2>2 DEF Place!handoverVars
<1> QED BY <1>4, <1>5, <1>6, <1>7, <1>8, <1>9, <1>10 DEF Lifecycle

\* A process that exits is the server that goes.
LEMMA ProcessServed ==
  ASSUME OneCall, LoneInv,
         \/ \E o \in Ops : ContextEnds(o)
         \/ \E p \in Processes : Exit(p) \/ Connect(p)
         \/ UNCHANGED vars
  PROVE  [Place!Next]_Place!handoverVars
<1> USE DEF LoneInv
<1>1. UNCHANGED <<draining, signalled, req, answer, early, expired>>
  BY DEF ContextEnds, Exit, Connect, vars, drainer, processes, history
<1>2. UNCHANGED <<Admitted, Holders, Failed>>
  BY <1>1 DEF Admitted, Holders, Failed
<1>3. Owed' = Owed
  BY <1>1, OwedStays
<1>4. ASSUME NEW p \in Processes, Exit(p)
      PROVE  [Place!Next]_Place!handoverVars
  <2>1. p \in alive /\ alive' = alive \ {p} /\ (p \in signalled \/ CutOff(p) \/ MayFail)
    BY <1>4 DEF Exit
  <2>2. alive = {p} /\ alive' = {}
    BY <2>1, OneProcess
  <2>3. Server' = "gone" /\ Server = IF p \in signalled THEN "told" ELSE "up"
    BY <2>2 DEF Server
  <2>4. p \in signalled \/ ~Reliable
    BY <2>1 DEF LinkInv, Reliable
  <2>5. Place!Go
    BY <1>1, <1>2, <1>3, <2>3, <2>4 DEF Place!Go, Reliable
  <2> QED BY <2>5 DEF Place!Next
<1>5. CASE \/ \E o \in Ops : ContextEnds(o)
           \/ \E p \in Processes : Connect(p)
           \/ UNCHANGED vars
  <2>1. alive' = alive
    BY <1>5 DEF ContextEnds, Connect, vars, processes
  <2>2. Server' = Server
    BY <1>1, <2>1, ServerStays
  <2> QED BY <1>1, <1>2, <1>3, <2>2 DEF Place!handoverVars
<1> QED BY <1>4, <1>5

\* A call that no other overlaps implements Handover, whatever times out or
\* fails, for any number of requests: SIGTERM only behind the mark and when
\* what was in flight is over or was given up, one process at a time, no mark
\* taken off a process, and no 502 for a request that was owed an answer.
THEOREM LoneCallHandsOver ==
  ASSUME OneCall
  PROVE  Spec => HandsOver
<1>1. Init => Place!Init
  <2> SUFFICES ASSUME Init PROVE Place!Init
    OBVIOUS
  <2>1. \A r \in Requests : req[r].pc = "idle"
    BY DEF Init, Idle
  <2>2. Admitted = {} /\ Holders = {} /\ Failed = {}
    BY <2>1 DEF Admitted, Holders, Failed, InFlight
  <2>3. Owed = {} /\ Server = "up"
    BY DEF Init, Owed, Server
  <2> QED BY <2>2, <2>3 DEF Init, Place!Init
<1>2. LoneInv /\ [Next]_vars => [Place!Next]_Place!handoverVars
  BY RequestServed, CallServed, ProcessServed DEF Next
<1> QED BY <1>1, <1>2, LoneInvariant, PTL DEF Spec, HandsOver, Place!Spec
=============================================================================
