-------------------------- MODULE WorkerPoolProofs --------------------------
(***************************************************************************)
(* Proofs about WorkerPool, for any sets of dispatches and calls of        *)
(* ReplaceWorker, any number of replicas and any limit on the pool.        *)
(*                                                                         *)
(* No process is lost because an ID that was generated is known to nobody  *)
(* but its operation until AddWorker has listed it: no other operation can *)
(* remove or stop it before, and an ID that was removed never comes back.  *)
(***************************************************************************)
EXTENDS WorkerPool, FiniteSetTheorems, SequenceTheorems, TLAPS

\* The IDs an operation has taken from the pool.
Known(o) == op[o].todo \cup {i \in {op[o].id} : op[o].pc \in {"remove", "stop"}}

Adders == {o \in Ops : op[o].pc = "add"}

\* The list is no longer than there are IDs: those being added have their place.
LenInv == Len(order) + Cardinality(Adders) <= stamp

\* What the IDs of the processes, the entries and the operations have to do
\* with one another.
KnownInv ==
  /\ entry \subseteq procs
  /\ procs \subseteq 0 .. stamp - 1
  /\ \A o \in Ops : Known(o) \subseteq 0 .. stamp - 1
  /\ \A o \in Ops : op[o].pc = "stop" => op[o].id \notin entry
  /\ \A o \in Adders : op[o].id \in (procs \ entry) \ Base
  /\ \A o \in Adders, p \in Ops : o # p =>
       op[o].id \notin Known(p) /\ (p \in Adders => op[o].id # op[p].id)

PoolInv ==
  /\ TypeOK
  /\ LenInv
  /\ KnownInv
  /\ NoProcessLost
  /\ CountIsRequests

First == IF MaxPoolSize > 0 /\ Replicas > MaxPoolSize THEN MaxPoolSize ELSE Replicas

Picked == {r \in Requests : req[r].pc = "picked"}

\* The selections that have been made, one of which may not be counted yet.
Selections == counter + (IF Picked = {} THEN 0 ELSE 1)

\* A calm pool is as SpawnWorkers left it, one selection is under way at most,
\* and the selections have gone round: the workers before the next one are one
\* ahead of the others.
CalmInv ==
  calm =>
    /\ order = [i \in 1 .. First |-> i - 1]
    /\ entry = 0 .. First - 1
    /\ \A i \in entry : alive[i]
    /\ \A r, q \in Requests :
         req[r].pc \in {"listed", "picked"} /\ req[q].pc \in {"listed", "picked"} => r = q
    /\ strategy = "round-robin" =>
         /\ \A r \in Requests : req[r].pc = "listed" => req[r].seen = order
         /\ \E base \in Nat : \A i \in entry :
              picks[i] = base + (IF i < Selections % First THEN 1 ELSE 0)

OpRecords == [pc : {"idle", "remove", "stop", "healthy", "capacity", "spawn", "add", "done"},
              todo : SUBSET IDs, id : IDs, ok : BOOLEAN, left : Int]

ReqRecords == [pc : {"idle", "listed", "picked", "selected", "counted", "done"},
               seen : Lists, at : IDs, min : {-1} \cup Nat]

-----------------------------------------------------------------------------
(* The operators *)

LEMMA Constants ==
  /\ Replicas \in Nat /\ Replicas > 0 /\ MaxStamps \in Nat
  /\ Base \subseteq IDs /\ 0 \in IDs
  /\ IsFiniteSet(Ops) /\ IsFiniteSet(Requests)
<1>1. Replicas \in Nat /\ Replicas > 0 /\ MaxStamps \in Nat
  BY WorkerPoolAssumption
<1>2. IsFiniteSet(Replacers \cup {"monitor"})
  BY WorkerPoolAssumption, FS_AddElement
<1> QED BY <1>1, <1>2, WorkerPoolAssumption DEF Base, IDs, Ops

\* A part of a list of IDs is a list.
LEMMA PartIsList ==
  ASSUME NEW f, NEW D \in SUBSET (1 .. Replicas + MaxStamps),
         \A k \in D : f[k] \in IDs
  PROVE  Restrict(f, D) \in Lists
<1>1. Restrict(f, D) \in [D -> IDs]
  BY DEF Restrict
<1> QED BY <1>1 DEF Lists

LEMMA EmptyIsList == <<>> \in Lists
<1>1. <<>> \in [{} -> IDs]
  OBVIOUS
<1>2. {} \in SUBSET (1 .. Replicas + MaxStamps)
  OBVIOUS
<1> QED BY <1>1, <1>2 DEF Lists

LEMMA ListDomain ==
  ASSUME NEW l \in Lists
  PROVE  /\ DOMAIN l \in SUBSET (1 .. Replicas + MaxStamps)
         /\ \A k \in DOMAIN l : l[k] \in IDs
<1>1. PICK D \in SUBSET (1 .. Replicas + MaxStamps) : l \in [D -> IDs]
  BY DEF Lists
<1> QED BY <1>1

LEMMA RemovedFromList ==
  ASSUME NEW s \in Seq(IDs), NEW k \in DOMAIN s
  PROVE  /\ RemoveAt(s, k) \in Seq(IDs)
         /\ Len(RemoveAt(s, k)) = Len(s) - 1
<1> DEFINE a == SubSeq(s, 1, k - 1)
           b == SubSeq(s, k + 1, Len(s))
<1>1. k \in 1 .. Len(s) /\ Len(s) \in Nat
  OBVIOUS
<1>2. a \in Seq(IDs) /\ Len(a) = k - 1
  BY <1>1
<1>3. b \in Seq(IDs) /\ Len(b) = Len(s) - k
  BY <1>1
<1>4. RemoveAt(s, k) = a \o b
  BY DEF RemoveAt
<1> HIDE DEF a, b
<1>5. a \o b \in Seq(IDs) /\ Len(a \o b) = Len(a) + Len(b)
  BY <1>2, <1>3, ConcatProperties
<1> QED BY <1>1, <1>2, <1>3, <1>4, <1>5

\* The remainder goes up by one, and from the last one back to 0.
LEMMA RemainderSteps ==
  ASSUME NEW n \in Nat \ {0}, NEW c \in Nat
  PROVE  /\ (c % n) \in 0 .. n - 1
         /\ ((c + 1) % n) = IF (c % n) = n - 1 THEN 0 ELSE (c % n) + 1
<1> DEFINE q == c \div n
           p == (c + 1) \div n
<1>1. q \in Int /\ (c % n) \in 0 .. n - 1 /\ c = n * q + (c % n)
  OBVIOUS
<1>2. p \in Int /\ ((c + 1) % n) \in 0 .. n - 1 /\ c + 1 = n * p + ((c + 1) % n)
  OBVIOUS
<1> HIDE DEF q, p
<1>3. n * (p - q) = 1 + (c % n) - ((c + 1) % n)
  BY <1>1, <1>2
<1>4. p - q \in {0, 1}
  <2>1. p - q < 2
    <3> SUFFICES ASSUME p - q >= 2 PROVE FALSE
      BY <1>1, <1>2
    <3>1. n * (p - q) >= n * 2
      BY <1>1, <1>2
    <3> QED BY <3>1, <1>1, <1>2, <1>3
  <2>2. p - q > -1
    <3> SUFFICES ASSUME p - q <= -1 PROVE FALSE
      BY <1>1, <1>2
    <3>1. n * (p - q) <= n * (-1)
      BY <1>1, <1>2
    <3> QED BY <3>1, <1>1, <1>2, <1>3
  <2> QED BY <2>1, <2>2, <1>1, <1>2
<1> QED BY <1>1, <1>2, <1>3, <1>4

LEMMA Records == TypeOK => op \in [Ops -> OpRecords] /\ req \in [Requests -> ReqRecords]
BY DEF TypeOK, OpRecords, ReqRecords

LEMMA AddersFinite == IsFiniteSet(Adders) /\ Cardinality(Adders) \in Nat
<1>1. Adders \in SUBSET Ops
  BY DEF Adders
<1> QED BY <1>1, Constants, FS_Subset, FS_CardinalityType

LEMMA CountedFinite ==
  ASSUME NEW i
  PROVE  IsFiniteSet(Counted(i)) /\ Cardinality(Counted(i)) \in Nat
<1>1. Counted(i) \in SUBSET Requests
  BY DEF Counted
<1> QED BY <1>1, Constants, FS_Subset, FS_CardinalityType

LEMMA HealthyIsList ==
  ASSUME TypeOK, LenInv
  PROVE  HealthyWorkers \in Lists
<1>1. order \in Seq(IDs) /\ Len(order) <= Replicas + MaxStamps
  BY AddersFinite, Constants DEF TypeOK, LenInv
<1>2. DOMAIN order \subseteq 1 .. Replicas + MaxStamps
  BY <1>1, Constants
<1> DEFINE D == {k \in DOMAIN order : order[k] \in entry /\ alive[order[k]]}
<1>3. D \in SUBSET (1 .. Replicas + MaxStamps) /\ \A k \in D : order[k] \in IDs
  BY <1>1, <1>2
<1>4. Restrict(order, D) \in Lists
  BY <1>3, PartIsList
<1> QED BY <1>4 DEF HealthyWorkers

\* What the monitor may go on with.
LEMMA AheadFacts ==
  ASSUME NEW dead \in SUBSET IDs, NEW m \in Ahead(dead)
  PROVE  /\ m \in OpRecords
         /\ \/ m.pc = "remove" /\ m.id \in dead /\ m.todo \subseteq dead
            \/ m.pc = "healthy" /\ m.todo = {}
<1>1. ASSUME NEW i \in dead,
             m = [OpIdle EXCEPT !.pc = "remove", !.id = i, !.todo = dead \ {i}]
      PROVE  m \in OpRecords /\ m.pc = "remove" /\ m.id \in dead /\ m.todo \subseteq dead
  <2>1. m = [pc |-> "remove", todo |-> dead \ {i}, id |-> i, ok |-> TRUE, left |-> 0]
    BY <1>1 DEF OpIdle
  <2> QED BY <2>1 DEF OpRecords
<1>2. ASSUME m = [OpIdle EXCEPT !.pc = "healthy"]
      PROVE  m \in OpRecords /\ m.pc = "healthy" /\ m.todo = {}
  <2>1. m = [pc |-> "healthy", todo |-> {}, id |-> 0, ok |-> TRUE, left |-> 0]
    BY <1>2 DEF OpIdle
  <2> QED BY <2>1, Constants DEF OpRecords
<1> QED BY <1>1, <1>2 DEF Ahead

LEMMA IdleTyped ==
  /\ OpIdle \in OpRecords
  /\ [OpIdle EXCEPT !.pc = "done"] \in OpRecords
  /\ \A i \in IDs, b \in BOOLEAN :
       [OpIdle EXCEPT !.pc = "remove", !.id = i, !.ok = b, !.left = 1] \in OpRecords
  /\ ReqIdle \in ReqRecords
  /\ [ReqIdle EXCEPT !.pc = "selected"] \in ReqRecords
  /\ [ReqIdle EXCEPT !.pc = "done"] \in ReqRecords
  /\ \A i \in IDs : [ReqIdle EXCEPT !.pc = "counted", !.at = i] \in ReqRecords
  /\ \A i \in IDs, l \in Lists :
       [ReqIdle EXCEPT !.pc = "listed", !.seen = l, !.at = i] \in ReqRecords
<1>1. OpIdle \in OpRecords
  BY Constants DEF OpIdle, OpRecords
<1>4. [OpIdle EXCEPT !.pc = "done"] \in OpRecords
  <2>1. PICK m : m = [OpIdle EXCEPT !.pc = "done"]
    OBVIOUS
  <2>2. m = [pc |-> "done", todo |-> {}, id |-> 0, ok |-> TRUE, left |-> 0]
    BY <2>1 DEF OpIdle
  <2>3. m \in OpRecords
    BY <2>2, Constants DEF OpRecords
  <2> QED BY <2>1, <2>3, Zenon
<1>3. ASSUME NEW i \in IDs, NEW b \in BOOLEAN
      PROVE  [OpIdle EXCEPT !.pc = "remove", !.id = i, !.ok = b, !.left = 1] \in OpRecords
  <2>1. PICK m : m = [OpIdle EXCEPT !.pc = "remove", !.id = i, !.ok = b, !.left = 1]
    OBVIOUS
  <2>2. m = [pc |-> "remove", todo |-> {}, id |-> i, ok |-> TRUE, left |-> 1]
        \/ m = [pc |-> "remove", todo |-> {}, id |-> i, ok |-> FALSE, left |-> 1]
    <3>1. CASE b = TRUE
      BY <2>1, <3>1 DEF OpIdle
    <3>2. CASE b = FALSE
      BY <2>1, <3>2 DEF OpIdle
    <3> QED BY <3>1, <3>2
  <2>3. m \in OpRecords
    <3>1. CASE m = [pc |-> "remove", todo |-> {}, id |-> i, ok |-> TRUE, left |-> 1]
      BY <3>1 DEF OpRecords
    <3>2. CASE m = [pc |-> "remove", todo |-> {}, id |-> i, ok |-> FALSE, left |-> 1]
      BY <3>2 DEF OpRecords
    <3> QED BY <2>2, <3>1, <3>2
  <2> QED BY <2>1, <2>3, Zenon
<1>2. /\ ReqIdle \in ReqRecords
      /\ [ReqIdle EXCEPT !.pc = "selected"] \in ReqRecords
      /\ [ReqIdle EXCEPT !.pc = "done"] \in ReqRecords
      /\ \A i \in IDs : [ReqIdle EXCEPT !.pc = "counted", !.at = i] \in ReqRecords
      /\ \A i \in IDs, l \in Lists :
           [ReqIdle EXCEPT !.pc = "listed", !.seen = l, !.at = i] \in ReqRecords
  BY Constants, EmptyIsList DEF ReqIdle, ReqRecords
<1> QED BY <1>1, <1>2, <1>3, <1>4

-----------------------------------------------------------------------------
(* Types *)

LEMMA RemoveTyped ==
  ASSUME TypeOK, NEW i \in IDs, RemoveWorker(i)
  PROVE  /\ order' \in Seq(IDs) /\ Len(order') <= Len(order)
         /\ entry' = entry \ {i}
         /\ alive' \in [IDs -> BOOLEAN]
         /\ reqs' = [reqs EXCEPT ![i] = 0]
<1>1. order' \in Seq(IDs) /\ Len(order') <= Len(order)
  <2>1. order \in Seq(IDs)
    BY DEF TypeOK
  <2>2. CASE UNCHANGED order
    BY <2>1, <2>2
  <2>3. ASSUME NEW k \in DOMAIN order, order' = RemoveAt(order, k)
        PROVE  order' \in Seq(IDs) /\ Len(order') <= Len(order)
    BY <2>1, <2>3, RemovedFromList
  <2> QED BY <2>2, <2>3 DEF RemoveWorker
<1> QED BY <1>1 DEF RemoveWorker, TypeOK

LEMMA AddTyped ==
  ASSUME TypeOK, NEW i \in IDs, NEW ok \in BOOLEAN, AddWorker(i, ok)
  PROVE  /\ order' \in Seq(IDs) /\ Len(order') = Len(order) + 1
         /\ entry' = entry \cup {i}
         /\ alive' \in [IDs -> BOOLEAN]
         /\ reqs' = [reqs EXCEPT ![i] = 0]
BY DEF AddWorker, TypeOK

\* What a dispatch leaves alone.
LEMMA DispatchFrame ==
  ASSUME NEW r \in Requests, Dispatch(r)
  PROVE  UNCHANGED <<cfg, strategy, order, entry, alive, procs, exited, stamp, op, reports>>
BY DEF Dispatch, List, PickRoundRobin, Advance, Compare, PickLeastLoaded, Increment, Decrement

\* A dispatch that lists the healthy workers...
LEMMA ListSteps ==
  ASSUME TypeOK, LenInv, NEW r \in Requests, List(r)
  PROVE  \E w \in ReqRecords : /\ req' = [req EXCEPT ![r] = w]
                               /\ w.pc = "selected" \/ (w.pc = "listed" /\ w.seen = HealthyWorkers)
<1>1. CASE req' = [req EXCEPT ![r] = [ReqIdle EXCEPT !.pc = "selected"]]
  <2>1. PICK w : w = [ReqIdle EXCEPT !.pc = "selected"]
    OBVIOUS
  <2>2. w \in ReqRecords /\ req' = [req EXCEPT ![r] = w]
    BY <1>1, <2>1, IdleTyped, Zenon
  <2>3. w.pc = "selected"
    BY <2>1 DEF ReqIdle
  <2> QED BY <2>2, <2>3
<1>2. ASSUME NEW k \in DOMAIN HealthyWorkers,
             req' = [req EXCEPT ![r] = [ReqIdle EXCEPT !.pc = "listed", !.seen = HealthyWorkers,
                                                       !.at = HealthyWorkers[k]]]
      PROVE  \E w \in ReqRecords : /\ req' = [req EXCEPT ![r] = w]
                                   /\ w.pc = "listed" /\ w.seen = HealthyWorkers
  <2>1. HealthyWorkers \in Lists /\ HealthyWorkers[k] \in IDs
    BY HealthyIsList, ListDomain
  <2>2. PICK w : w = [ReqIdle EXCEPT !.pc = "listed", !.seen = HealthyWorkers,
                                     !.at = HealthyWorkers[k]]
    OBVIOUS
  <2>3. w \in ReqRecords /\ req' = [req EXCEPT ![r] = w]
    BY <1>2, <2>1, <2>2, IdleTyped, Zenon
  <2>4. w.pc = "listed" /\ w.seen = HealthyWorkers
    BY <2>2 DEF ReqIdle
  <2> QED BY <2>3, <2>4
<1> QED BY <1>1, <1>2 DEF List

\* ... and one that looks at the next of them.
LEMMA CompareSteps ==
  ASSUME TypeOK, NEW r \in Requests, Compare(r)
  PROVE  \E w \in ReqRecords : req' = [req EXCEPT ![r] = w] /\ w.pc = "listed"
<1>1. req \in [Requests -> ReqRecords] /\ reqs \in [IDs -> Nat]
  BY Records DEF TypeOK
<1>2. PICK k \in DOMAIN req[r].seen :
        \E at \in {req[r].at, req[r].seen[k]}, min \in {req[r].min, reqs[req[r].seen[k]]} :
          req' = [req EXCEPT ![r].seen = Restrict(req[r].seen, DOMAIN req[r].seen \ {k}),
                             ![r].at = at, ![r].min = min]
  BY DEF Compare
<1> DEFINE seen == Restrict(req[r].seen, DOMAIN req[r].seen \ {k})
<1>3. req[r].seen \in Lists /\ req[r].seen[k] \in IDs /\ reqs[req[r].seen[k]] \in Nat
  BY <1>1, ListDomain DEF ReqRecords
<1>4. seen \in Lists
  BY <1>3, ListDomain, PartIsList
<1>5. PICK at \in IDs, min \in {-1} \cup Nat :
        req' = [req EXCEPT ![r].seen = seen, ![r].at = at, ![r].min = min]
  <2>1. req[r].at \in IDs /\ req[r].min \in {-1} \cup Nat
    BY <1>1 DEF ReqRecords
  <2> QED BY <1>2, <1>3, <2>1, Zenon
<1> HIDE DEF seen
<1> DEFINE w == [req[r] EXCEPT !.seen = seen, !.at = at, !.min = min]
<1>6. w \in ReqRecords /\ w.pc = req[r].pc
  BY <1>1, <1>4, <1>5 DEF ReqRecords
<1>7. req' = [req EXCEPT ![r] = w]
  BY <1>1, <1>5
<1>8. req[r].pc = "listed"
  BY DEF Compare
<1> HIDE DEF w
<1> QED BY <1>6, <1>7, <1>8

LEMMA DispatchTyped ==
  ASSUME TypeOK, LenInv, CountIsRequests, NEW r \in Requests, Dispatch(r)
  PROVE  TypeOK'
<1>1. UNCHANGED <<cfg, strategy, order, entry, alive, procs, exited, stamp, op, reports>>
  BY DispatchFrame
<1>2. req \in [Requests -> ReqRecords]
  BY Records
<1> SUFFICES req' \in [Requests -> ReqRecords] /\ reqs' \in [IDs -> Nat] /\ counter' \in Nat
             /\ picks' \in [IDs -> Nat] /\ calm' \in BOOLEAN
  BY <1>1 DEF TypeOK, ReqRecords
<1>3. reqs \in [IDs -> Nat] /\ counter \in Nat /\ picks \in [IDs -> Nat] /\ calm \in BOOLEAN
  BY DEF TypeOK
<1>4. CASE List(r)
  <2>1. UNCHANGED <<reqs, counter>> /\ (UNCHANGED <<calm, picks>> \/ Disturb)
    BY <1>4, Zenon DEF List
  <2>3. picks' \in [IDs -> Nat]
    BY <1>3, <2>1 DEF Disturb
  <2>4. calm' \in BOOLEAN
    BY <1>3, <2>1, Zenon DEF Disturb
  <2>2. req' \in [Requests -> ReqRecords]
    <3>2. PICK w \in ReqRecords :
            /\ req' = [req EXCEPT ![r] = w]
            /\ w.pc = "selected" \/ (w.pc = "listed" /\ w.seen = HealthyWorkers)
      BY <1>4, ListSteps
    <3> QED BY <1>2, <3>2
  <2> QED BY <1>3, <2>1, <2>2, <2>3, <2>4
<1>5. CASE PickRoundRobin(r)
  <2>1. UNCHANGED <<reqs, counter, calm>>
    BY <1>5 DEF PickRoundRobin
  <2>2. PICK k \in DOMAIN req[r].seen :
          /\ req' = [req EXCEPT ![r].pc = "picked", ![r].at = req[r].seen[k]]
          /\ picks' = IF calm THEN [picks EXCEPT ![req[r].seen[k]] = @ + 1] ELSE picks
    BY <1>5 DEF PickRoundRobin
  <2>3. req[r].seen[k] \in IDs
    BY <1>2, ListDomain DEF ReqRecords
  <2>4. req' \in [Requests -> ReqRecords]
    BY <1>2, <2>2, <2>3 DEF ReqRecords
  <2> QED BY <1>3, <2>1, <2>2, <2>3, <2>4
<1>6. CASE Advance(r)
  BY <1>2, <1>3, <1>6 DEF Advance, ReqAt, ReqRecords
<1>7. CASE Compare(r)
  <2>1. UNCHANGED <<reqs, counter, calm, picks>>
    BY <1>7 DEF Compare
  <2>2. PICK w \in ReqRecords : req' = [req EXCEPT ![r] = w]
    BY <1>7, CompareSteps
  <2> QED BY <1>2, <1>3, <2>1, <2>2
<1>8. CASE PickLeastLoaded(r)
  BY <1>2, <1>3, <1>8 DEF PickLeastLoaded, ReqAt, ReqRecords
<1>9. CASE Increment(r)
  <2>1. UNCHANGED <<counter, calm, picks>>
    BY <1>9 DEF Increment
  <2>2. req' = [req EXCEPT ![r] = [ReqIdle EXCEPT !.pc = "counted", !.at = req[r].at]]
    BY <1>9 DEF Increment
  <2>3. req' \in [Requests -> ReqRecords]
    BY <1>2, <2>2, IdleTyped DEF ReqRecords
  <2>4. reqs' \in [IDs -> Nat]
    BY <1>2, <1>3, <1>9 DEF Increment, Count, ReqRecords
  <2> QED BY <1>3, <2>1, <2>3, <2>4
<1>10. CASE Decrement(r)
  <2>1. UNCHANGED <<counter, calm, picks>>
    BY <1>10 DEF Decrement
  <2>2. req' = [req EXCEPT ![r] = [ReqIdle EXCEPT !.pc = "done"]]
    BY <1>10 DEF Decrement
  <2>3. req' \in [Requests -> ReqRecords]
    BY <1>2, <2>2, IdleTyped
  <2>4. reqs' \in [IDs -> Nat]
    <3> DEFINE i == req[r].at
    <3>1. CASE reqs' = reqs
      BY <1>3, <3>1
    <3>2. CASE HasPool(i) /\ i \in entry
      <4>1. reqs[i] = Cardinality(Counted(i))
        BY <3>2 DEF CountIsRequests
      <4>2. Counted(i) # {}
        BY <1>10 DEF Decrement, Counted
      <4>3. reqs[i] > 0
        BY <4>1, <4>2, CountedFinite, FS_EmptySet
      <4>4. i \in IDs /\ reqs[i] - 1 \in Nat
        BY <1>2, <1>3, <4>3 DEF ReqRecords
      <4>5. reqs' = [reqs EXCEPT ![i] = @ + -1]
        BY <1>10, <3>2 DEF Decrement, Count
      <4>6. reqs' = [reqs EXCEPT ![i] = reqs[i] - 1]
        BY <1>3, <4>4, <4>5
      <4> HIDE DEF i
      <4> QED BY <1>3, <4>4, <4>6
    <3> QED BY <1>10, <3>1, <3>2 DEF Decrement, Count
  <2> QED BY <1>3, <2>1, <2>3, <2>4
<1> QED BY <1>4, <1>5, <1>6, <1>7, <1>8, <1>9, <1>10 DEF Dispatch

-----------------------------------------------------------------------------
(* What the manager's operations do to their record *)

KnownBy(v) == v.todo \cup {i \in {v.id} : v.pc \in {"remove", "stop"}}

Becomes(o, v) == o \in Ops /\ v \in OpRecords /\ op' = [op EXCEPT ![o] = v]

\* A step that decides, and changes neither the pool nor a process.
Decides(o, v) ==
  /\ Becomes(o, v)
  /\ op[o].pc \notin {"add", "stop"} /\ v.pc \notin {"add", "stop"}
  /\ KnownBy(v) \subseteq entry \cup Known(o)
  /\ reports' \in 0 .. MaxReports
  /\ UNCHANGED <<cfg, strategy, order, entry, alive, reqs, counter, procs, exited, stamp, req,
                 picks, calm>>

LEMMA ReplaceDecides ==
  ASSUME TypeOK, NEW o \in Ops, NEW i \in IDs, Replace(o, i)
  PROVE  \E v : Decides(o, v)
<1>1. /\ UNCHANGED <<cfg, strategy, order, entry, alive, reqs, counter, procs, exited, stamp, req,
                     picks, calm>>
      /\ reports' \in 0 .. MaxReports
      /\ op[o].pc = "idle"
  BY DEF Replace, TypeOK
<1>2. CASE HasPool(i) /\ i \in entry
  <2> DEFINE v == [OpIdle EXCEPT !.pc = "remove", !.id = i, !.ok = alive[i], !.left = 1]
  <2>1. v \in OpRecords
    BY IdleTyped DEF TypeOK
  <2>2. op' = [op EXCEPT ![o] = v]
    BY <1>2 DEF Replace
  <2>3. v.todo = {} /\ v.id = i /\ v.pc = "remove"
    BY DEF OpIdle
  <2> HIDE DEF v
  <2>4. KnownBy(v) \subseteq entry
    BY <1>2, <2>3 DEF KnownBy
  <2>5. Decides(o, v)
    BY <1>1, <2>1, <2>2, <2>3, <2>4 DEF Decides, Becomes
  <2> QED BY <2>5
<1>3. CASE ~ (HasPool(i) /\ i \in entry)
  <2> DEFINE v == [OpIdle EXCEPT !.pc = "done"]
  <2>1. v \in OpRecords
    BY IdleTyped
  <2>2. op' = [op EXCEPT ![o] = v]
    BY <1>3 DEF Replace
  <2>3. v.todo = {} /\ v.pc = "done"
    BY DEF OpIdle
  <2> HIDE DEF v
  <2>4. KnownBy(v) \subseteq entry
    BY <2>3 DEF KnownBy
  <2>5. Decides(o, v)
    BY <1>1, <2>1, <2>2, <2>3, <2>4 DEF Decides, Becomes
  <2> QED BY <2>5
<1> QED BY <1>2, <1>3

LEMMA MonitorDecides ==
  ASSUME TypeOK, Monitor
  PROVE  \E v : Decides("monitor", v)
<1> DEFINE dead == {i \in Range(order) : i \in entry /\ ~alive[i]}
<1>1. /\ UNCHANGED <<cfg, strategy, order, entry, alive, reqs, counter, procs, exited, stamp, req,
                     picks, calm>>
      /\ reports' \in 0 .. MaxReports
      /\ op["monitor"].pc = "idle" /\ "monitor" \in Ops
  BY DEF Monitor, TypeOK, Ops
<1>2. dead \subseteq entry /\ dead \in SUBSET IDs
  BY DEF TypeOK
<1>3. PICK v \in Ahead(dead) : op' = [op EXCEPT !["monitor"] = v]
  BY DEF Monitor
<1> HIDE DEF dead
<1>4. v \in OpRecords /\ \/ v.pc = "remove" /\ v.id \in dead /\ v.todo \subseteq dead
                         \/ v.pc = "healthy" /\ v.todo = {}
  BY <1>2, <1>3, AheadFacts
<1>5. KnownBy(v) \subseteq entry
  BY <1>2, <1>4 DEF KnownBy
<1>6. Decides("monitor", v)
  BY <1>1, <1>3, <1>4, <1>5 DEF Decides, Becomes
<1> QED BY <1>6

\* The steps that only go on, and count.
LEMMA CountDecides ==
  ASSUME TypeOK, LenInv, NEW o \in Ops, NEW l \in {"capacity", "spawn"}, NEW n \in Int,
         op[o].pc \notin {"add", "stop"},
         op' = [op EXCEPT ![o].pc = l, ![o].left = n],
         reports' \in 0 .. MaxReports,
         UNCHANGED <<cfg, strategy, order, entry, alive, reqs, counter, procs, exited, stamp, req,
                     picks, calm>>
  PROVE  \E v : Decides(o, v)
<1> DEFINE v == [op[o] EXCEPT !.pc = l, !.left = n]
<1>1. op \in [Ops -> OpRecords]
  BY Records
<1>2. v \in OpRecords /\ v.pc = l /\ v.todo = op[o].todo
  BY <1>1 DEF OpRecords
<1>3. op' = [op EXCEPT ![o] = v]
  BY <1>1
<1> HIDE DEF v
<1>4. KnownBy(v) \subseteq Known(o)
  BY <1>2 DEF KnownBy, Known
<1>5. Decides(o, v)
  BY <1>2, <1>3, <1>4 DEF Decides, Becomes
<1> QED BY <1>5

LEMMA HealthyCounted ==
  ASSUME TypeOK, LenInv
  PROVE  Cardinality(DOMAIN HealthyWorkers) \in Nat
<1>1. DOMAIN HealthyWorkers \in SUBSET (1 .. Replicas + MaxStamps)
  BY HealthyIsList, ListDomain
<1>2. IsFiniteSet(1 .. Replicas + MaxStamps)
  BY Constants, FS_Interval
<1> QED BY <1>1, <1>2, FS_Subset, FS_CardinalityType

LEMMA OthersDecide ==
  ASSUME TypeOK, LenInv
  PROVE  /\ NotRegistered \/ CountHealthy \/ CountSize => \E v : Decides("monitor", v)
         /\ \A o \in Ops : SpawnFails(o) \/ Return(o) => \E v : Decides(o, v)
<1>0. "monitor" \in Ops
  BY DEF Ops
<1>1. ASSUME CountHealthy PROVE \E v : Decides("monitor", v)
  <2>1. Replicas - Cardinality(DOMAIN HealthyWorkers) \in Int
    BY Constants, HealthyCounted
  <2> QED BY <1>0, <1>1, <2>1, CountDecides DEF CountHealthy, TypeOK
<1>2. ASSUME CountSize PROVE \E v : Decides("monitor", v)
  <2>1. PICK n \in Int : op' = [op EXCEPT !["monitor"].pc = "spawn", !["monitor"].left = n]
    <3>1. op["monitor"].left \in Int /\ Len(order) \in Int /\ MaxPoolSize \in Int
      BY <1>0, Records, WorkerPoolAssumption DEF TypeOK, OpRecords
    <3> DEFINE left == op["monitor"].left
               room == MaxPoolSize - Len(order)
               want == IF MaxPoolSize > 0 /\ left > room THEN room ELSE left
               n == IF want < 0 THEN 0 ELSE want
    <3>2. n \in Int
      BY <3>1
    <3>3. op' = [op EXCEPT !["monitor"].pc = "spawn", !["monitor"].left = n]
      BY <1>2, Zenon DEF CountSize
    <3> HIDE DEF n
    <3> QED BY <3>2, <3>3
  <2> QED BY <1>0, <1>2, <2>1, CountDecides DEF CountSize, TypeOK
<1>3. ASSUME NEW o \in Ops, SpawnFails(o) PROVE \E v : Decides(o, v)
  <2>1. op[o] \in OpRecords /\ op[o].left - 1 \in Int
    BY Records DEF OpRecords
  <2>2. op' = [op EXCEPT ![o].pc = "spawn", ![o].left = op[o].left - 1]
    <3>1. op' = [op EXCEPT ![o].left = op[o].left - 1] /\ op[o].pc = "spawn"
      BY <1>3 DEF SpawnFails
    <3>2. [op[o] EXCEPT !.left = op[o].left - 1]
            = [op[o] EXCEPT !.pc = "spawn", !.left = op[o].left - 1]
      BY <2>1, <3>1 DEF OpRecords
    <3> QED BY <3>1, <3>2, Records
  <2>3. reports' \in 0 .. MaxReports
    BY <1>3, WorkerPoolAssumption DEF SpawnFails, TypeOK
  <2> QED BY <1>3, <2>1, <2>2, <2>3, CountDecides DEF SpawnFails
<1>4. ASSUME NEW o \in Ops, Return(o) PROVE \E v : Decides(o, v)
  <2>1. PICK v : v \in {OpIdle, [OpIdle EXCEPT !.pc = "done"]} /\ op' = [op EXCEPT ![o] = v]
    BY <1>4 DEF Return
  <2>2. v.todo = {} /\ v.pc \in {"idle", "done"} /\ v \in OpRecords
    <3>1. CASE v = OpIdle
      BY <3>1, IdleTyped DEF OpIdle
    <3>2. CASE v = [OpIdle EXCEPT !.pc = "done"]
      <4>1. v.todo = {} /\ v.pc = "done"
        BY <3>2 DEF OpIdle
      <4> QED BY <3>2, <4>1, IdleTyped
    <3> QED BY <2>1, <3>1, <3>2
  <2>3. KnownBy(v) = {}
    BY <2>2 DEF KnownBy
  <2>4. Decides(o, v)
    BY <1>4, <2>1, <2>2, <2>3 DEF Return, Decides, Becomes, TypeOK
  <2> QED BY <2>4
<1>5. ASSUME NotRegistered PROVE \E v : Decides("monitor", v)
  <2>1. OpIdle \in OpRecords /\ OpIdle.pc = "idle" /\ KnownBy(OpIdle) = {}
    BY IdleTyped DEF OpIdle, KnownBy
  <2>2. Decides("monitor", OpIdle)
    BY <1>0, <1>5, <2>1 DEF NotRegistered, Decides, Becomes, TypeOK
  <2> QED BY <2>2
<1> QED BY <1>1, <1>2, <1>3, <1>4, <1>5

LEMMA UnlistSteps ==
  ASSUME TypeOK, NEW o \in Ops, Unlist(o)
  PROVE  \E v : /\ Becomes(o, v)
                /\ v.pc = "stop" /\ v.id = op[o].id /\ v.todo = op[o].todo
<1> DEFINE v == [op[o] EXCEPT !.pc = "stop"]
<1>1. op \in [Ops -> OpRecords]
  BY Records
<1>2. v \in OpRecords /\ v.pc = "stop" /\ v.id = op[o].id /\ v.todo = op[o].todo
  BY <1>1 DEF OpRecords
<1>3. op' = [op EXCEPT ![o] = v]
  BY <1>1 DEF Unlist
<1> HIDE DEF v
<1> QED BY <1>2, <1>3 DEF Becomes

LEMMA StopSteps ==
  ASSUME TypeOK, NEW o \in Ops, Stop(o)
  PROVE  \E v : /\ Becomes(o, v)
                /\ v.pc \notin {"add", "stop"}
                /\ KnownBy(v) \subseteq Known(o)
<1>1. op \in [Ops -> OpRecords] /\ op[o].todo \in SUBSET IDs
  BY Records DEF OpRecords
<1>2. ASSUME op' = [op EXCEPT ![o].pc = "spawn", ![o].id = 0]
      PROVE  \E v : /\ Becomes(o, v)
                    /\ v.pc \notin {"add", "stop"}
                    /\ KnownBy(v) \subseteq Known(o)
  <2> DEFINE v == [op[o] EXCEPT !.pc = "spawn", !.id = 0]
  <2>1. v \in OpRecords /\ v.pc = "spawn" /\ v.todo = op[o].todo
    BY <1>1, Constants DEF OpRecords
  <2>2. op' = [op EXCEPT ![o] = v]
    BY <1>1, <1>2
  <2> HIDE DEF v
  <2> QED BY <2>1, <2>2 DEF Becomes, KnownBy, Known
<1>3. ASSUME NEW v \in Ahead(op[o].todo), op' = [op EXCEPT ![o] = v]
      PROVE  /\ Becomes(o, v)
             /\ v.pc \notin {"add", "stop"}
             /\ KnownBy(v) \subseteq Known(o)
  <2>1. v \in OpRecords /\ \/ v.pc = "remove" /\ v.id \in op[o].todo /\ v.todo \subseteq op[o].todo
                           \/ v.pc = "healthy" /\ v.todo = {}
    BY <1>1, AheadFacts
  <2> QED BY <1>3, <2>1 DEF Becomes, KnownBy, Known
<1> QED BY <1>2, <1>3 DEF Stop

LEMMA SpawnSteps ==
  ASSUME TypeOK, NEW o \in Ops, Spawn(o)
  PROVE  /\ stamp \in IDs
         /\ stamp' \in Replicas .. Replicas + MaxStamps
         /\ \E v : /\ Becomes(o, v)
                   /\ v.pc = "add" /\ v.id = stamp /\ v.todo = op[o].todo
<1> DEFINE v == [op[o] EXCEPT !.pc = "add", !.id = stamp]
<1>1. op \in [Ops -> OpRecords]
  BY Records
<1>2. stamp \in IDs /\ stamp' \in Replicas .. Replicas + MaxStamps
  BY Constants DEF Spawn, TypeOK, IDs
<1>3. v \in OpRecords /\ v.pc = "add" /\ v.id = stamp /\ v.todo = op[o].todo
  BY <1>1, <1>2 DEF OpRecords
<1>4. op' = [op EXCEPT ![o] = v]
  BY <1>1 DEF Spawn
<1> HIDE DEF v
<1> QED BY <1>2, <1>3, <1>4 DEF Becomes

LEMMA AddSteps ==
  ASSUME TypeOK, NEW o \in Ops, Add(o)
  PROVE  \E v : /\ Becomes(o, v)
                /\ v.pc = "spawn" /\ v.todo = op[o].todo
<1>1. op \in [Ops -> OpRecords]
  BY Records
<1>2. PICK n \in Int : n = op[o].left - 1
  BY <1>1 DEF OpRecords
<1> DEFINE v == [op[o] EXCEPT !.pc = "spawn", !.id = 0, !.left = n]
<1>3. v \in OpRecords /\ v.pc = "spawn" /\ v.todo = op[o].todo
  BY <1>1, Constants DEF OpRecords
<1>4. op' = [op EXCEPT ![o] = v]
  BY <1>1, <1>2 DEF Add
<1> HIDE DEF v
<1> QED BY <1>3, <1>4 DEF Becomes

\* A worker is added in the state of the configuration or of the old worker.
LEMMA AddsOne ==
  ASSUME TypeOK, NEW o \in Ops, Add(o)
  PROVE  \E ok \in BOOLEAN : AddWorker(op[o].id, ok)
<1>1. op[o].ok \in BOOLEAN /\ cfg.running \in BOOLEAN
  BY Records DEF TypeOK, OpRecords
<1>2. PICK ok : ok = IF o = "monitor" THEN cfg.running ELSE op[o].ok
  OBVIOUS
<1>3. ok \in BOOLEAN
  BY <1>1, <1>2, Zenon
<1>4. AddWorker(op[o].id, ok)
  BY <1>2, Zenon DEF Add
<1> QED BY <1>3, <1>4

LEMMA ManagerTyped ==
  ASSUME TypeOK, LenInv
  PROVE  /\ \A o, v : Decides(o, v) => TypeOK'
         /\ \A o \in Ops : Unlist(o) \/ Stop(o) \/ Spawn(o) \/ Add(o) => TypeOK'
         /\ \A i \in IDs, ok \in BOOLEAN : Report(i, ok) => TypeOK'
         /\ \A i \in IDs : Exit(i) => TypeOK'
<1>1. op \in [Ops -> OpRecords]
  BY Records
<1>2. ASSUME NEW o, NEW v, Becomes(o, v)
      PROVE  op' \in [Ops -> OpRecords]
  BY <1>1, <1>2 DEF Becomes
<1>3. ASSUME NEW o, NEW v, Decides(o, v) PROVE TypeOK'
  <2>1. op' \in [Ops -> OpRecords]
    BY <1>2, <1>3 DEF Decides
  <2> QED BY <1>3, <2>1 DEF Decides, TypeOK, OpRecords
<1>4. Disturb => picks' \in [IDs -> Nat] /\ calm' = FALSE
  BY DEF Disturb
<1>5. \A o \in Ops : op[o].id \in IDs /\ op[o].ok \in BOOLEAN
  BY <1>1 DEF OpRecords
<1>6. ASSUME NEW o \in Ops, Unlist(o) PROVE TypeOK'
  <2>1. op' \in [Ops -> OpRecords]
    BY <1>2, <1>6, UnlistSteps
  <2>2. /\ RemoveWorker(op[o].id) /\ Disturb
        /\ UNCHANGED <<cfg, strategy, counter, procs, exited, stamp, req, reports>>
    BY <1>6 DEF Unlist
  <2>3. /\ order' \in Seq(IDs) /\ entry' = entry \ {op[o].id} /\ alive' \in [IDs -> BOOLEAN]
        /\ reqs' = [reqs EXCEPT ![op[o].id] = 0]
    BY <1>5, <2>2, RemoveTyped
  <2> QED BY <1>4, <2>1, <2>2, <2>3 DEF TypeOK, OpRecords
<1>7. ASSUME NEW o \in Ops, Stop(o) PROVE TypeOK'
  <2>1. op' \in [Ops -> OpRecords]
    BY <1>2, <1>7, StopSteps
  <2>2. /\ procs' = procs \ ({op[o].id} \ exited)
        /\ UNCHANGED <<cfg, strategy, order, entry, alive, reqs, counter, exited, stamp, req,
                       reports, picks, calm>>
    BY <1>7 DEF Stop
  <2>3. procs' \subseteq IDs /\ exited' \subseteq procs'
    BY <2>2 DEF TypeOK
  <2> QED BY <2>1, <2>2, <2>3 DEF TypeOK, OpRecords
<1>8. ASSUME NEW o \in Ops, Spawn(o) PROVE TypeOK'
  <2>1. op' \in [Ops -> OpRecords] /\ stamp \in IDs /\ stamp' \in Replicas .. Replicas + MaxStamps
    BY <1>2, <1>8, SpawnSteps
  <2>2. /\ procs' = procs \cup {stamp}
        /\ UNCHANGED <<cfg, strategy, order, entry, alive, reqs, counter, exited, req, reports,
                       picks, calm>>
    BY <1>8 DEF Spawn
  <2>3. procs' \subseteq IDs /\ exited' \subseteq procs'
    BY <2>1, <2>2 DEF TypeOK
  <2> QED BY <2>1, <2>2, <2>3 DEF TypeOK, OpRecords
<1>9. ASSUME NEW o \in Ops, Add(o) PROVE TypeOK'
  <2>1. op' \in [Ops -> OpRecords]
    BY <1>2, <1>9, AddSteps
  <2>2. PICK ok \in BOOLEAN :
          /\ AddWorker(op[o].id, ok) /\ Disturb
          /\ UNCHANGED <<cfg, strategy, counter, procs, exited, stamp, req, reports>>
    BY <1>9, AddsOne DEF Add
  <2>3. /\ order' \in Seq(IDs) /\ entry' = entry \cup {op[o].id} /\ alive' \in [IDs -> BOOLEAN]
        /\ reqs' = [reqs EXCEPT ![op[o].id] = 0]
    BY <1>5, <2>2, AddTyped
  <2> QED BY <1>4, <1>5, <2>1, <2>2, <2>3 DEF TypeOK, OpRecords
<1>10. ASSUME NEW i \in IDs, NEW ok \in BOOLEAN, Report(i, ok) PROVE TypeOK'
  <2>1. /\ Disturb
        /\ UNCHANGED <<cfg, strategy, order, entry, reqs, counter, procs, exited, stamp, op, req>>
    BY <1>10 DEF Report
  <2>2. reports' \in 0 .. MaxReports
    BY <1>10, WorkerPoolAssumption DEF Report, TypeOK
  <2>3. alive' \in [IDs -> BOOLEAN]
    BY <1>10 DEF Report, TypeOK
  <2> QED BY <1>4, <2>1, <2>2, <2>3 DEF TypeOK
<1>11. ASSUME NEW i \in IDs, Exit(i) PROVE TypeOK'
  <2>1. reports' \in 0 .. MaxReports
    BY <1>11, WorkerPoolAssumption DEF Exit, TypeOK
  <2> QED BY <1>11, <2>1 DEF Exit, TypeOK
<1> QED BY <1>3, <1>6, <1>7, <1>8, <1>9, <1>10, <1>11

-----------------------------------------------------------------------------
(* The invariant *)

\* The steps, by what they do to the pool and the processes.
LEMMA Steps ==
  ASSUME TypeOK, LenInv, [Next]_vars
  PROVE  \/ \E r \in Requests : Dispatch(r)
         \/ \E i \in IDs, ok \in BOOLEAN : Report(i, ok)
         \/ \E i \in IDs : Exit(i)
         \/ \E o \in Ops : \E v : Decides(o, v)
         \/ \E o \in Ops : Unlist(o)
         \/ \E o \in Ops : Stop(o)
         \/ \E o \in Ops : Spawn(o)
         \/ \E o \in Ops : Add(o)
         \/ UNCHANGED vars
<1>0. "monitor" \in Ops
  BY DEF Ops
<1>1. ASSUME NEW o \in Ops, NEW i \in IDs, Replace(o, i) PROVE \E v : Decides(o, v)
  BY <1>1, ReplaceDecides
<1>2. ASSUME Monitor \/ NotRegistered \/ CountHealthy \/ CountSize
      PROVE  \E v : Decides("monitor", v)
  BY <1>2, MonitorDecides, OthersDecide
<1>3. ASSUME NEW o \in Ops, Step(o)
      PROVE  Unlist(o) \/ Stop(o) \/ Spawn(o) \/ Add(o) \/ \E v : Decides(o, v)
  BY <1>3, OthersDecide DEF Step
<1> QED BY <1>0, <1>1, <1>2, <1>3 DEF Next

LEMMA TypeStep ==
  ASSUME TypeOK, LenInv, CountIsRequests, [Next]_vars
  PROVE  TypeOK'
<1>1. CASE UNCHANGED vars
  BY <1>1 DEF vars, TypeOK
<1> QED BY <1>1, Steps, DispatchTyped, ManagerTyped

LEMMA LenStep ==
  ASSUME TypeOK, LenInv, [Next]_vars
  PROVE  LenInv'
<1>1. op \in [Ops -> OpRecords] /\ Len(order) \in Nat /\ stamp \in Nat
  BY Records, Constants DEF TypeOK
<1>2. ASSUME NEW o \in Ops, NEW v, Becomes(o, v),
             (op[o].pc = "add") = (v.pc = "add")
      PROVE  Adders' = Adders
  BY <1>1, <1>2 DEF Becomes, Adders
<1>3. CASE UNCHANGED <<order, op, stamp>>
  BY <1>3 DEF LenInv, Adders
<1>4. ASSUME NEW o \in Ops, NEW v, Decides(o, v) PROVE LenInv'
  <2>1. Adders' = Adders
    BY <1>2, <1>4 DEF Decides
  <2> QED BY <1>4, <2>1 DEF LenInv, Decides
<1>5. ASSUME NEW o \in Ops, Unlist(o) PROVE LenInv'
  <2>1. Adders' = Adders
    BY <1>2, <1>5, UnlistSteps DEF Unlist
  <2>2. Len(order') \in Nat /\ Len(order') <= Len(order) /\ stamp' = stamp
    <3>1. op[o].id \in IDs
      BY <1>1 DEF OpRecords
    <3> QED BY <1>5, <3>1, RemoveTyped DEF Unlist
  <2> QED BY <1>1, <2>1, <2>2, AddersFinite DEF LenInv
<1>6. ASSUME NEW o \in Ops, Stop(o) PROVE LenInv'
  <2>1. Adders' = Adders
    BY <1>2, <1>6, StopSteps DEF Stop
  <2> QED BY <1>6, <2>1 DEF LenInv, Stop
<1>7. ASSUME NEW o \in Ops, Spawn(o) PROVE LenInv'
  <2>1. Adders' = Adders \cup {o} /\ o \notin Adders
    BY <1>1, <1>7, SpawnSteps DEF Becomes, Adders, Spawn
  <2>2. Cardinality(Adders') = Cardinality(Adders) + 1
    BY <2>1, AddersFinite, FS_AddElement
  <2>3. stamp' = stamp + 1 /\ order' = order
    BY <1>7 DEF Spawn
  <2> QED BY <1>1, <2>2, <2>3, AddersFinite DEF LenInv
<1>8. ASSUME NEW o \in Ops, Add(o) PROVE LenInv'
  <2>1. Adders' = Adders \ {o} /\ o \in Adders
    BY <1>1, <1>8, AddSteps DEF Becomes, Adders, Add
  <2>2. Cardinality(Adders') = Cardinality(Adders) - 1
    BY <2>1, AddersFinite, FS_RemoveElement
  <2>3. stamp' = stamp /\ Len(order') = Len(order) + 1
    <3>1. op[o].id \in IDs
      BY <1>1 DEF OpRecords
    <3>2. PICK ok \in BOOLEAN : AddWorker(op[o].id, ok)
      BY <1>8, AddsOne
    <3> QED BY <1>8, <3>1, <3>2, AddTyped DEF Add
  <2> QED BY <1>1, <2>2, <2>3, AddersFinite DEF LenInv
<1>9. ASSUME NEW r \in Requests, Dispatch(r) PROVE LenInv'
  BY <1>3, <1>9, DispatchFrame
<1>10. ASSUME NEW i \in IDs, Exit(i) \/ \E ok \in BOOLEAN : Report(i, ok) PROVE LenInv'
  BY <1>3, <1>10 DEF Report, Exit
<1>11. CASE UNCHANGED vars
  BY <1>3, <1>11 DEF vars
<1> QED BY <1>4, <1>5, <1>6, <1>7, <1>8, <1>9, <1>10, <1>11, Steps

\* An operation's step leaves the others as they are.
LEMMA OneMoves ==
  ASSUME TypeOK, NEW o, NEW v, Becomes(o, v)
  PROVE  /\ op'[o] = v /\ Known(o)' = KnownBy(v)
         /\ \A p \in Ops : p # o => op'[p] = op[p] /\ Known(p)' = Known(p)
<1>1. op \in [Ops -> OpRecords]
  BY Records
<1>2. op'[o] = v /\ \A p \in Ops : p # o => op'[p] = op[p]
  BY <1>1 DEF Becomes
<1> QED BY <1>2 DEF Known, KnownBy

LEMMA KnownStep ==
  ASSUME TypeOK, LenInv, KnownInv, [Next]_vars
  PROVE  KnownInv'
<1>1. stamp \in Nat /\ \A o \in Ops : op[o].id \in IDs /\ op[o].ok \in BOOLEAN
  BY Records, Constants DEF TypeOK, OpRecords
<1>2. CASE UNCHANGED <<entry, procs, stamp, op>>
  BY <1>2 DEF KnownInv, Known, Adders
<1>3. ASSUME NEW o \in Ops, NEW v, Decides(o, v) PROVE KnownInv'
  <2>1. Becomes(o, v) /\ UNCHANGED <<entry, procs, stamp>>
    BY <1>3 DEF Decides
  <2>2. op'[o] = v /\ Known(o)' \subseteq entry \cup Known(o)
    BY <1>3, <2>1, OneMoves DEF Decides
  <2>3. \A p \in Ops : p # o => op'[p] = op[p] /\ Known(p)' = Known(p)
    BY <2>1, OneMoves
  <2>4. Adders' = Adders /\ o \notin Adders
    BY <1>3, <2>2, <2>3 DEF Adders, Decides
  <2>5. \A p \in Ops : Known(p)' \subseteq 0 .. stamp - 1
    BY <2>2, <2>3 DEF KnownInv
  <2>6. \A p \in Ops : op'[p].pc = "stop" => op'[p].id \notin entry
    BY <1>3, <2>2, <2>3 DEF KnownInv, Decides
  <2>7. \A p \in Adders : op'[p].id \in (procs \ entry) \ Base
    BY <2>3, <2>4 DEF KnownInv, Adders
  <2>8. \A p \in Adders, q \in Ops : p # q =>
          op'[p].id \notin Known(q)' /\ (q \in Adders => op'[p].id # op'[q].id)
    BY <2>2, <2>3, <2>4, <2>7 DEF KnownInv, Adders
  <2> QED BY <2>1, <2>4, <2>5, <2>6, <2>7, <2>8 DEF KnownInv
<1>4. ASSUME NEW o \in Ops, Unlist(o) PROVE KnownInv'
  <2>1. PICK v : Becomes(o, v) /\ v.pc = "stop" /\ v.id = op[o].id /\ v.todo = op[o].todo
    BY <1>4, UnlistSteps
  <2>2. op[o].pc = "remove" /\ entry' = entry \ {op[o].id} /\ UNCHANGED <<procs, stamp>>
    BY <1>4 DEF Unlist, RemoveWorker
  <2>3. op'[o] = v /\ Known(o)' = Known(o)
    BY <2>1, <2>2, OneMoves DEF Known, KnownBy
  <2>4. \A p \in Ops : p # o => op'[p] = op[p] /\ Known(p)' = Known(p)
    BY <2>1, OneMoves
  <2>5. Adders' = Adders /\ o \notin Adders
    BY <2>1, <2>2, <2>3, <2>4 DEF Adders
  <2>6. \A p \in Ops : Known(p)' \subseteq 0 .. stamp - 1
    BY <2>3, <2>4 DEF KnownInv
  <2>7. \A p \in Ops : op'[p].pc = "stop" => op'[p].id \notin entry'
    BY <2>1, <2>2, <2>3, <2>4 DEF KnownInv
  <2>8. \A p \in Adders : op'[p].id \in (procs \ entry') \ Base
    BY <2>2, <2>4, <2>5 DEF KnownInv, Adders
  <2>9. \A p \in Adders, q \in Ops : p # q =>
          op'[p].id \notin Known(q)' /\ (q \in Adders => op'[p].id # op'[q].id)
    BY <2>3, <2>4, <2>5 DEF KnownInv, Adders
  <2> QED BY <2>2, <2>5, <2>6, <2>7, <2>8, <2>9 DEF KnownInv
<1>5. ASSUME NEW o \in Ops, Stop(o) PROVE KnownInv'
  <2>1. PICK v : Becomes(o, v) /\ v.pc \notin {"add", "stop"} /\ KnownBy(v) \subseteq Known(o)
    BY <1>5, StopSteps
  <2>2. op[o].pc = "stop" /\ procs' = procs \ ({op[o].id} \ exited) /\ UNCHANGED <<entry, stamp>>
    BY <1>5 DEF Stop
  <2>3. op'[o] = v /\ Known(o)' \subseteq Known(o)
    BY <2>1, OneMoves
  <2>4. \A p \in Ops : p # o => op'[p] = op[p] /\ Known(p)' = Known(p)
    BY <2>1, OneMoves
  <2>5. Adders' = Adders /\ o \notin Adders
    BY <2>1, <2>2, <2>3, <2>4 DEF Adders
  <2>6. \A p \in Ops : Known(p)' \subseteq 0 .. stamp - 1
    BY <2>3, <2>4 DEF KnownInv
  <2>7. \A p \in Ops : op'[p].pc = "stop" => op'[p].id \notin entry
    BY <2>1, <2>3, <2>4 DEF KnownInv
  <2>8. op[o].id \notin entry /\ op[o].id \in Known(o)
    BY <2>2 DEF KnownInv, Known
  <2>9. \A p \in Adders : op'[p].id \in (procs' \ entry) \ Base
    BY <2>2, <2>4, <2>5, <2>8 DEF KnownInv, Adders
  <2>10. \A p \in Adders, q \in Ops : p # q =>
           op'[p].id \notin Known(q)' /\ (q \in Adders => op'[p].id # op'[q].id)
    BY <2>3, <2>4, <2>5 DEF KnownInv, Adders
  <2>11. entry \subseteq procs' /\ procs' \subseteq 0 .. stamp - 1
    BY <2>2, <2>8 DEF KnownInv
  <2> QED BY <2>2, <2>5, <2>6, <2>7, <2>9, <2>10, <2>11 DEF KnownInv
<1>6. ASSUME NEW o \in Ops, Spawn(o) PROVE KnownInv'
  <2>1. PICK v : Becomes(o, v) /\ v.pc = "add" /\ v.id = stamp /\ v.todo = op[o].todo
    BY <1>6, SpawnSteps
  <2>2. op[o].pc = "spawn" /\ procs' = procs \cup {stamp} /\ stamp' = stamp + 1 /\ entry' = entry
    BY <1>6 DEF Spawn
  <2>3. op'[o] = v /\ Known(o)' = Known(o)
    BY <2>1, <2>2, OneMoves DEF Known, KnownBy
  <2>4. \A p \in Ops : p # o => op'[p] = op[p] /\ Known(p)' = Known(p)
    BY <2>1, OneMoves
  <2>5. Adders' = Adders \cup {o} /\ o \notin Adders
    BY <2>1, <2>2, <2>3, <2>4 DEF Adders
  <2>6. \A p \in Ops : Known(p)' \subseteq 0 .. stamp' - 1
    BY <1>1, <2>2, <2>3, <2>4 DEF KnownInv
  <2>7. \A p \in Ops : op'[p].pc = "stop" => op'[p].id \notin entry
    BY <2>1, <2>3, <2>4 DEF KnownInv
  <2>8. stamp \notin procs /\ stamp \notin entry /\ \A p \in Ops : stamp \notin Known(p)
    BY <1>1 DEF KnownInv
  <2>9. stamp \notin Base
    BY Constants DEF Base, TypeOK
  <2>10. \A p \in Adders' : op'[p].id \in (procs' \ entry) \ Base
    BY <2>1, <2>2, <2>3, <2>4, <2>5, <2>8, <2>9 DEF KnownInv, Adders
  <2>11. \A p \in Adders', q \in Ops : p # q =>
           op'[p].id \notin Known(q)' /\ (q \in Adders' => op'[p].id # op'[q].id)
    BY <2>1, <2>3, <2>4, <2>5, <2>8 DEF KnownInv, Adders
  <2>12. entry \subseteq procs' /\ procs' \subseteq 0 .. stamp' - 1
    BY <1>1, <2>2 DEF KnownInv
  <2> QED BY <2>2, <2>6, <2>7, <2>10, <2>11, <2>12 DEF KnownInv
<1>7. ASSUME NEW o \in Ops, Add(o) PROVE KnownInv'
  <2>1. PICK v : Becomes(o, v) /\ v.pc = "spawn" /\ v.todo = op[o].todo
    BY <1>7, AddSteps
  <2>2. op[o].pc = "add" /\ entry' = entry \cup {op[o].id} /\ UNCHANGED <<procs, stamp>>
    BY <1>7 DEF Add, AddWorker
  <2>3. op'[o] = v /\ Known(o)' = Known(o)
    BY <2>1, <2>2, OneMoves DEF Known, KnownBy
  <2>4. \A p \in Ops : p # o => op'[p] = op[p] /\ Known(p)' = Known(p)
    BY <2>1, OneMoves
  <2>5. Adders' = Adders \ {o} /\ o \in Adders
    BY <2>1, <2>2, <2>3, <2>4 DEF Adders
  <2>6. \A p \in Ops : Known(p)' \subseteq 0 .. stamp - 1
    BY <2>3, <2>4 DEF KnownInv
  <2>7. \A p \in Ops : op'[p].pc = "stop" => op'[p].id \notin entry'
    <3> SUFFICES ASSUME NEW p \in Ops, op'[p].pc = "stop" PROVE op'[p].id \notin entry'
      OBVIOUS
    <3>1. p # o /\ op'[p] = op[p] /\ op[p].id \in Known(p)
      BY <2>1, <2>3, <2>4 DEF Known
    <3> QED BY <2>2, <2>5, <3>1 DEF KnownInv
  <2>8. \A p \in Adders' : op'[p].id \in (procs \ entry') \ Base
    BY <2>2, <2>4, <2>5 DEF KnownInv, Adders
  <2>9. \A p \in Adders', q \in Ops : p # q =>
          op'[p].id \notin Known(q)' /\ (q \in Adders' => op'[p].id # op'[q].id)
    BY <2>3, <2>4, <2>5 DEF KnownInv, Adders
  <2>10. entry' \subseteq procs
    BY <2>2, <2>5 DEF KnownInv
  <2>11. procs \subseteq 0 .. stamp - 1
    BY DEF KnownInv
  <2> QED BY <2>2, <2>6, <2>7, <2>8, <2>9, <2>10, <2>11 DEF KnownInv
<1>8. ASSUME NEW r \in Requests, Dispatch(r) PROVE KnownInv'
  BY <1>2, <1>8, DispatchFrame
<1>9. ASSUME NEW i \in IDs, Exit(i) \/ \E ok \in BOOLEAN : Report(i, ok) PROVE KnownInv'
  BY <1>2, <1>9 DEF Report, Exit
<1>10. CASE UNCHANGED vars
  BY <1>2, <1>10 DEF vars
<1> QED BY <1>3, <1>4, <1>5, <1>6, <1>7, <1>8, <1>9, <1>10, Steps

LEMMA LostStep ==
  ASSUME TypeOK, LenInv, KnownInv, NoProcessLost, [Next]_vars
  PROVE  NoProcessLost'
<1>0. (entry \subseteq procs)'
  BY KnownStep DEF KnownInv
<1> SUFFICES ASSUME NEW i \in procs' \ exited' PROVE i \in entry' \/ i \in InHand'
  BY <1>0 DEF NoProcessLost
<1>1. i \in procs \ exited =>
        i \in entry \/ \E p \in Ops : op[p].pc \in {"add", "stop"} /\ i = op[p].id
  BY DEF NoProcessLost, InHand
<1>2. (\E p \in Ops : op'[p].pc \in {"add", "stop"} /\ i = op'[p].id) => i \in InHand'
  BY DEF InHand
<1>3. CASE UNCHANGED <<entry, procs, op>> /\ exited \subseteq exited'
  BY <1>1, <1>2, <1>3
<1>4. ASSUME NEW o \in Ops, NEW v, Decides(o, v) PROVE i \in entry' \/ i \in InHand'
  <2>1. Becomes(o, v) /\ UNCHANGED <<entry, procs, exited>> /\ op[o].pc \notin {"add", "stop"}
    BY <1>4 DEF Decides
  <2> QED BY <1>1, <1>2, <2>1, OneMoves
<1>5. ASSUME NEW o \in Ops, Unlist(o) PROVE i \in entry' \/ i \in InHand'
  <2>1. PICK v : Becomes(o, v) /\ v.pc = "stop" /\ v.id = op[o].id
    BY <1>5, UnlistSteps
  <2>2. op[o].pc = "remove" /\ entry' = entry \ {op[o].id} /\ UNCHANGED <<procs, exited>>
    BY <1>5 DEF Unlist, RemoveWorker
  <2> QED BY <1>1, <1>2, <2>1, <2>2, OneMoves
<1>6. ASSUME NEW o \in Ops, Stop(o) PROVE i \in entry' \/ i \in InHand'
  <2>1. PICK v : Becomes(o, v)
    BY <1>6, StopSteps
  <2>2. /\ op[o].pc = "stop" /\ procs' = procs \ ({op[o].id} \ exited)
        /\ UNCHANGED <<entry, exited>>
    BY <1>6 DEF Stop
  <2> QED BY <1>1, <1>2, <2>1, <2>2, OneMoves
<1>7. ASSUME NEW o \in Ops, Spawn(o) PROVE i \in entry' \/ i \in InHand'
  <2>1. PICK v : Becomes(o, v) /\ v.pc = "add" /\ v.id = stamp
    BY <1>7, SpawnSteps
  <2>2. op[o].pc = "spawn" /\ procs' = procs \cup {stamp} /\ UNCHANGED <<entry, exited>>
    BY <1>7 DEF Spawn
  <2> QED BY <1>1, <1>2, <2>1, <2>2, OneMoves
<1>8. ASSUME NEW o \in Ops, Add(o) PROVE i \in entry' \/ i \in InHand'
  <2>1. PICK v : Becomes(o, v)
    BY <1>8, AddSteps
  <2>2. op[o].pc = "add" /\ entry' = entry \cup {op[o].id} /\ UNCHANGED <<procs, exited>>
    BY <1>8 DEF Add, AddWorker
  <2> QED BY <1>1, <1>2, <2>1, <2>2, OneMoves
<1>9. ASSUME NEW r \in Requests, Dispatch(r) PROVE i \in entry' \/ i \in InHand'
  BY <1>3, <1>9, DispatchFrame
<1>10. ASSUME NEW j \in IDs, Exit(j) \/ \E ok \in BOOLEAN : Report(j, ok)
       PROVE  i \in entry' \/ i \in InHand'
  BY <1>3, <1>10 DEF Report, Exit
<1>11. CASE UNCHANGED vars
  BY <1>3, <1>11 DEF vars
<1> QED BY <1>4, <1>5, <1>6, <1>7, <1>8, <1>9, <1>10, <1>11, Steps

-----------------------------------------------------------------------------
(* The requests that are counted *)

\* A dispatch that is not about to count, or to count off, changes neither.
LEMMA SelectionCountsNone ==
  ASSUME TypeOK, LenInv, NEW r \in Requests,
         List(r) \/ PickRoundRobin(r) \/ Advance(r) \/ Compare(r) \/ PickLeastLoaded(r)
  PROVE  /\ reqs' = reqs
         /\ \A i : Counted(i)' = Counted(i)
<1>1. req \in [Requests -> ReqRecords]
  BY Records
<1>2. reqs' = reqs /\ req[r].pc # "counted"
  BY DEF List, PickRoundRobin, Advance, Compare, PickLeastLoaded
<1>3. req'[r].pc # "counted" /\ \A q \in Requests : q # r => req'[q] = req[q]
  <2>1. CASE List(r)
    <3>1. PICK w \in ReqRecords :
            /\ req' = [req EXCEPT ![r] = w]
            /\ w.pc = "selected" \/ (w.pc = "listed" /\ w.seen = HealthyWorkers)
      BY <2>1, ListSteps
    <3> QED BY <1>1, <3>1
  <2>2. CASE PickRoundRobin(r)
    BY <1>1, <2>2 DEF PickRoundRobin, ReqRecords
  <2>3. CASE Advance(r)
    BY <1>1, <2>3 DEF Advance, ReqAt, ReqRecords
  <2>4. CASE Compare(r)
    <3>1. PICK w : req' = [req EXCEPT ![r] = w] /\ w.pc = "listed"
      BY <2>4, CompareSteps
    <3> QED BY <1>1, <3>1
  <2>5. CASE PickLeastLoaded(r)
    BY <1>1, <2>5 DEF PickLeastLoaded, ReqAt, ReqRecords
  <2> QED BY <2>1, <2>2, <2>3, <2>4, <2>5
<1>4. \A i : Counted(i)' = Counted(i)
  BY <1>2, <1>3 DEF Counted
<1> QED BY <1>2, <1>4

LEMMA CountStep ==
  ASSUME TypeOK, LenInv, KnownInv, CountIsRequests, [Next]_vars
  PROVE  CountIsRequests'
<1>1. req \in [Requests -> ReqRecords] /\ reqs \in [IDs -> Nat] /\ entry \subseteq IDs
  BY Records DEF TypeOK
<1>2. \A o \in Ops : op[o].id \in IDs
  BY Records DEF OpRecords
<1>3. CASE UNCHANGED <<entry, reqs, req>>
  BY <1>3 DEF CountIsRequests, Counted
<1>4. ASSUME NEW r \in Requests, Dispatch(r) PROVE CountIsRequests'
  <2>0. UNCHANGED entry
    BY <1>4, DispatchFrame
  <2>1. CASE List(r) \/ PickRoundRobin(r) \/ Advance(r) \/ Compare(r) \/ PickLeastLoaded(r)
    <3>1. reqs' = reqs /\ \A i : Counted(i)' = Counted(i)
      BY <2>1, SelectionCountsNone
    <3> QED BY <2>0, <3>1 DEF CountIsRequests
  <2>2. PICK i \in IDs : i = req[r].at
    BY <1>1 DEF ReqRecords
  <2>3. CASE Increment(r)
    <3>1. req'[r].pc = "counted" /\ req'[r].at = i /\ \A q \in Requests : q # r => req'[q] = req[q]
      BY <1>1, <2>2, <2>3 DEF Increment, ReqIdle
    <3>2. req[r].pc = "selected"
      BY <2>3 DEF Increment
    <3>3. /\ Counted(i)' = Counted(i) \cup {r} /\ r \notin Counted(i)
          /\ \A j : j # i => Counted(j)' = Counted(j)
      BY <3>1, <3>2 DEF Counted
    <3>4. Cardinality(Counted(i)') = Cardinality(Counted(i)) + 1
      BY <3>3, CountedFinite, FS_AddElement
    <3>5. reqs' = IF HasPool(i) /\ i \in entry THEN [reqs EXCEPT ![i] = @ + 1] ELSE reqs
      BY <2>2, <2>3 DEF Increment, Count
    <3>6. ASSUME NEW j \in entry PROVE reqs'[j] = IF HasPool(j) THEN Cardinality(Counted(j)') ELSE 0
      <4>1. reqs[j] = IF HasPool(j) THEN Cardinality(Counted(j)) ELSE 0
        BY DEF CountIsRequests
      <4>2. CASE j = i
        BY <1>1, <3>4, <3>5, <4>1, <4>2
      <4>3. CASE j # i
        BY <1>1, <3>3, <3>5, <4>1, <4>3
      <4> QED BY <4>2, <4>3
    <3> QED BY <2>0, <3>6 DEF CountIsRequests, HasPool
  <2>4. CASE Decrement(r)
    <3>1. req'[r].pc = "done" /\ \A q \in Requests : q # r => req'[q] = req[q]
      BY <1>1, <2>4 DEF Decrement, ReqIdle
    <3>2. req[r].pc = "counted"
      BY <2>4 DEF Decrement
    <3>3. /\ Counted(i)' = Counted(i) \ {r} /\ r \in Counted(i)
          /\ \A j : j # i => Counted(j)' = Counted(j)
      BY <2>2, <3>1, <3>2 DEF Counted
    <3>4. Cardinality(Counted(i)') = Cardinality(Counted(i)) - 1
      BY <3>3, CountedFinite, FS_RemoveElement
    <3>5. reqs' = IF HasPool(i) /\ i \in entry THEN [reqs EXCEPT ![i] = @ + -1] ELSE reqs
      BY <2>2, <2>4 DEF Decrement, Count
    <3>6. ASSUME NEW j \in entry PROVE reqs'[j] = IF HasPool(j) THEN Cardinality(Counted(j)') ELSE 0
      <4>1. reqs[j] = IF HasPool(j) THEN Cardinality(Counted(j)) ELSE 0
        BY DEF CountIsRequests
      <4>2. CASE j = i
        <5>1. Cardinality(Counted(i)) \in Nat
          BY CountedFinite
        <5> QED BY <1>1, <3>4, <3>5, <4>1, <4>2, <5>1
      <4>3. CASE j # i
        BY <1>1, <3>3, <3>5, <4>1, <4>3
      <4> QED BY <4>2, <4>3
    <3> QED BY <2>0, <3>6 DEF CountIsRequests, HasPool
  <2> QED BY <1>4, <2>1, <2>3, <2>4 DEF Dispatch
<1>5. ASSUME NEW o \in Ops, Unlist(o) PROVE CountIsRequests'
  <2>1. entry' = entry \ {op[o].id} /\ reqs' = [reqs EXCEPT ![op[o].id] = 0] /\ req' = req
    BY <1>5 DEF Unlist, RemoveWorker
  <2> QED BY <1>1, <1>2, <2>1 DEF CountIsRequests, Counted
<1>6. ASSUME NEW o \in Ops, Add(o) PROVE CountIsRequests'
  <2>1. entry' = entry \cup {op[o].id} /\ reqs' = [reqs EXCEPT ![op[o].id] = 0] /\ req' = req
    BY <1>6 DEF Add, AddWorker
  <2>2. op[o].id \notin Base
    BY <1>6 DEF Add, KnownInv, Adders
  <2> QED BY <1>1, <1>2, <2>1, <2>2 DEF CountIsRequests, Counted, HasPool
<1>7. ASSUME NEW o \in Ops, NEW v, Decides(o, v) PROVE CountIsRequests'
  BY <1>3, <1>7 DEF Decides
<1>8. ASSUME NEW o \in Ops, Stop(o) \/ Spawn(o) PROVE CountIsRequests'
  BY <1>3, <1>8 DEF Stop, Spawn
<1>9. ASSUME NEW i \in IDs, Exit(i) \/ \E ok \in BOOLEAN : Report(i, ok)
      PROVE  CountIsRequests'
  BY <1>3, <1>9 DEF Report, Exit
<1>10. CASE UNCHANGED vars
  BY <1>3, <1>10 DEF vars
<1> QED BY <1>4, <1>5, <1>6, <1>7, <1>8, <1>9, <1>10, Steps

LEMMA FirstFacts == First \in Nat /\ First > 0 /\ First <= Replicas
BY WorkerPoolAssumption DEF First

LEMMA InitPool == Init => PoolInv
<1> SUFFICES ASSUME Init PROVE PoolInv
  OBVIOUS
<1>1. /\ order = [i \in 1 .. First |-> i - 1] /\ entry = 0 .. First - 1
      /\ procs = 0 .. First - 1 /\ exited = {} /\ stamp = Replicas
      /\ cfg \in [running : BOOLEAN, registered : BOOLEAN]
      /\ alive = [i \in IDs |-> cfg.running /\ i < First] /\ reqs = [i \in IDs |-> 0]
      /\ op = [o \in Ops |-> OpIdle] /\ req = [r \in Requests |-> ReqIdle]
      /\ counter = 0 /\ reports = 0 /\ picks = [i \in IDs |-> 0] /\ calm = cfg.running
      /\ strategy \in Strategies
  BY DEF Init, First
<1>2. 0 .. First - 1 \subseteq IDs
  BY FirstFacts, Constants DEF IDs
<1>3. order \in Seq(IDs) /\ Len(order) = First
  <2>1. \A i \in 1 .. First : i - 1 \in IDs
    BY FirstFacts, Constants DEF IDs
  <2>2. order \in [1 .. First -> IDs]
    BY <1>1, <2>1
  <2> QED BY <2>2, FirstFacts
<1>4. op \in [Ops -> OpRecords] /\ req \in [Requests -> ReqRecords]
  BY <1>1, IdleTyped
<1>5. alive \in [IDs -> BOOLEAN] /\ picks \in [IDs -> Nat] /\ reqs \in [IDs -> Nat]
  BY <1>1
<1>6. TypeOK
  <2>1. stamp \in Replicas .. Replicas + MaxStamps
    BY <1>1, Constants
  <2>2. reports \in 0 .. MaxReports /\ counter \in Nat /\ calm \in BOOLEAN
    BY <1>1, WorkerPoolAssumption
  <2> QED BY <1>1, <1>2, <1>3, <1>4, <1>5, <2>1, <2>2 DEF TypeOK, OpRecords, ReqRecords
<1>7. \A o \in Ops : op[o].pc = "idle" /\ op[o].todo = {}
  BY <1>1 DEF OpIdle
<1>8. LenInv
  <2>1. Adders = {}
    BY <1>7 DEF Adders
  <2>2. Cardinality(Adders) = 0
    BY <2>1, FS_EmptySet
  <2> QED BY <1>1, <1>3, <2>2, FirstFacts, Constants DEF LenInv
<1>9. KnownInv
  <2>1. \A o \in Ops : Known(o) = {}
    BY <1>7 DEF Known
  <2>2. procs \subseteq 0 .. stamp - 1
    BY <1>1, FirstFacts, Constants
  <2> QED BY <1>1, <1>7, <2>1, <2>2 DEF KnownInv, Adders
<1>10. NoProcessLost
  BY <1>1 DEF NoProcessLost
<1>11. CountIsRequests
  <2>1. ASSUME NEW i \in entry PROVE Cardinality(Counted(i)) = 0 /\ reqs[i] = 0
    <3>1. Counted(i) = {}
      BY <1>1 DEF Counted, ReqIdle
    <3> QED BY <1>1, <1>2, <3>1, FS_EmptySet
  <2> QED BY <2>1 DEF CountIsRequests
<1> QED BY <1>6, <1>8, <1>9, <1>10, <1>11 DEF PoolInv

LEMMA PoolStep == PoolInv /\ [Next]_vars => PoolInv'
<1> SUFFICES ASSUME PoolInv, [Next]_vars PROVE PoolInv'
  OBVIOUS
<1>1. TypeOK /\ LenInv /\ KnownInv /\ NoProcessLost /\ CountIsRequests
  BY DEF PoolInv
<1>2. TypeOK' /\ LenInv' /\ KnownInv' /\ NoProcessLost' /\ CountIsRequests'
  BY <1>1, TypeStep, LenStep, KnownStep, LostStep, CountStep
<1> QED BY <1>2 DEF PoolInv

LEMMA PoolInvariant == Spec => []PoolInv
BY InitPool, PoolStep, PTL DEF Spec

\* The variables of the pool keep their types: no count of active requests goes
\* below zero, and the list never outgrows the IDs there are.
THEOREM WorkerPoolTypeCorrect == Spec => []TypeOK
<1>1. PoolInv => TypeOK
  BY DEF PoolInv
<1> QED BY <1>1, PoolInvariant, PTL

\* However ReplaceWorker and MonitorHealth overlap, and however many calls there
\* are, each process is listed or in the hands of an operation, and no listed
\* worker is without its process.
THEOREM ProcessesAreKept == Spec => []NoProcessLost
<1>1. PoolInv => NoProcessLost
  BY DEF PoolInv
<1> QED BY <1>1, PoolInvariant, PTL

\* However requests are counted on and off while workers are replaced, the count
\* of a replica of SpawnWorkers is that of the requests it has.
THEOREM RequestsAreCounted == Spec => []CountIsRequests
<1>1. PoolInv => CountIsRequests
  BY DEF PoolInv
<1> QED BY <1>1, PoolInvariant, PTL

-----------------------------------------------------------------------------
(* The size of the pool *)

\* The workers the monitor is still going to add.
Coming == IF op["monitor"].pc \in {"spawn", "add"} THEN op["monitor"].left ELSE 0

\* A call of ReplaceWorker adds one worker; the monitor does not count below 0.
LeftInv ==
  /\ \A o \in Replacers :
       /\ op[o].pc \in {"remove", "stop", "add"} => op[o].left = 1
       /\ op[o].pc = "spawn" => op[o].left \in {0, 1}
  /\ op["monitor"].pc = "spawn" => op["monitor"].left >= 0
  /\ op["monitor"].pc = "add" => op["monitor"].left >= 1

SizeInv == MaxPoolSize > 0 => Len(order) + Coming <= MaxPoolSize + Cardinality(Replaced)

LEMMA SizeTypes ==
  ASSUME TypeOK
  PROVE  /\ IsFiniteSet(Replaced) /\ Cardinality(Replaced) \in Nat
         /\ Len(order) \in Nat /\ Coming \in Int /\ MaxPoolSize \in Nat
         /\ op["monitor"].left \in Int
<1>1. Replaced \in SUBSET Replacers /\ IsFiniteSet(Replacers) /\ MaxPoolSize \in Nat
  BY WorkerPoolAssumption DEF Replaced
<1>2. IsFiniteSet(Replaced) /\ Cardinality(Replaced) \in Nat
  BY <1>1, FS_Subset, FS_CardinalityType
<1>3. op["monitor"].left \in Int /\ Len(order) \in Nat
  BY Records DEF TypeOK, OpRecords, Ops
<1> QED BY <1>1, <1>2, <1>3 DEF Coming

\* A call of ReplaceWorker takes a step: when the list grows, the call is over.
LEMMA ReplacerSize ==
  ASSUME TypeOK, TypeOK', LeftInv, SizeInv, NEW o \in Replacers,
         \A p \in Ops : p # o => op'[p] = op[p],
         op'[o].pc \in {"remove", "stop", "add"} => op'[o].left = 1,
         op'[o].pc = "spawn" => op'[o].left \in {0, 1},
         o \in Replaced => o \in Replaced',
         \/ Len(order') <= Len(order)
         \/ Len(order') = Len(order) + 1 /\ o \in Replaced' \ Replaced
  PROVE  LeftInv' /\ SizeInv'
<1>1. o # "monitor" /\ \A p \in Replacers : p \in Ops /\ (p # o => op'[p] = op[p])
  BY WorkerPoolAssumption DEF Ops
<1>2. op'["monitor"] = op["monitor"] /\ Coming' = Coming
  BY <1>1 DEF Ops, Coming
<1>3. LeftInv'
  BY <1>1, <1>2 DEF LeftInv
<1>4. /\ Len(order') \in Nat /\ Len(order) \in Nat /\ Coming \in Int /\ MaxPoolSize \in Nat
      /\ Cardinality(Replaced) \in Nat /\ IsFiniteSet(Replaced)
  BY SizeTypes DEF TypeOK
<1>5. \A p \in Replacers : p # o => (p \in Replaced <=> p \in Replaced')
  BY <1>1 DEF Replaced
<1>6. CASE o \in Replaced' \ Replaced
  <2>1. Replaced' = Replaced \cup {o} /\ o \notin Replaced
    BY <1>5, <1>6 DEF Replaced
  <2>2. Cardinality(Replaced') = Cardinality(Replaced) + 1
    BY <1>4, <2>1, FS_AddElement
  <2> QED BY <1>2, <1>3, <1>4, <2>2 DEF SizeInv
<1>7. CASE o \notin Replaced' \ Replaced
  <2>1. Replaced' = Replaced
    BY <1>5, <1>7 DEF Replaced
  <2> QED BY <1>2, <1>3, <1>4, <1>7, <2>1 DEF SizeInv
<1> QED BY <1>6, <1>7

\* The monitor takes a step: what is listed and coming gets no more, or is
\* within the limit.
LEMMA MonitorSize ==
  ASSUME TypeOK, LeftInv, SizeInv, order' \in Seq(IDs),
         \A p \in Ops : p # "monitor" => op'[p] = op[p],
         op'["monitor"].pc = "spawn" => op'["monitor"].left >= 0,
         op'["monitor"].pc = "add" => op'["monitor"].left >= 1,
         op'["monitor"].left \in Int,
         \/ Len(order') + Coming' <= Len(order) + Coming
         \/ MaxPoolSize > 0 => Len(order') + Coming' <= MaxPoolSize
  PROVE  LeftInv' /\ SizeInv'
<1>1. \A p \in Replacers : op'[p] = op[p]
  BY WorkerPoolAssumption DEF Ops
<1>2. LeftInv'
  BY <1>1 DEF LeftInv
<1>3. Replaced' = Replaced
  BY <1>1 DEF Replaced
<1>4. /\ Len(order') \in Nat /\ Len(order) \in Nat /\ Coming \in Int /\ MaxPoolSize \in Nat
      /\ Cardinality(Replaced) \in Nat /\ Coming' \in Int
  BY SizeTypes DEF TypeOK, Coming
<1> QED BY <1>2, <1>3, <1>4 DEF SizeInv

LEMMA SizeStep ==
  ASSUME TypeOK, TypeOK', LenInv, LeftInv, SizeInv, [Next]_vars
  PROVE  LeftInv' /\ SizeInv'
<1> DEFINE Goal == LeftInv' /\ SizeInv'
<1>1. op \in [Ops -> OpRecords] /\ op' \in [Ops -> OpRecords] /\ "monitor" \in Ops
  BY Records DEF TypeOK, OpRecords, Ops
<1>2. order \in Seq(IDs) /\ order' \in Seq(IDs) /\ Len(order) \in Nat /\ Len(order') \in Nat
  BY DEF TypeOK
<1>3. \A o \in Ops : op[o].left \in Int /\ op'[o].left \in Int
  BY <1>1 DEF OpRecords
<1>4. CASE UNCHANGED <<order, op>>
  BY <1>4 DEF LeftInv, SizeInv, Coming, Replaced
<1>5. ASSUME NEW o \in Ops, o # "monitor",
             \A p \in Ops : p # o => op'[p] = op[p],
             op'[o].pc \in {"remove", "stop", "add"} => op'[o].left = 1,
             op'[o].pc = "spawn" => op'[o].left \in {0, 1},
             o \in Replaced => o \in Replaced',
             \/ Len(order') <= Len(order)
             \/ Len(order') = Len(order) + 1 /\ o \in Replaced' \ Replaced
      PROVE  Goal
  <2>1. o \in Replacers
    BY <1>5 DEF Ops
  <2> QED BY <1>5, <2>1, ReplacerSize
<1>6. ASSUME NEW o \in Ops, NEW i \in IDs, Replace(o, i) PROVE Goal
  <2>1. /\ o # "monitor" /\ op[o].pc = "idle" /\ UNCHANGED order
        /\ \A p \in Ops : p # o => op'[p] = op[p]
    BY <1>1, <1>6 DEF Replace
  <2>2. op'[o].pc = "done" \/ (op'[o].pc = "remove" /\ op'[o].left = 1)
    BY <1>1, <1>6 DEF Replace, OpIdle
  <2>3. o \notin Replaced
    BY <2>1 DEF Replaced
  <2> QED BY <1>2, <1>5, <2>1, <2>2, <2>3
<1>7. ASSUME UNCHANGED order, \A p \in Ops : p # "monitor" => op'[p] = op[p],
             op["monitor"].pc \notin {"spawn", "add"},
             op'["monitor"].pc \notin {"spawn", "add"}
      PROVE  Goal
  <2>1. Coming = 0 /\ Coming' = 0
    BY <1>7 DEF Coming
  <2> QED BY <1>1, <1>2, <1>3, <1>7, <2>1, MonitorSize
<1>8. ASSUME Monitor PROVE Goal
  <2>1. PICK v \in Ahead({i \in Range(order) : i \in entry /\ ~alive[i]}) :
          op' = [op EXCEPT !["monitor"] = v]
    BY <1>8 DEF Monitor
  <2>2. v.pc \in {"remove", "healthy"}
    <3>1. {i \in Range(order) : i \in entry /\ ~alive[i]} \in SUBSET IDs
      BY DEF TypeOK
    <3> QED BY <3>1, AheadFacts
  <2> QED BY <1>1, <1>7, <1>8, <2>1, <2>2 DEF Monitor
<1>9. ASSUME NotRegistered \/ CountHealthy PROVE Goal
  <2>1. op'["monitor"].pc \in {"idle", "capacity"} /\ op["monitor"].pc = "healthy"
    BY <1>1, <1>9 DEF NotRegistered, CountHealthy, OpIdle, OpRecords
  <2>2. UNCHANGED order /\ \A p \in Ops : p # "monitor" => op'[p] = op[p]
    BY <1>1, <1>9 DEF NotRegistered, CountHealthy
  <2> QED BY <1>7, <2>1, <2>2
<1>10. ASSUME CountSize PROVE Goal
  <2> DEFINE left == op["monitor"].left
             room == MaxPoolSize - Len(order)
             want == IF MaxPoolSize > 0 /\ left > room THEN room ELSE left
             n == IF want < 0 THEN 0 ELSE want
  <2>1. left \in Int /\ room \in Int /\ MaxPoolSize \in Nat
    BY <1>1, <1>2, <1>3, WorkerPoolAssumption
  <2>2. /\ n \in Nat
        /\ n = 0 \/ (MaxPoolSize > 0 => Len(order) + n <= MaxPoolSize)
    BY <1>2, <2>1
  <2>3. op["monitor"].pc = "capacity" /\ UNCHANGED order
        /\ op' = [op EXCEPT !["monitor"].pc = "spawn", !["monitor"].left = n]
    BY <1>10, Zenon DEF CountSize
  <2> HIDE DEF n
  <2>4. /\ op'["monitor"].pc = "spawn" /\ op'["monitor"].left = n
        /\ \A p \in Ops : p # "monitor" => op'[p] = op[p]
    BY <1>1, <2>3 DEF OpRecords
  <2>5. Coming = 0 /\ Coming' = n
    BY <2>3, <2>4 DEF Coming
  <2>6. \/ Len(order') + Coming' <= Len(order) + Coming
        \/ MaxPoolSize > 0 => Len(order') + Coming' <= MaxPoolSize
    BY <1>2, <2>2, <2>3, <2>5
  <2>7. op'["monitor"].left \in Int /\ op'["monitor"].left >= 0
    BY <2>2, <2>4
  <2> QED BY <1>2, <2>4, <2>6, <2>7, MonitorSize
<1>11. ASSUME NEW o \in Ops, Unlist(o) PROVE Goal
  <2>1. /\ op[o].pc = "remove" /\ op'[o].pc = "stop" /\ op'[o].left = op[o].left
        /\ \A p \in Ops : p # o => op'[p] = op[p]
    BY <1>1, <1>11 DEF Unlist, OpRecords
  <2>2. Len(order') <= Len(order)
    <3>1. op[o].id \in IDs
      BY <1>1 DEF OpRecords
    <3> QED BY <1>11, <3>1, RemoveTyped DEF Unlist
  <2>3. CASE o = "monitor"
    <3>1. Coming = 0 /\ Coming' = 0
      BY <2>1, <2>3 DEF Coming
    <3> QED BY <1>2, <1>3, <2>1, <2>2, <2>3, <3>1, MonitorSize
  <2>4. CASE o # "monitor"
    <3>1. o \notin Replaced /\ op[o].left = 1
      BY <2>1, <2>4 DEF Replaced, LeftInv, Ops
    <3> QED BY <1>5, <2>1, <2>2, <2>4, <3>1
  <2> QED BY <2>3, <2>4
<1>12. ASSUME NEW o \in Ops, Stop(o) PROVE Goal
  <2>1. op[o].pc = "stop" /\ UNCHANGED order
    BY <1>12 DEF Stop
  <2>2. CASE o = "monitor"
    <3>1. PICK v \in Ahead(op[o].todo) : op' = [op EXCEPT ![o] = v]
      BY <1>12, <2>2 DEF Stop
    <3>2. v.pc \in {"remove", "healthy"}
      <4>1. op[o].todo \in SUBSET IDs
        BY <1>1 DEF OpRecords
      <4> QED BY <4>1, AheadFacts
    <3> QED BY <1>1, <1>7, <2>1, <2>2, <3>1, <3>2
  <2>3. CASE o # "monitor"
    <3>1. op' = [op EXCEPT ![o].pc = "spawn", ![o].id = 0]
      BY <1>12, <2>3 DEF Stop
    <3>2. /\ op'[o].pc = "spawn" /\ op'[o].left = op[o].left
          /\ \A p \in Ops : p # o => op'[p] = op[p]
      BY <1>1, <3>1 DEF OpRecords
    <3>3. o \notin Replaced /\ op[o].left = 1
      BY <2>1, <2>3 DEF Replaced, LeftInv, Ops
    <3> QED BY <1>2, <1>5, <2>1, <2>3, <3>2, <3>3
  <2> QED BY <2>2, <2>3
<1>13. ASSUME NEW o \in Ops, Spawn(o) PROVE Goal
  <2>1. /\ op[o].pc = "spawn" /\ op[o].left > 0 /\ UNCHANGED order
        /\ op'[o].pc = "add" /\ op'[o].left = op[o].left
        /\ \A p \in Ops : p # o => op'[p] = op[p]
    BY <1>1, <1>13 DEF Spawn, OpRecords
  <2>2. CASE o = "monitor"
    <3>1. Coming' = Coming
      BY <2>1, <2>2 DEF Coming
    <3> QED BY <1>2, <1>3, <2>1, <2>2, <3>1, SizeTypes, MonitorSize
  <2>3. CASE o # "monitor"
    <3>1. op[o].left = 1 /\ o \notin Replaced
      BY <1>3, <2>1, <2>3 DEF Replaced, LeftInv, Ops
    <3> QED BY <1>2, <1>5, <2>1, <2>3, <3>1
  <2> QED BY <2>2, <2>3
<1>14. ASSUME NEW o \in Ops, SpawnFails(o) PROVE Goal
  <2>1. /\ op[o].pc = "spawn" /\ op[o].left > 0 /\ UNCHANGED order
        /\ op'[o].pc = "spawn" /\ op'[o].left = op[o].left - 1
        /\ \A p \in Ops : p # o => op'[p] = op[p]
    BY <1>1, <1>14 DEF SpawnFails, OpRecords
  <2>2. CASE o = "monitor"
    <3>1. Coming' = Coming - 1
      BY <2>1, <2>2 DEF Coming
    <3> QED BY <1>2, <1>3, <2>1, <2>2, <3>1, SizeTypes, MonitorSize
  <2>3. CASE o # "monitor"
    <3>1. op[o].left = 1 /\ o \notin Replaced
      BY <1>3, <2>1, <2>3 DEF Replaced, LeftInv, Ops
    <3> QED BY <1>2, <1>5, <2>1, <2>3, <3>1
  <2> QED BY <2>2, <2>3
<1>15. ASSUME NEW o \in Ops, Add(o) PROVE Goal
  <2>1. /\ op[o].pc = "add" /\ op'[o].pc = "spawn" /\ op'[o].left = op[o].left - 1
        /\ \A p \in Ops : p # o => op'[p] = op[p]
    BY <1>1, <1>15 DEF Add, OpRecords
  <2>2. Len(order') = Len(order) + 1
    <3>1. op[o].id \in IDs
      BY <1>1 DEF OpRecords
    <3>2. PICK ok \in BOOLEAN : AddWorker(op[o].id, ok)
      BY <1>15, AddsOne
    <3> QED BY <3>1, <3>2, AddTyped
  <2>3. CASE o = "monitor"
    <3>1. Coming' = Coming - 1 /\ op[o].left >= 1
      BY <2>1, <2>3 DEF Coming, LeftInv
    <3> QED BY <1>2, <1>3, <2>1, <2>2, <2>3, <3>1, SizeTypes, MonitorSize
  <2>4. CASE o # "monitor"
    <3>1. o \in Replacers /\ op[o].left = 1 /\ o \notin Replaced
      BY <2>1, <2>4 DEF Replaced, LeftInv, Ops
    <3>2. o \in Replaced'
      BY <2>1, <3>1 DEF Replaced
    <3> QED BY <1>5, <2>1, <2>2, <2>4, <3>1, <3>2
  <2> QED BY <2>3, <2>4
<1>16. ASSUME NEW o \in Ops, Return(o) PROVE Goal
  <2>1. op[o].pc = "spawn" /\ op[o].left = 0 /\ UNCHANGED order
        /\ \A p \in Ops : p # o => op'[p] = op[p]
    BY <1>1, <1>16 DEF Return
  <2>2. CASE o = "monitor"
    <3>1. op'[o].pc = "idle"
      BY <1>1, <1>16, <2>2 DEF Return, OpIdle
    <3>2. Coming = 0 /\ Coming' = 0
      BY <2>1, <2>2, <3>1 DEF Coming
    <3> QED BY <1>2, <1>3, <2>1, <2>2, <3>1, <3>2, MonitorSize
  <2>3. CASE o # "monitor"
    <3>1. op'[o].pc = "done"
      BY <1>1, <1>16, <2>3 DEF Return, OpIdle
    <3>2. o \in Replacers /\ o \in Replaced'
      BY <2>3, <3>1 DEF Replaced, Ops
    <3> QED BY <1>2, <1>5, <2>1, <2>3, <3>1, <3>2
  <2> QED BY <2>2, <2>3
<1>17. ASSUME NEW r \in Requests, Dispatch(r) PROVE Goal
  BY <1>4, <1>17, DispatchFrame
<1>18. ASSUME NEW i \in IDs, Exit(i) \/ \E ok \in BOOLEAN : Report(i, ok) PROVE Goal
  BY <1>4, <1>18 DEF Exit, Report
<1>19. CASE UNCHANGED vars
  BY <1>4, <1>19 DEF vars
<1> QED BY <1>6, <1>8, <1>9, <1>10, <1>11, <1>12, <1>13, <1>14, <1>15, <1>16, <1>17, <1>18,
           <1>19 DEF Next, Step

\* However the monitor's counts are overtaken, the pool outgrows its limit by no
\* more workers than there were calls of ReplaceWorker.
THEOREM PoolStaysBounded == Spec => []PoolIsBounded
<1>1. Init => LeftInv /\ SizeInv
  <2> SUFFICES ASSUME Init PROVE LeftInv /\ SizeInv
    OBVIOUS
  <2>1. TypeOK
    BY InitPool DEF PoolInv
  <2>2. \A o \in Ops : op[o].pc = "idle"
    BY DEF Init, OpIdle
  <2>3. Coming = 0 /\ Replaced = {} /\ LeftInv
    BY <2>2 DEF Coming, Replaced, LeftInv, Ops
  <2>4. Cardinality(Replaced) = 0
    BY <2>3, FS_EmptySet
  <2>5. Len(order) = First
    <3>1. order = [i \in 1 .. First |-> i - 1]
      BY DEF Init, First
    <3> QED BY <3>1, FirstFacts
  <2>6. MaxPoolSize > 0 => First <= MaxPoolSize
    BY WorkerPoolAssumption DEF First
  <2> QED BY <2>1, <2>3, <2>4, <2>5, <2>6, SizeTypes, FirstFacts DEF SizeInv
<1>2. PoolInv /\ PoolInv' /\ LeftInv /\ SizeInv /\ [Next]_vars => LeftInv' /\ SizeInv'
  BY SizeStep DEF PoolInv
<1>3. PoolInv /\ LeftInv /\ SizeInv => PoolIsBounded
  <2> SUFFICES ASSUME TypeOK, LeftInv, SizeInv PROVE PoolIsBounded
    BY DEF PoolInv
  <2>1. Coming >= 0
    BY SizeTypes DEF Coming, LeftInv
  <2> QED BY <2>1, SizeTypes DEF SizeInv, PoolIsBounded
<1> QED BY <1>1, <1>2, <1>3, PoolInvariant, PTL DEF Spec

-----------------------------------------------------------------------------
(* Round robin *)

\* The n-th of a calm pool's list is the worker n.
LEMMA NthIsNumber ==
  ASSUME NEW n \in Nat, NEW k \in 1 .. First,
         Nth(k, n, [i \in 1 .. First |-> i - 1])
  PROVE  k = n + 1
<1>1. {j \in 1 .. First : j < k} = 1 .. k - 1
  BY FirstFacts
<1>2. Cardinality(1 .. k - 1) = k - 1
  BY FirstFacts, FS_Interval
<1>3. Cardinality({j \in 1 .. First : j < k}) = n
  BY DEF Nth
<1>4. n = k - 1
  BY <1>1, <1>2, <1>3, Zenon
<1> QED BY <1>4, FirstFacts

\* What a calm pool is, apart from what has been selected.
StillInv ==
  /\ order = [i \in 1 .. First |-> i - 1]
  /\ entry = 0 .. First - 1
  /\ \A i \in entry : alive[i]

Selecting(r) == req[r].pc \in {"listed", "picked"}

OneSelects == \A r, q \in Requests : Selecting(r) /\ Selecting(q) => r = q

Round(c) ==
  \E base \in Nat : \A i \in entry : picks[i] = base + (IF i < c % First THEN 1 ELSE 0)

LEMMA CalmParts ==
  CalmInv <=>
    (calm => /\ StillInv
             /\ OneSelects
             /\ strategy = "round-robin" =>
                  /\ \A r \in Requests : req[r].pc = "listed" => req[r].seen = order
                  /\ Round(Selections))
BY DEF CalmInv, StillInv, OneSelects, Selecting, Round

\* All the workers of a calm pool are healthy.
LEMMA CalmListsAll ==
  ASSUME StillInv
  PROVE  HealthyWorkers = order
<1>1. DOMAIN order = 1 .. First /\ \A k \in 1 .. First : order[k] \in entry /\ alive[order[k]]
  BY FirstFacts DEF StillInv
<1>2. {k \in DOMAIN order : order[k] \in entry /\ alive[order[k]]} = 1 .. First
  BY <1>1
<1>3. HealthyWorkers = [k \in 1 .. First |-> order[k]]
  BY <1>2 DEF HealthyWorkers, Restrict
<1> QED BY <1>3 DEF StillInv

\* One more selection, of the worker whose turn it is, and the round goes on.
LEMMA RoundGoesOn ==
  ASSUME TypeOK, StillInv, NEW c \in Nat, Round(c), UNCHANGED entry,
         picks' = [picks EXCEPT ![c % First] = @ + 1]
  PROVE  Round(c + 1)'
<1>1. PICK m \in Nat : m = c % First
  BY FirstFacts, RemainderSteps
<1>2. PICK n \in Nat : n = (c + 1) % First
  BY FirstFacts, RemainderSteps
<1>3. m < First /\ n = IF m = First - 1 THEN 0 ELSE m + 1
  <2>1. /\ c % First \in 0 .. First - 1
        /\ (c + 1) % First = IF c % First = First - 1 THEN 0 ELSE (c % First) + 1
    <3>1. First \in Nat \ {0}
      BY FirstFacts
    <3> QED BY <3>1, RemainderSteps, Zenon
  <2> QED BY <1>1, <1>2, <2>1, FirstFacts
<1>4. PICK base \in Nat : \A i \in entry : picks[i] = base + (IF i < m THEN 1 ELSE 0)
  BY <1>1 DEF Round
<1>5. /\ entry = 0 .. First - 1 /\ entry \subseteq IDs /\ picks \in [IDs -> Nat]
      /\ picks' = [picks EXCEPT ![m] = picks[m] + 1]
  BY <1>1 DEF StillInv, TypeOK
<1>6. m \in entry /\ m \in IDs
  BY <1>3, <1>5, FirstFacts
<1>7. \A i \in entry : picks'[i] = base + (IF i < m THEN 1 ELSE 0) + (IF i = m THEN 1 ELSE 0)
  BY <1>4, <1>5, <1>6
<1>8. First \in Nat /\ \A i \in entry : i \in Nat /\ i < First
  BY <1>5, FirstFacts
<1>9. \E b \in Nat : \A i \in entry : picks'[i] = b + (IF i < n THEN 1 ELSE 0)
  <2>1. CASE m = First - 1
    <3>1. ASSUME NEW i \in entry PROVE picks'[i] = (base + 1) + (IF i < n THEN 1 ELSE 0)
      <4>1. i \in Nat /\ (i < m \/ i = m) /\ ~ (i < n)
        BY <1>3, <1>8, <2>1
      <4>2. picks'[i] = base + 1
        BY <1>7, <4>1
      <4> QED BY <4>1, <4>2
    <3> QED BY <3>1
  <2>2. CASE m # First - 1
    <3>1. ASSUME NEW i \in entry PROVE picks'[i] = base + (IF i < n THEN 1 ELSE 0)
      <4>1. i \in Nat /\ (i < n <=> i < m \/ i = m)
        BY <1>3, <1>8, <2>2
      <4>2. picks'[i] = base + (IF i < m THEN 1 ELSE 0) + (IF i = m THEN 1 ELSE 0)
        BY <1>7
      <4>3. CASE i < m
        BY <4>1, <4>2, <4>3
      <4>4. CASE i = m
        BY <4>1, <4>2, <4>4
      <4>5. CASE ~ (i < m) /\ i # m
        BY <4>1, <4>2, <4>5
      <4> QED BY <4>3, <4>4, <4>5
    <3> QED BY <3>1
  <2> QED BY <2>1, <2>2
<1> QED BY <1>2, <1>9 DEF Round

LEMMA CalmStep ==
  ASSUME TypeOK, LenInv, CalmInv, [Next]_vars
  PROVE  CalmInv'
<1> SUFFICES ASSUME calm' PROVE CalmInv'
  BY DEF CalmInv
<1>1. CASE UNCHANGED <<cfg, strategy, order, entry, alive, counter, req, picks, calm>>
  BY <1>1 DEF CalmInv, Selections, Picked
<1>2. ASSUME NEW o \in Ops, Unlist(o) \/ Add(o) PROVE FALSE
  BY <1>2 DEF Unlist, Add, Disturb
<1>3. ASSUME NEW i \in IDs, Exit(i) \/ \E ok \in BOOLEAN : Report(i, ok) PROVE CalmInv'
  BY <1>1, <1>3 DEF Report, Exit, Disturb
<1>4. ASSUME NEW o \in Ops, NEW v, Decides(o, v) PROVE CalmInv'
  BY <1>1, <1>4 DEF Decides
<1>5. ASSUME NEW o \in Ops, Stop(o) \/ Spawn(o) PROVE CalmInv'
  BY <1>1, <1>5 DEF Stop, Spawn
<1>6. CASE UNCHANGED vars
  BY <1>1, <1>6 DEF vars
<1>7. ASSUME NEW r \in Requests, Dispatch(r) PROVE CalmInv'
  <2>1. UNCHANGED <<cfg, strategy, order, entry, alive>>
    BY <1>7, DispatchFrame
  <2>2. req \in [Requests -> ReqRecords] /\ counter \in Nat
    BY Records DEF TypeOK
  <2>3. /\ calm => StillInv /\ OneSelects
        /\ calm /\ strategy = "round-robin" =>
             /\ \A q \in Requests : req[q].pc = "listed" => req[q].seen = order
             /\ Round(Selections)
    BY CalmParts
  <2>4. ASSUME calm, OneSelects',
               strategy = "round-robin" =>
                 /\ \A q \in Requests : req'[q].pc = "listed" => req'[q].seen = order
                 /\ Round(Selections)'
        PROVE  CalmInv'
    BY <2>1, <2>3, <2>4 DEF CalmInv, StillInv, OneSelects, Selecting, Round
  \* It is not selecting afterwards, and has not been counting.
  <2>5. ASSUME calm, UNCHANGED <<counter, picks>>, \A q \in Requests : q # r => req'[q] = req[q],
               req[r].pc # "picked", req'[r].pc \notin {"listed", "picked"}
        PROVE  CalmInv'
    <3>1. Picked' = Picked
      BY <2>5 DEF Picked
    <3>2. OneSelects'
      BY <2>3, <2>5 DEF OneSelects, Selecting
    <3>3. \A c : Round(c) => Round(c)'
      BY <2>1, <2>5 DEF Round
    <3>4. Selections' = Selections
      BY <2>5, <3>1 DEF Selections
    <3> QED BY <2>1, <2>3, <2>4, <2>5, <3>2, <3>3, <3>4
  <2>6. CASE List(r)
    <3>1. PICK w \in ReqRecords :
            /\ req' = [req EXCEPT ![r] = w]
            /\ w.pc = "selected" \/ (w.pc = "listed" /\ w.seen = HealthyWorkers)
      BY <2>6, ListSteps
    <3>2. req'[r] = w /\ \A q \in Requests : q # r => req'[q] = req[q]
      BY <2>2, <3>1
    <3>3. /\ calm /\ UNCHANGED <<counter, picks>>
          /\ req[r].pc = "idle" /\ \A q \in Requests : ~Selecting(q)
      BY <2>6 DEF List, Disturb, Selecting
    <3>4. CASE w.pc = "selected"
      BY <2>5, <3>2, <3>3, <3>4
    <3>5. CASE w.pc = "listed" /\ w.seen = HealthyWorkers
      <4>1. OneSelects'
        BY <3>2, <3>3 DEF OneSelects, Selecting
      <4>2. w.seen = order
        BY <2>3, <3>3, <3>5, CalmListsAll
      <4>3. Picked' = Picked
        BY <3>2, <3>3, <3>5 DEF Picked, Selecting
      <4>4. Selections' = Selections
        BY <3>3, <4>3 DEF Selections
      <4>5. \A c : Round(c) => Round(c)'
        BY <2>1, <3>3 DEF Round
      <4> QED BY <2>1, <2>3, <2>4, <3>2, <3>3, <4>1, <4>2, <4>4, <4>5
    <3> QED BY <3>1, <3>4, <3>5
  <2>7. CASE PickRoundRobin(r)
    <3>1. /\ calm /\ req[r].pc = "listed" /\ strategy = "round-robin" /\ counter' = counter
          /\ \E k \in DOMAIN req[r].seen :
               /\ Nth(k, counter % Cardinality(DOMAIN req[r].seen), req[r].seen)
               /\ req' = [req EXCEPT ![r].pc = "picked", ![r].at = req[r].seen[k]]
               /\ picks' = [picks EXCEPT ![req[r].seen[k]] = @ + 1]
      BY <2>7 DEF PickRoundRobin
    <3>2. req[r].seen = order /\ order = [i \in 1 .. First |-> i - 1]
      BY <2>3, <3>1 DEF StillInv
    <3>3. DOMAIN order = 1 .. First /\ Cardinality(DOMAIN order) = First
      BY <3>2, FirstFacts, FS_Interval
    <3>4. PICK k \in 1 .. First :
            /\ Nth(k, counter % First, order)
            /\ req' = [req EXCEPT ![r].pc = "picked", ![r].at = order[k]]
            /\ picks' = [picks EXCEPT ![order[k]] = @ + 1]
      <4>1. req[r].seen = order
        BY <3>2
      <4> QED BY <3>1, <3>3, <4>1, Zenon
    <3>5. counter % First \in Nat
      BY <2>2, FirstFacts, RemainderSteps
    <3>6. k = (counter % First) + 1
      BY <3>2, <3>4, <3>5, NthIsNumber
    <3>7. order[k] = counter % First
      BY <3>2, <3>5, <3>6
    <3>8. req'[r].pc = "picked" /\ \A q \in Requests : q # r => req'[q] = req[q]
      BY <2>2, <3>4 DEF ReqRecords
    <3>9. OneSelects'
      BY <2>3, <3>1, <3>8 DEF OneSelects, Selecting
    <3>10. Picked = {} /\ Picked' # {}
      BY <2>3, <3>1, <3>8 DEF OneSelects, Selecting, Picked
    <3>11. PICK c \in Nat : c = counter
      BY <2>2
    <3>12. Selections = c /\ Selections' = c + 1
      BY <3>1, <3>10, <3>11 DEF Selections
    <3>13. Round(c) /\ StillInv
      BY <2>3, <3>1, <3>12
    <3>14. Round(c + 1)'
      BY <2>1, <3>4, <3>7, <3>11, <3>13, RoundGoesOn
    <3>15. Round(Selections)'
      BY <3>12, <3>14 DEF Round
    <3> QED BY <2>3, <2>4, <3>1, <3>8, <3>9, <3>15
  <2>8. CASE Advance(r)
    <3>1. calm /\ req[r].pc = "picked" /\ picks' = picks /\ counter' = counter + 1
      BY <2>8 DEF Advance
    <3>2. req'[r].pc = "selected" /\ \A q \in Requests : q # r => req'[q] = req[q]
      BY <2>2, <2>8 DEF Advance, ReqAt, ReqRecords
    <3>3. OneSelects'
      BY <2>3, <3>1, <3>2 DEF OneSelects, Selecting
    <3>4. Picked # {} /\ Picked' = {}
      BY <2>3, <3>1, <3>2 DEF OneSelects, Selecting, Picked
    <3>5. Selections' = Selections
      BY <2>2, <3>1, <3>4 DEF Selections
    <3>6. \A c : Round(c) => Round(c)'
      BY <2>1, <3>1 DEF Round
    <3> QED BY <2>1, <2>3, <2>4, <3>1, <3>2, <3>3, <3>5, <3>6
  <2>9. CASE Compare(r)
    <3>1. PICK w \in ReqRecords : req' = [req EXCEPT ![r] = w] /\ w.pc = "listed"
      BY <2>9, CompareSteps
    <3>2. calm /\ req[r].pc = "listed" /\ strategy = "least-loaded"
      BY <2>9 DEF Compare
    <3>3. OneSelects'
      BY <2>2, <2>3, <3>1, <3>2 DEF OneSelects, Selecting
    <3> QED BY <2>4, <3>2, <3>3
  <2>10. CASE PickLeastLoaded(r)
    <3>1. req'[r].pc = "selected" /\ \A q \in Requests : q # r => req'[q] = req[q]
      BY <2>2, <2>10 DEF PickLeastLoaded, ReqAt, ReqRecords
    <3> QED BY <2>5, <2>10, <3>1 DEF PickLeastLoaded
  <2>11. CASE Increment(r)
    <3>1. req'[r].pc = "counted" /\ \A q \in Requests : q # r => req'[q] = req[q]
      BY <2>2, <2>11 DEF Increment, ReqIdle
    <3> QED BY <2>5, <2>11, <3>1 DEF Increment
  <2>12. CASE Decrement(r)
    <3>1. req'[r].pc = "done" /\ \A q \in Requests : q # r => req'[q] = req[q]
      BY <2>2, <2>12 DEF Decrement, ReqIdle
    <3> QED BY <2>5, <2>12, <3>1 DEF Decrement
  <2> QED BY <1>7, <2>6, <2>7, <2>8, <2>9, <2>10, <2>11, <2>12 DEF Dispatch
<1> QED BY <1>2, <1>3, <1>4, <1>5, <1>6, <1>7, Steps

LEMMA InitCalm == Init => CalmInv
<1> SUFFICES ASSUME Init, calm PROVE CalmInv
  BY DEF CalmInv
<1>1. /\ order = [i \in 1 .. First |-> i - 1] /\ entry = 0 .. First - 1
      /\ alive = [i \in IDs |-> cfg.running /\ i < First] /\ cfg.running
      /\ req = [r \in Requests |-> ReqIdle] /\ counter = 0 /\ picks = [i \in IDs |-> 0]
  BY DEF Init, First
<1>2. entry \subseteq IDs
  BY <1>1, FirstFacts, Constants DEF IDs
<1>3. StillInv
  <2>1. \A i \in entry : i < First
    BY <1>1, FirstFacts
  <2>2. \A i \in entry : alive[i]
    <3> TAKE i \in entry
    <3>1. alive[i] <=> i < First
      BY <1>1, <1>2, Zenon
    <3> QED BY <2>1, <3>1
  <2> QED BY <1>1, <2>2 DEF StillInv
<1>4. \A r \in Requests : req[r].pc = "idle"
  BY <1>1 DEF ReqIdle
<1>5. Selections = 0
  BY <1>1, <1>4 DEF Selections, Picked
<1>6. Round(0)
  <2>1. \A i \in entry : ~ (i < 0 % First) /\ picks[i] = 0
    BY <1>1, <1>2, FirstFacts
  <2>2. \A i \in entry : picks[i] = 0 + (IF i < 0 % First THEN 1 ELSE 0)
    BY <2>1
  <2> QED BY <2>2 DEF Round
<1>7. Round(Selections)
  BY <1>5, <1>6
<1> QED BY <1>3, <1>4, <1>7, CalmParts DEF OneSelects, Selecting

\* As long as the pool does not change and no two selections overlap, round robin
\* is even: no worker is ahead of another by more than one request, however many
\* workers and requests there are.
THEOREM RoundRobinIsEven == Spec => []EvenWhenCalm
<1>1. CalmInv => EvenWhenCalm
  <2> SUFFICES ASSUME CalmInv, calm, strategy = "round-robin", NEW i \in entry, NEW j \in entry
               PROVE  picks[i] <= picks[j] + 1
    BY DEF EvenWhenCalm
  <2>1. PICK base \in Nat : \A k \in entry :
          picks[k] = base + (IF k < Selections % First THEN 1 ELSE 0)
    BY DEF CalmInv
  <2> QED BY <2>1
<1>2. PoolInv /\ CalmInv /\ [Next]_vars => CalmInv'
  BY CalmStep DEF PoolInv
<1> QED BY <1>1, <1>2, InitCalm, PoolInvariant, PTL DEF Spec
=============================================================================
