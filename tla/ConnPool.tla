------------------------------ MODULE ConnPool ------------------------------
(***************************************************************************)
(* The pool of Unix socket connections of core/infrastructure/ipc/uds/     *)
(* pool.go.  A mutex guards the idle list and the two counters, but the    *)
(* pool dials and closes connections without it:                           *)
(*                                                                         *)
(*   - Acquire counts the connection it is about to dial before it dials;  *)
(*   - Acquire gives the lock up to close an idle connection it found      *)
(*     dead, and does not look at closed again when it has it back;        *)
(*   - reap starts goroutines that dial, and add to the pool later.        *)
(*                                                                         *)
(* The order of the idle list and the ages of its members only decide      *)
(* which connection is taken or reaped: here any may be.                   *)
(***************************************************************************)
EXTENDS Integers, FiniteSets

CONSTANTS
  Callers,      \* goroutines that use the pool
  Conns,        \* connections; a closed one may be dialled again
  None,         \* no connection
  MinSize,      \* PoolConfig.MinSize
  MaxSize,      \* PoolConfig.MaxSize, at least MinSize (NewPool sees to it)
  MaxReplenish, \* bound: replenish goroutines at a time
  Overlap       \* may a tick of the reaper find replenish goroutines at work?

\* With DialTimeout below IdleTimeout / 2, as in the defaults (5 s, 30 s), the
\* goroutines of one tick are over before the next: Overlap is FALSE.
ASSUME PoolAssumption ==
  /\ MinSize \in Nat \ {0}
  /\ MaxSize \in Nat
  /\ MinSize <= MaxSize
  /\ MaxReplenish \in Nat
  /\ Overlap \in BOOLEAN
  /\ IsFiniteSet(Conns)
  /\ IsFiniteSet(Callers)
  /\ None \notin Conns

VARIABLES
  warm,       \* connections NewPool has dialled so far
  idle,       \* Pool.idle
  total,      \* Pool.total
  inUse,      \* Pool.inUse
  closed,     \* Pool.closed
  replenish,  \* goroutines started by reap that have not ended
  pc,         \* where each caller is
  held,       \* the connection each caller has
  open        \* connections with an open socket

vars == <<warm, idle, total, inUse, closed, replenish, pc, held, open>>

TypeOK ==
  /\ warm \in 0..MinSize
  /\ idle \subseteq Conns
  /\ total \in Int
  /\ inUse \in Nat
  /\ closed \in BOOLEAN
  /\ replenish \in 0..MaxReplenish
  /\ pc \in [Callers -> {"out", "acquiring", "looping", "dialing", "using"}]
  /\ held \in [Callers -> Conns \cup {None}]
  /\ open \subseteq Conns

Init ==
  /\ warm = 0
  /\ idle = {}
  /\ total = 0
  /\ inUse = 0
  /\ closed = FALSE
  /\ replenish = 0
  /\ pc = [k \in Callers |-> "out"]
  /\ held = [k \in Callers |-> None]
  /\ open = {}

Goto(k, l) == pc' = [pc EXCEPT ![k] = l]

\* A dial makes a connection that nobody has: not open, and not the closed one
\* that somebody still refers to.
Fresh == {c \in Conns : c \notin open \cup idle /\ \A k \in Callers : held[k] # c}

-----------------------------------------------------------------------------
(* NewPool, dialAndAdd *)

\* dialAndAdd after its dial, under the lock: a closed pool closes the
\* connection.
Add(c) ==
  /\ idle' = IF closed THEN idle ELSE idle \cup {c}
  /\ total' = IF closed THEN total ELSE total + 1
  /\ open' = IF closed THEN open ELSE open \cup {c}

\* NewPool dials MinSize connections before it returns the pool.
Prewarm(c) ==
  /\ warm < MinSize /\ ~closed
  /\ c \in Fresh
  /\ Add(c)
  /\ warm' = warm + 1
  /\ UNCHANGED <<inUse, closed, replenish, pc, held>>

\* Mutant: Close does not close the idle connections.
ShutLeavesIdle ==
  /\ closed' = TRUE
  /\ idle' = {}
  /\ total' = total - inUse
  /\ UNCHANGED open

\* Close, inside closeOnce: the idle connections are closed but stay in total,
\* from which those in use are taken off.
Shut ==
  /\ closed' = TRUE
  /\ open' = open \ idle
  /\ idle' = {}
  /\ total' = total - inUse

\* The first dial that fails closes the pool; NewPool returns an error.
PrewarmFails ==
  /\ warm < MinSize /\ ~closed
  /\ Shut
  /\ UNCHANGED <<warm, inUse, replenish, pc, held>>

Close ==
  /\ warm = MinSize /\ ~closed
  /\ Shut
  /\ UNCHANGED <<warm, inUse, replenish, pc, held>>

-----------------------------------------------------------------------------
(* Acquire *)

Call(k) ==
  /\ warm = MinSize
  /\ pc[k] = "out"
  /\ Goto(k, "acquiring")
  /\ UNCHANGED <<warm, idle, total, inUse, closed, replenish, held, open>>

\* ErrPoolClosed: only looked at on entry.
RefuseClosed(k) ==
  /\ pc[k] = "acquiring" /\ closed
  /\ Goto(k, "out")
  /\ UNCHANGED <<warm, idle, total, inUse, closed, replenish, held, open>>

\* The caller is in the loop over the idle connections, with the lock.
InLoop(k) == pc[k] = "looping" \/ (pc[k] = "acquiring" /\ ~closed)

\* Mutant: an idle connection is handed out and stays in the list.
TakeIdleKeeps(k, c) ==
  /\ InLoop(k)
  /\ c \in idle \cap open
  /\ inUse' = inUse + 1
  /\ held' = [held EXCEPT ![k] = c]
  /\ Goto(k, "using")
  /\ UNCHANGED <<warm, idle, total, closed, replenish, open>>

TakeIdle(k, c) ==
  /\ InLoop(k)
  /\ c \in idle \cap open
  /\ idle' = idle \ {c}
  /\ inUse' = inUse + 1
  /\ held' = [held EXCEPT ![k] = c]
  /\ Goto(k, "using")
  /\ UNCHANGED <<warm, total, closed, replenish, open>>

\* Mutant: a dead connection is dropped without being counted off.
DropDeadUncounted(k, c) ==
  /\ InLoop(k)
  /\ c \in idle \ open
  /\ idle' = idle \ {c}
  /\ Goto(k, "looping")
  /\ UNCHANGED <<warm, total, inUse, closed, replenish, held, open>>

\* isAlive only fails for a connection that has been closed on this side.  The
\* lock is given up for c.Close(), which changes nothing here.
DropDead(k, c) ==
  /\ InLoop(k)
  /\ c \in idle \ open
  /\ idle' = idle \ {c}
  /\ total' = total - 1
  /\ Goto(k, "looping")
  /\ UNCHANGED <<warm, inUse, closed, replenish, held, open>>

\* ErrPoolExhausted.
Exhausted(k) ==
  /\ InLoop(k)
  /\ idle = {} /\ total >= MaxSize
  /\ Goto(k, "out")
  /\ UNCHANGED <<warm, idle, total, inUse, closed, replenish, held, open>>

\* Mutant: the comparison with MaxSize is off by one.
StartDialOverMax(k) ==
  /\ InLoop(k)
  /\ idle = {} /\ total <= MaxSize
  /\ total' = total + 1
  /\ inUse' = inUse + 1
  /\ Goto(k, "dialing")
  /\ UNCHANGED <<warm, idle, closed, replenish, held, open>>

\* The new connection is counted, then dialled without the lock.
StartDial(k) ==
  /\ InLoop(k)
  /\ idle = {} /\ total < MaxSize
  /\ total' = total + 1
  /\ inUse' = inUse + 1
  /\ Goto(k, "dialing")
  /\ UNCHANGED <<warm, idle, closed, replenish, held, open>>

\* The pool may have been closed meanwhile; the caller gets its connection.
Dialed(k, c) ==
  /\ pc[k] = "dialing"
  /\ c \in Fresh
  /\ held' = [held EXCEPT ![k] = c]
  /\ open' = open \cup {c}
  /\ Goto(k, "using")
  /\ UNCHANGED <<warm, idle, total, inUse, closed, replenish>>

DialFails(k) ==
  /\ pc[k] = "dialing"
  /\ total' = total - 1
  /\ inUse' = inUse - 1
  /\ Goto(k, "out")
  /\ UNCHANGED <<warm, idle, closed, replenish, held, open>>

-----------------------------------------------------------------------------
(* Release *)

\* The caller closes its connection itself, after an error on it.
Break(k) ==
  /\ pc[k] = "using"
  /\ held[k] \in open
  /\ open' = open \ {held[k]}
  /\ UNCHANGED <<warm, idle, total, inUse, closed, replenish, pc, held>>

\* Mutant: Release puts the connection back whether or not the pool is closed.
ReleaseToClosed(k) ==
  /\ pc[k] = "using"
  /\ idle' = idle \cup {held[k]}
  /\ UNCHANGED <<total, open>>
  /\ inUse' = inUse - 1
  /\ held' = [held EXCEPT ![k] = None]
  /\ Goto(k, "out")
  /\ UNCHANGED <<warm, closed, replenish>>

\* Release: a closed or full pool closes the connection.
Release(k) ==
  /\ pc[k] = "using"
  /\ IF closed \/ Cardinality(idle) >= MaxSize
     THEN total' = total - 1 /\ open' = open \ {held[k]} /\ UNCHANGED idle
     ELSE idle' = idle \cup {held[k]} /\ UNCHANGED <<total, open>>
  /\ inUse' = inUse - 1
  /\ held' = [held EXCEPT ![k] = None]
  /\ Goto(k, "out")
  /\ UNCHANGED <<warm, closed, replenish>>

-----------------------------------------------------------------------------
(* The reaper *)

\* Goroutines reap starts, given what it keeps and how many are left.
Need(keep, left) ==
  LET need == MinSize - Cardinality(keep)
  IN  IF need > 0 /\ left + need <= MaxSize THEN need ELSE 0

\* A tick: connections idle for too long are closed, and the pool is filled up
\* to MinSize by goroutines of their own, which total does not count yet.
Reap ==
  /\ warm = MinSize /\ ~closed
  /\ Overlap \/ replenish = 0
  /\ \E expired \in SUBSET idle :
       LET keep == idle \ expired
           left == total - Cardinality(expired)
       IN  /\ replenish + Need(keep, left) <= MaxReplenish
           /\ idle' = keep
           /\ total' = left
           /\ open' = open \ expired
           /\ replenish' = replenish + Need(keep, left)
  /\ UNCHANGED <<warm, inUse, closed, pc, held>>

\* A replenish goroutine has dialled in time, before or after Close.
Replenished(c) ==
  /\ replenish > 0
  /\ c \in Fresh
  /\ Add(c)
  /\ replenish' = replenish - 1
  /\ UNCHANGED <<warm, inUse, closed, pc, held>>

\* Its dial fails, times out, or ends with lifecycleCtx.
ReplenishFails ==
  /\ replenish > 0
  /\ replenish' = replenish - 1
  /\ UNCHANGED <<warm, idle, total, inUse, closed, pc, held, open>>

-----------------------------------------------------------------------------
Acquire(k) ==
  \/ RefuseClosed(k) \/ Exhausted(k) \/ StartDial(k) \/ DialFails(k)
  \/ \E c \in Conns : TakeIdle(k, c) \/ DropDead(k, c) \/ Dialed(k, c)

Next ==
  \/ \E c \in Conns : Prewarm(c) \/ Replenished(c)
  \/ PrewarmFails \/ Close \/ Reap \/ ReplenishFails
  \/ \E k \in Callers : Call(k) \/ Acquire(k) \/ Break(k) \/ Release(k)

Spec == Init /\ [][Next]_vars

\* Acquire does not block, DialTimeout or the caller's context ends every dial,
\* and callers release what they have.
FairSpec ==
  /\ Spec
  /\ \A k \in Callers : WF_vars(Acquire(k)) /\ WF_vars(Release(k))
  /\ WF_vars(ReplenishFails \/ \E c \in Conns : Replenished(c))

-----------------------------------------------------------------------------
(* Properties *)

\* The callers that have, or are about to have, a connection.
Users == {k \in Callers : pc[k] \in {"dialing", "using"}}

\* As long as the pool is open its counters are right whenever the lock is
\* free, though Acquire gives the lock up halfway, counts before it dials and
\* reap adds later: inUse is the number of callers with a connection, total
\* that plus the idle ones ("total connections (idle + in-use)", pool.go:65).
BooksBalance ==
  /\ inUse = Cardinality(Users)
  /\ ~closed => total = Cardinality(idle) + inUse

\* No two callers have the same connection, none that is in use is idle too,
\* and an open connection belongs to someone: Acquire, Release, reap and Close
\* leak no socket.
OneOwner ==
  /\ \A k \in Callers : held[k] # None =>
       /\ pc[k] = "using" /\ held[k] \notin idle
       /\ \A j \in Callers : held[j] = held[k] => j = k
  /\ \A c \in open : c \in idle \/ \E k \in Callers : held[k] = c

\* dialAndAdd does not look at MaxSize when it adds what reap asked for, so the
\* pool can hold more than "the maximum total number of connections"
\* (pool.go:39): up to MinSize more, if ticks do not overlap.
OverrunIsBounded == ~Overlap /\ ~closed => total + replenish <= MaxSize + MinSize

Library == INSTANCE Lending WITH shelf <- idle, loan <- held, shut <- closed

\* The pool implements Lending: whatever Acquire, Release, reap, the goroutines
\* of reap and Close do between the locks, a caller is given a connection from
\* the idle list that nobody else gets, or one just dialled, and after Close
\* none is put into the list or taken from it, though an Acquire that is in its
\* loop does not look at closed again (pool.go:157).
LendsAsPromised == Library!Spec

\* After Close, once the callers have released what they have, no socket is
\* left open: not by a dial under way, nor by a replenish goroutine.
ClosedPoolDrains == closed ~> [](open = {})
=============================================================================
