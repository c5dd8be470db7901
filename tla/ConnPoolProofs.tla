--------------------------- MODULE ConnPoolProofs ---------------------------
(***************************************************************************)
(* Proofs about ConnPool, for any sets of callers and connections and any  *)
(* sizes.  The counters are right because every step that changes who has  *)
(* a connection changes them under the same lock; that needs each          *)
(* connection to have one owner, and OverrunIsBounded needs the counters.  *)
(***************************************************************************)
EXTENDS ConnPool, FiniteSetTheorems, TLAPS

\* A caller has a connection exactly while it uses it.
HeldWhileUsing == \A k \in Callers : held[k] = None <=> pc[k] # "using"

\* Before NewPool has returned nobody calls and nothing is replenished.
NobodyWhileWarming ==
  warm < MinSize =>
    /\ \A k \in Callers : pc[k] = "out"
    /\ replenish = 0
    /\ ~closed => total <= warm

OneBatch == ~Overlap => replenish <= MinSize

PoolInv ==
  /\ TypeOK
  /\ BooksBalance
  /\ OneOwner
  /\ HeldWhileUsing
  /\ NobodyWhileWarming
  /\ OverrunIsBounded
  /\ OneBatch

Outside == {"out", "acquiring", "looping"}

\* The sets that are counted are finite.
LEMMA PoolFinite ==
  ASSUME TypeOK
  PROVE  /\ IsFiniteSet(idle) /\ Cardinality(idle) \in Nat
         /\ IsFiniteSet(Users) /\ Cardinality(Users) \in Nat
<1>1. idle \in SUBSET Conns /\ Users \in SUBSET Callers
  BY DEF TypeOK, Users
<1>2. IsFiniteSet(Conns) /\ IsFiniteSet(Callers)
  BY PoolAssumption
<1>3. IsFiniteSet(idle) /\ IsFiniteSet(Users)
  BY <1>1, <1>2, FS_Subset
<1> QED BY <1>3, FS_CardinalityType

\* A caller that starts to dial, or takes a connection, is one more user.
LEMMA UserEnters ==
  ASSUME TypeOK, NEW k \in Callers, NEW l \in {"dialing", "using"},
         pc[k] \in Outside, pc' = [pc EXCEPT ![k] = l]
  PROVE  Cardinality(Users') = Cardinality(Users) + 1
<1>1. Users' = Users \cup {k} /\ k \notin Users
  BY DEF Users, TypeOK, Outside
<1> QED BY <1>1, PoolFinite, FS_AddElement

\* A caller whose dial fails, or that releases, is one user less.
LEMMA UserLeaves ==
  ASSUME TypeOK, NEW k \in Callers,
         pc[k] \in {"dialing", "using"}, pc' = [pc EXCEPT ![k] = "out"]
  PROVE  Cardinality(Users') = Cardinality(Users) - 1
<1>1. Users' = Users \ {k} /\ k \in Users
  BY DEF Users, TypeOK
<1> QED BY <1>1, PoolFinite, FS_RemoveElement

\* Any other move of a caller leaves the users as they are.
LEMMA UserStays ==
  ASSUME TypeOK, NEW k \in Callers, NEW l,
         pc' = [pc EXCEPT ![k] = l],
         \/ pc[k] \in Outside /\ l \in Outside
         \/ pc[k] = "dialing" /\ l = "using"
  PROVE  Users' = Users
BY DEF Users, TypeOK, Outside

\* The counters before and after, as numbers.
LEMMA PoolNumbers ==
  ASSUME PoolInv
  PROVE  /\ Cardinality(idle) \in Nat /\ Cardinality(Users) \in Nat
         /\ total \in Int /\ inUse \in Nat /\ replenish \in Nat /\ warm \in Nat
         /\ MinSize \in Nat \ {0} /\ MaxSize \in Nat /\ MaxReplenish \in Nat
BY PoolFinite, PoolAssumption DEF PoolInv, TypeOK

\* The empty pool satisfies the invariant.
LEMMA PoolInitHolds == Init => PoolInv
<1> SUFFICES ASSUME Init PROVE PoolInv
  OBVIOUS
<1>1. Users = {}
  BY DEF Init, Users
<1>2. Cardinality({}) = 0
  BY FS_EmptySet
<1>m. MinSize \in Nat \ {0} /\ MaxSize \in Nat /\ MaxReplenish \in Nat /\ MinSize <= MaxSize
  BY PoolAssumption
<1>3. TypeOK
  <2>1. warm \in 0..MinSize /\ replenish \in 0..MaxReplenish
    BY <1>m DEF Init
  <2>2. idle \subseteq Conns /\ total \in Int /\ inUse \in Nat /\ open \subseteq Conns
    BY DEF Init
  <2>3. closed \in BOOLEAN
    BY DEF Init
  <2>4. pc \in [Callers -> {"out", "acquiring", "looping", "dialing", "using"}]
    BY DEF Init
  <2>5. held \in [Callers -> Conns \cup {None}]
    BY DEF Init
  <2> QED BY <2>1, <2>2, <2>3, <2>4, <2>5 DEF TypeOK
<1>4. BooksBalance
  BY <1>1, <1>2 DEF Init, BooksBalance
<1>5. OneOwner /\ HeldWhileUsing
  BY DEF Init, OneOwner, HeldWhileUsing
<1>6. NobodyWhileWarming /\ OverrunIsBounded /\ OneBatch
  BY <1>m DEF Init, NobodyWhileWarming, OverrunIsBounded, OneBatch
<1> QED BY <1>3, <1>4, <1>5, <1>6 DEF PoolInv

\* What dialAndAdd adds is counted, and nobody else has it.
LEMMA AddCounts ==
  ASSUME PoolInv, NEW c \in Fresh, Add(c), UNCHANGED <<inUse, closed, pc, held>>
  PROVE  BooksBalance' /\ OneOwner' /\ HeldWhileUsing'
<1>1. c \in Conns /\ c \notin open \cup idle /\ \A k \in Callers : held[k] # c
  BY DEF Fresh
<1>2. Users' = Users
  BY DEF Users
<1>3. Cardinality(idle \cup {c}) = Cardinality(idle) + 1
  BY <1>1, PoolFinite, FS_AddElement DEF PoolInv
<1>4. BooksBalance'
  BY <1>2, <1>3, PoolNumbers DEF PoolInv, BooksBalance, Add
<1>5. OneOwner'
  BY <1>1 DEF PoolInv, OneOwner, Add
<1>6. HeldWhileUsing'
  BY DEF PoolInv, HeldWhileUsing
<1> QED BY <1>4, <1>5, <1>6

\* Close and a failed NewPool keep the invariant: nothing that it says of a
\* closed pool is about total.
LEMMA ShutKeeps ==
  ASSUME PoolInv, Shut, UNCHANGED <<warm, inUse, replenish, pc, held>>
  PROVE  PoolInv'
<1>1. Users' = Users
  BY DEF Users
<1>2. TypeOK'
  BY DEF PoolInv, TypeOK, Shut
<1>3. BooksBalance'
  BY <1>1 DEF PoolInv, BooksBalance, Shut
<1>4. OneOwner' /\ HeldWhileUsing'
  BY DEF PoolInv, OneOwner, HeldWhileUsing, Shut
<1>5. NobodyWhileWarming' /\ OverrunIsBounded' /\ OneBatch'
  BY DEF PoolInv, NobodyWhileWarming, OverrunIsBounded, OneBatch, Shut
<1> QED BY <1>2, <1>3, <1>4, <1>5 DEF PoolInv

\* Every step of the pool keeps the invariant.
LEMMA PoolStep == PoolInv /\ [Next]_vars => PoolInv'
<1> SUFFICES ASSUME PoolInv, [Next]_vars PROVE PoolInv'
  OBVIOUS
<1> USE PoolNumbers
<1>1. ASSUME NEW c \in Conns, Prewarm(c) PROVE PoolInv'
  <2>1. BooksBalance' /\ OneOwner' /\ HeldWhileUsing'
    BY <1>1, AddCounts DEF Prewarm
  <2>2. TypeOK'
    BY <1>1 DEF PoolInv, TypeOK, Prewarm, Add
  <2>3. NobodyWhileWarming' /\ OverrunIsBounded' /\ OneBatch'
    BY <1>1, PoolAssumption DEF PoolInv, NobodyWhileWarming, OverrunIsBounded, OneBatch, Prewarm, Add, TypeOK
  <2> QED BY <2>1, <2>2, <2>3 DEF PoolInv
<1>2. ASSUME NEW c \in Conns, Replenished(c) PROVE PoolInv'
  <2>1. BooksBalance' /\ OneOwner' /\ HeldWhileUsing'
    BY <1>2, AddCounts DEF Replenished
  <2>2. TypeOK'
    BY <1>2 DEF PoolInv, TypeOK, Replenished, Add
  <2>3. NobodyWhileWarming' /\ OverrunIsBounded' /\ OneBatch'
    BY <1>2 DEF PoolInv, NobodyWhileWarming, OverrunIsBounded, OneBatch, Replenished, Add
  <2> QED BY <2>1, <2>2, <2>3 DEF PoolInv
<1>3. CASE PrewarmFails
  BY <1>3, ShutKeeps DEF PrewarmFails
<1>4. CASE Close
  BY <1>4, ShutKeeps DEF Close
<1>5. CASE Reap
  <2> PICK expired \in SUBSET idle :
        /\ idle' = idle \ expired
        /\ total' = total - Cardinality(expired)
        /\ open' = open \ expired
        /\ replenish' = replenish + Need(idle \ expired, total - Cardinality(expired))
        /\ replenish' <= MaxReplenish
    BY <1>5 DEF Reap
  <2>1. /\ ~closed /\ warm = MinSize /\ (Overlap \/ replenish = 0)
        /\ UNCHANGED <<warm, inUse, closed, pc, held>>
    BY <1>5 DEF Reap
  <2>2. /\ Cardinality(expired) \in Nat /\ Cardinality(idle \ expired) \in Nat
        /\ Cardinality(idle \ expired) = Cardinality(idle) - Cardinality(expired)
    <3>1. IsFiniteSet(idle) /\ IsFiniteSet(expired) /\ idle \cap expired = expired
      BY PoolFinite, FS_Subset DEF PoolInv
    <3> QED BY <3>1, FS_Difference, FS_CardinalityType
  <2> DEFINE n == Need(idle \ expired, total - Cardinality(expired))
  <2>3. n \in 0..MinSize /\ (n > 0 => total' + n <= MaxSize)
    BY <2>2 DEF Need
  <2>4. replenish' = replenish + n /\ replenish' \in 0..MaxReplenish /\ total' <= total
    BY <2>2, <2>3
  <2>5. TypeOK'
    BY <2>1, <2>2, <2>4 DEF PoolInv, TypeOK
  <2>6. Users' = Users
    BY <2>1 DEF Users
  <2>7. BooksBalance'
    BY <2>1, <2>2, <2>6 DEF PoolInv, BooksBalance
  <2>8. OneOwner' /\ HeldWhileUsing'
    BY <2>1 DEF PoolInv, OneOwner, HeldWhileUsing
  <2>9. NobodyWhileWarming'
    BY <2>1 DEF NobodyWhileWarming
  <2>10. OverrunIsBounded' /\ OneBatch'
    <3> HIDE DEF n
    <3>1. CASE n = 0
      BY <2>1, <2>4, <2>2, <3>1 DEF PoolInv, OverrunIsBounded, OneBatch
    <3>2. CASE n > 0
      BY <2>1, <2>3, <2>4, <2>2, <3>2 DEF PoolInv, OverrunIsBounded, OneBatch
    <3> QED BY <2>3, <3>1, <3>2
  <2> QED BY <2>5, <2>7, <2>8, <2>9, <2>10 DEF PoolInv
<1>6. CASE ReplenishFails
  <2>1. Users' = Users
    BY <1>6 DEF ReplenishFails, Users
  <2>2. TypeOK'
    BY <1>6 DEF PoolInv, TypeOK, ReplenishFails
  <2>3. BooksBalance' /\ OneOwner' /\ HeldWhileUsing'
    BY <1>6, <2>1 DEF PoolInv, BooksBalance, OneOwner, HeldWhileUsing, ReplenishFails
  <2>4. NobodyWhileWarming' /\ OverrunIsBounded' /\ OneBatch'
    BY <1>6 DEF PoolInv, NobodyWhileWarming, OverrunIsBounded, OneBatch, ReplenishFails
  <2> QED BY <2>2, <2>3, <2>4 DEF PoolInv
<1>7. ASSUME NEW k \in Callers, Call(k) \/ RefuseClosed(k) \/ Exhausted(k)
      PROVE  PoolInv'
  <2>1. PICK l \in {"out", "acquiring"} : pc' = [pc EXCEPT ![k] = l]
    BY <1>7 DEF Call, RefuseClosed, Exhausted, Goto
  <2>2. /\ UNCHANGED <<warm, idle, total, inUse, closed, replenish, held, open>>
        /\ pc[k] \in Outside
        /\ pc[k] = "out" => warm = MinSize
    BY <1>7 DEF Call, RefuseClosed, Exhausted, InLoop, Outside
  <2>3. Users' = Users
    BY <2>1, <2>2, UserStays DEF PoolInv, Outside
  <2>4. TypeOK'
    BY <2>1, <2>2 DEF PoolInv, TypeOK
  <2>5. BooksBalance'
    BY <2>2, <2>3 DEF PoolInv, BooksBalance
  <2>6. OneOwner' /\ HeldWhileUsing'
    BY <2>1, <2>2 DEF PoolInv, OneOwner, HeldWhileUsing, TypeOK, Outside
  <2>7. NobodyWhileWarming' /\ OverrunIsBounded' /\ OneBatch'
    BY <2>1, <2>2 DEF PoolInv, NobodyWhileWarming, OverrunIsBounded, OneBatch, TypeOK
  <2> QED BY <2>4, <2>5, <2>6, <2>7 DEF PoolInv
<1>8. ASSUME NEW k \in Callers, NEW c \in Conns, TakeIdle(k, c) PROVE PoolInv'
  <2>1. pc[k] \in Outside /\ ~(warm < MinSize)
    BY <1>8 DEF TakeIdle, InLoop, Outside, PoolInv, NobodyWhileWarming
  <2>2. Cardinality(Users') = Cardinality(Users) + 1
    BY <1>8, <2>1, UserEnters DEF TakeIdle, Goto, PoolInv
  <2>3. Cardinality(idle') = Cardinality(idle) - 1
    BY <1>8, PoolFinite, FS_RemoveElement DEF TakeIdle, PoolInv
  <2>4. TypeOK'
    BY <1>8 DEF PoolInv, TypeOK, TakeIdle, Goto
  <2>5. BooksBalance'
    BY <1>8, <2>2, <2>3 DEF PoolInv, BooksBalance, TakeIdle
  <2>6. OneOwner'
    <3>1. \A j \in Callers : held[j] # c
      BY <1>8, PoolAssumption DEF PoolInv, OneOwner, TakeIdle
    <3>2. /\ held'[k] = c /\ pc'[k] = "using" /\ c \notin idle' /\ open' = open
          /\ \A j \in Callers \ {k} : held'[j] = held[j] /\ pc'[j] = pc[j]
          /\ held[k] = None
      BY <1>8, <2>1 DEF PoolInv, HeldWhileUsing, TakeIdle, Goto, TypeOK, Outside
    <3>3. \A x \in open : x \in idle' \/ \E j \in Callers : held'[j] = x
      BY <1>8, <3>1, <3>2, PoolAssumption DEF PoolInv, OneOwner, TakeIdle, TypeOK
    <3>4. \A x \in idle' : x \in idle
      BY <1>8 DEF TakeIdle
    <3> QED BY <3>1, <3>2, <3>3, <3>4 DEF PoolInv, OneOwner
  <2>7. HeldWhileUsing'
    BY <1>8, PoolAssumption DEF PoolInv, HeldWhileUsing, TakeIdle, Goto, TypeOK
  <2>8. NobodyWhileWarming' /\ OverrunIsBounded' /\ OneBatch'
    BY <1>8, <2>1 DEF PoolInv, NobodyWhileWarming, OverrunIsBounded, OneBatch, TakeIdle
  <2> QED BY <2>4, <2>5, <2>6, <2>7, <2>8 DEF PoolInv
<1>9. ASSUME NEW k \in Callers, NEW c \in Conns, DropDead(k, c) PROVE PoolInv'
  <2>1. pc[k] \in Outside /\ ~(warm < MinSize)
    BY <1>9 DEF DropDead, InLoop, Outside, PoolInv, NobodyWhileWarming
  <2>2. Users' = Users
    BY <1>9, <2>1, UserStays DEF DropDead, Goto, PoolInv, Outside
  <2>3. Cardinality(idle') = Cardinality(idle) - 1
    BY <1>9, PoolFinite, FS_RemoveElement DEF DropDead, PoolInv
  <2>4. TypeOK'
    BY <1>9 DEF PoolInv, TypeOK, DropDead, Goto
  <2>5. BooksBalance'
    BY <1>9, <2>2, <2>3 DEF PoolInv, BooksBalance, DropDead
  <2>6. OneOwner' /\ HeldWhileUsing'
    BY <1>9, <2>1 DEF PoolInv, OneOwner, HeldWhileUsing, DropDead, Goto, TypeOK, Outside
  <2>7. NobodyWhileWarming' /\ OverrunIsBounded' /\ OneBatch'
    BY <1>9, <2>1 DEF PoolInv, NobodyWhileWarming, OverrunIsBounded, OneBatch, DropDead
  <2> QED BY <2>4, <2>5, <2>6, <2>7 DEF PoolInv
<1>10. ASSUME NEW k \in Callers, StartDial(k) PROVE PoolInv'
  <2>1. pc[k] \in Outside /\ ~(warm < MinSize)
    BY <1>10 DEF StartDial, InLoop, Outside, PoolInv, NobodyWhileWarming
  <2>2. Cardinality(Users') = Cardinality(Users) + 1
    BY <1>10, <2>1, UserEnters DEF StartDial, Goto, PoolInv
  <2>3. TypeOK'
    BY <1>10 DEF PoolInv, TypeOK, StartDial, Goto
  <2>4. BooksBalance'
    BY <1>10, <2>2 DEF PoolInv, BooksBalance, StartDial
  <2>5. OneOwner' /\ HeldWhileUsing'
    BY <1>10, <2>1 DEF PoolInv, OneOwner, HeldWhileUsing, StartDial, Goto, TypeOK, Outside
  <2>6. NobodyWhileWarming' /\ OverrunIsBounded' /\ OneBatch'
    BY <1>10, <2>1 DEF PoolInv, NobodyWhileWarming, OverrunIsBounded, OneBatch, StartDial
  <2> QED BY <2>3, <2>4, <2>5, <2>6 DEF PoolInv
<1>11. ASSUME NEW k \in Callers, NEW c \in Conns, Dialed(k, c) PROVE PoolInv'
  <2>1. c \notin open \cup idle /\ \A j \in Callers : held[j] # c
    BY <1>11 DEF Dialed, Fresh
  <2>2. Users' = Users
    BY <1>11, UserStays DEF Dialed, Goto, PoolInv
  <2>3. ~(warm < MinSize)
    BY <1>11 DEF Dialed, PoolInv, NobodyWhileWarming
  <2>4. TypeOK'
    BY <1>11 DEF PoolInv, TypeOK, Dialed, Goto
  <2>5. BooksBalance'
    BY <1>11, <2>2 DEF PoolInv, BooksBalance, Dialed
  <2>6. OneOwner'
    <3>1. /\ held'[k] = c /\ pc'[k] = "using" /\ idle' = idle /\ open' = open \cup {c}
          /\ \A j \in Callers \ {k} : held'[j] = held[j] /\ pc'[j] = pc[j]
          /\ held[k] = None
      BY <1>11 DEF PoolInv, HeldWhileUsing, Dialed, Goto, TypeOK
    <3>2. \A x \in open' : x \in idle' \/ \E j \in Callers : held'[j] = x
      BY <1>11, <2>1, <3>1, PoolAssumption DEF PoolInv, OneOwner, TypeOK
    <3> QED BY <2>1, <3>1, <3>2 DEF PoolInv, OneOwner
  <2>7. HeldWhileUsing'
    BY <1>11, PoolAssumption DEF PoolInv, HeldWhileUsing, Dialed, Goto, TypeOK
  <2>8. NobodyWhileWarming' /\ OverrunIsBounded' /\ OneBatch'
    BY <1>11, <2>3 DEF PoolInv, NobodyWhileWarming, OverrunIsBounded, OneBatch, Dialed
  <2> QED BY <2>4, <2>5, <2>6, <2>7, <2>8 DEF PoolInv
<1>12. ASSUME NEW k \in Callers, DialFails(k) PROVE PoolInv'
  <2>1. Cardinality(Users') = Cardinality(Users) - 1 /\ Cardinality(Users') \in Nat
    <3>1. Cardinality(Users') = Cardinality(Users) - 1
      BY <1>12, UserLeaves DEF DialFails, Goto, PoolInv
    <3>2. k \in Users
      BY <1>12 DEF DialFails, Users
    <3> QED BY <3>1, <3>2, PoolFinite, FS_EmptySet DEF PoolInv
  <2>2. ~(warm < MinSize)
    BY <1>12 DEF DialFails, PoolInv, NobodyWhileWarming
  <2>3. BooksBalance'
    BY <1>12, <2>1 DEF PoolInv, BooksBalance, DialFails
  <2>4. TypeOK'
    BY <1>12, <2>1 DEF PoolInv, TypeOK, DialFails, Goto, BooksBalance
  <2>5. OneOwner' /\ HeldWhileUsing'
    BY <1>12 DEF PoolInv, OneOwner, HeldWhileUsing, DialFails, Goto, TypeOK
  <2>6. NobodyWhileWarming' /\ OverrunIsBounded' /\ OneBatch'
    BY <1>12, <2>2 DEF PoolInv, NobodyWhileWarming, OverrunIsBounded, OneBatch, DialFails
  <2> QED BY <2>3, <2>4, <2>5, <2>6 DEF PoolInv
<1>13. ASSUME NEW k \in Callers, Break(k) PROVE PoolInv'
  <2>1. Users' = Users
    BY <1>13 DEF Break, Users
  <2>2. TypeOK'
    BY <1>13 DEF PoolInv, TypeOK, Break
  <2>3. BooksBalance' /\ OneOwner' /\ HeldWhileUsing'
    BY <1>13, <2>1 DEF PoolInv, BooksBalance, OneOwner, HeldWhileUsing, Break
  <2>4. NobodyWhileWarming' /\ OverrunIsBounded' /\ OneBatch'
    BY <1>13 DEF PoolInv, NobodyWhileWarming, OverrunIsBounded, OneBatch, Break
  <2> QED BY <2>2, <2>3, <2>4 DEF PoolInv
<1>14. ASSUME NEW k \in Callers, Release(k) PROVE PoolInv'
  <2>1. Cardinality(Users') = Cardinality(Users) - 1 /\ Cardinality(Users') \in Nat
    <3>1. Cardinality(Users') = Cardinality(Users) - 1
      BY <1>14, UserLeaves DEF Release, Goto, PoolInv
    <3>2. k \in Users
      BY <1>14 DEF Release, Users
    <3> QED BY <3>1, <3>2, PoolFinite, FS_EmptySet DEF PoolInv
  <2>2. ~(warm < MinSize)
    BY <1>14 DEF Release, PoolInv, NobodyWhileWarming
  <2>3. held[k] \in Conns /\ held[k] \notin idle
    BY <1>14 DEF Release, PoolInv, HeldWhileUsing, OneOwner, TypeOK
  <2>4. Cardinality(idle \cup {held[k]}) = Cardinality(idle) + 1
    BY <2>3, PoolFinite, FS_AddElement DEF PoolInv
  <2>5. BooksBalance'
    <3>1. inUse' = Cardinality(Users')
      BY <1>14, <2>1 DEF PoolInv, BooksBalance, Release
    <3>2. ASSUME ~closed' PROVE total' = Cardinality(idle') + inUse'
      <4>1. ~closed /\ total = Cardinality(idle) + inUse /\ inUse' = inUse - 1
        BY <1>14, <3>2 DEF PoolInv, BooksBalance, Release
      <4>2. CASE Cardinality(idle) >= MaxSize
        BY <1>14, <4>1, <4>2 DEF Release
      <4>3. CASE ~(Cardinality(idle) >= MaxSize)
        <5>1. idle' = idle \cup {held[k]} /\ total' = total
          BY <1>14, <4>1, <4>3 DEF Release
        <5> QED BY <2>4, <4>1, <5>1
      <4> QED BY <4>2, <4>3
    <3> QED BY <3>1, <3>2 DEF BooksBalance
  <2>6. TypeOK'
    BY <1>14, <2>1, <2>3 DEF PoolInv, TypeOK, Release, Goto, BooksBalance
  <2>7. OneOwner'
    BY <1>14, <2>3 DEF PoolInv, OneOwner, Release, Goto, TypeOK
  <2>8. HeldWhileUsing'
    BY <1>14 DEF PoolInv, HeldWhileUsing, Release, Goto, TypeOK
  <2>9. NobodyWhileWarming' /\ OverrunIsBounded' /\ OneBatch'
    BY <1>14, <2>2 DEF PoolInv, NobodyWhileWarming, OverrunIsBounded, OneBatch, Release
  <2> QED BY <2>5, <2>6, <2>7, <2>8, <2>9 DEF PoolInv
<1>15. CASE UNCHANGED vars
  BY <1>15 DEF vars, PoolInv, TypeOK, BooksBalance, Users, OneOwner, HeldWhileUsing,
       NobodyWhileWarming, OverrunIsBounded, OneBatch
<1> QED
  BY <1>1, <1>2, <1>3, <1>4, <1>5, <1>6, <1>7, <1>8, <1>9, <1>10, <1>11, <1>12, <1>13,
     <1>14, <1>15 DEF Next, Acquire

LEMMA PoolInvariant == Spec => []PoolInv
BY PoolInitHolds, PoolStep, PTL DEF Spec

\* The pool's variables keep their types: inUse in particular is never
\* negative, whatever Acquire, Release and Close do to it.
THEOREM PoolTypeCorrect == Spec => []TypeOK
BY PoolInvariant, PTL DEF PoolInv

\* inUse and, until Close, total are right whenever the lock is free.
THEOREM PoolBooksBalance == Spec => []BooksBalance
BY PoolInvariant, PTL DEF PoolInv

\* No connection is given to two callers or left in the idle list while in use,
\* and no socket is leaked.
THEOREM PoolOneOwner == Spec => []OneOwner
BY PoolInvariant, PTL DEF PoolInv

\* A pool whose reaper's goroutines end between ticks never counts more than
\* MaxSize + MinSize connections, what is being dialled included.
THEOREM PoolOverrunBounded == Spec => []OverrunIsBounded
BY PoolInvariant, PTL DEF PoolInv

-----------------------------------------------------------------------------
(* ConnPool implements Lending *)

\* A closed pool has no idle connections: what Lending says of a shut shop.
ClosedIsEmpty == closed => idle = {}

LEMMA ClosedStaysEmpty == ClosedIsEmpty /\ [Next]_vars => ClosedIsEmpty'
<1> SUFFICES ASSUME ClosedIsEmpty, [Next]_vars PROVE ClosedIsEmpty'
  OBVIOUS
<1> USE DEF ClosedIsEmpty
<1>1. CASE \E c \in Conns : Prewarm(c) \/ Replenished(c)
  BY <1>1 DEF Prewarm, Replenished, Add
<1>2. CASE PrewarmFails \/ Close
  BY <1>2 DEF PrewarmFails, Close, Shut
<1>3. CASE Reap
  BY <1>3 DEF Reap
<1>4. CASE ReplenishFails
  BY <1>4 DEF ReplenishFails
<1>5. ASSUME NEW k \in Callers, Call(k) \/ Acquire(k) \/ Break(k) PROVE ClosedIsEmpty'
  BY <1>5 DEF Call, Acquire, RefuseClosed, Exhausted, StartDial, DialFails, TakeIdle,
     DropDead, Dialed, Break
<1>6. ASSUME NEW k \in Callers, Release(k) PROVE ClosedIsEmpty'
  BY <1>6 DEF Release
<1>7. CASE UNCHANGED vars
  BY <1>7 DEF vars
<1> QED BY <1>1, <1>2, <1>3, <1>4, <1>5, <1>6, <1>7 DEF Next

\* The empty pool is an empty shop.
LEMMA LendingInit == Init => Library!Init
BY DEF Init, Library!Init

\* Every step of the pool is a step of the shop, or none.
LEMMA LendingStep ==
  ASSUME PoolInv, ClosedIsEmpty, [Next]_vars
  PROVE  [Library!Next]_Library!lendingVars
<1> DEFINE Same == UNCHANGED <<idle, held, closed>>
<1>0. Same => [Library!Next]_Library!lendingVars
  BY DEF Library!lendingVars
<1>1. ASSUME NEW c \in Conns, c \in Fresh, Add(c), UNCHANGED <<closed, held>>
      PROVE  Same \/ Library!Stock(c)
  BY <1>1 DEF Fresh, Add, Library!Stock, Library!Free
<1>2. ASSUME NEW c \in Conns, Prewarm(c) \/ Replenished(c) PROVE Same \/ Library!Stock(c)
  BY <1>1, <1>2 DEF Prewarm, Replenished
<1>3. CASE PrewarmFails \/ Close
  <2>1. Library!Shut
    BY <1>3 DEF PrewarmFails, Close, Shut, Library!Shut
  <2> QED BY <2>1 DEF Library!Next
<1>4. CASE Reap
  <2>1. Library!Discard
    BY <1>4 DEF Reap, Library!Discard
  <2> QED BY <2>1 DEF Library!Next
<1>5. CASE ReplenishFails
  BY <1>0, <1>5 DEF ReplenishFails
<1>6. ASSUME NEW k \in Callers, Call(k) \/ RefuseClosed(k) \/ Exhausted(k) \/ StartDial(k)
                                \/ DialFails(k) \/ Break(k)
      PROVE  Same
  BY <1>6 DEF Call, RefuseClosed, Exhausted, StartDial, DialFails, Break
<1>7. ASSUME NEW k \in Callers, NEW c \in Conns, TakeIdle(k, c) PROVE Library!Lend(k, c)
  <2>1. ~ closed
    BY <1>7 DEF ClosedIsEmpty, TakeIdle
  <2>2. held[k] = None
    BY <1>7 DEF PoolInv, HeldWhileUsing, TakeIdle, InLoop
  <2> QED BY <1>7, <2>1, <2>2 DEF TakeIdle, Library!Lend
<1>8. ASSUME NEW k \in Callers, NEW c \in Conns, DropDead(k, c) PROVE Library!Discard
  BY <1>8 DEF DropDead, Library!Discard
<1>9. ASSUME NEW k \in Callers, NEW c \in Conns, Dialed(k, c) PROVE Library!LendNew(k, c)
  <2>1. held[k] = None
    BY <1>9 DEF PoolInv, HeldWhileUsing, Dialed
  <2> QED BY <1>9, <2>1 DEF Dialed, Fresh, Library!LendNew, Library!Free
<1>10. ASSUME NEW k \in Callers, Release(k) PROVE Library!Return(k)
  <2>1. held[k] # None
    BY <1>10 DEF PoolInv, HeldWhileUsing, Release
  <2> QED BY <1>10, <2>1 DEF Release, Library!Return
<1>11. CASE UNCHANGED vars
  BY <1>0, <1>11 DEF vars
<1>12. ASSUME NEW k \in Callers, Acquire(k) PROVE [Library!Next]_Library!lendingVars
  BY <1>0, <1>6, <1>7, <1>8, <1>9, <1>12 DEF Acquire, Library!Next
<1> QED
  BY <1>0, <1>2, <1>3, <1>4, <1>5, <1>6, <1>10, <1>11, <1>12 DEF Next, Library!Next

\* The pool implements Lending, for any callers, connections and sizes: no
\* interleaving of Acquire, Release, the reaper and Close lends a connection
\* twice, or stocks or lends from a closed pool.
THEOREM PoolLends == Spec => LendsAsPromised
<1>1. Init => ClosedIsEmpty
  BY DEF Init, ClosedIsEmpty
<1> QED
  BY <1>1, PoolInvariant, ClosedStaysEmpty, LendingInit, LendingStep, PTL
     DEF Spec, LendsAsPromised, Library!Spec
=============================================================================
