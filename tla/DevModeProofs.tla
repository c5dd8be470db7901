--------------------------- MODULE DevModeProofs ----------------------------
(***************************************************************************)
(* Proofs about the two services of vyx dev, for any number of workers,    *)
(* files, timers, streams and entries: the path of a worker's output to    *)
(* the log viewer (WorkerOutput) and hot reload (HotReload).  They share   *)
(* no state.                                                               *)
(***************************************************************************)
EXTENDS WorkerOutput, HotReload, FiniteSetTheorems, TLAPS

-----------------------------------------------------------------------------
(* The ring of the multiplexer *)

\* The remainder of a number below twice the divisor.
LEMMA SmallRemainder ==
  ASSUME NEW n \in Nat \ {0}, NEW a \in Nat, a < n + n
  PROVE  (a < n => a % n = a) /\ (n <= a => a % n = a - n)
<1> DEFINE q == a \div n
<1>1. q \in Int /\ (a % n) \in 0 .. n - 1 /\ a = n * q + (a % n)
  OBVIOUS
<1> HIDE DEF q
<1>2. q < 2
  <2> SUFFICES ASSUME q >= 2 PROVE FALSE
    BY <1>1
  <2>1. n * q >= n * 2
    BY <1>1
  <2> QED BY <1>1, <2>1
<1>3. q > -1
  <2> SUFFICES ASSUME q <= -1 PROVE FALSE
    BY <1>1
  <2>1. n * q <= n * (-1)
    BY <1>1
  <2> QED BY <1>1, <2>1
<1>4. CASE q = 0
  BY <1>1, <1>4
<1>5. CASE q = 1
  BY <1>1, <1>5
<1> QED BY <1>1, <1>2, <1>3, <1>4, <1>5

\* An index that has gone round at most once, brought back into the ring.
LEMMA RingIndex ==
  \A a \in Nat : a < Size + Size => a % Size = IF a < Size THEN a ELSE a - Size
<1>0. Size \in Nat \ {0}
  BY OutputAssumption
<1> SUFFICES ASSUME NEW a \in Nat, a < Size + Size
             PROVE  a % Size = IF a < Size THEN a ELSE a - Size
  OBVIOUS
<1>1. (a < Size => a % Size = a) /\ (Size <= a => a % Size = a - Size)
  BY <1>0, SmallRemainder, Zenon
<1> QED BY <1>0, <1>1

\* Where the entry lies that was pushed i entries before the next one.
Back(h, i) == IF i <= h THEN h - i ELSE h - i + Size

\* Entries counts forwards from the oldest entry; that is Back from the head.
LEMMA OldestIndex ==
  ASSUME NEW h \in 0..(Size - 1), NEW c \in 0..Size, NEW i \in 1..c
  PROVE  (((h + Size - c) % Size) + (i - 1)) % Size = Back(h, c + 1 - i)
<1>0. Size \in Nat \ {0}
  BY OutputAssumption
<1>1. PICK a \in Nat : a = h + Size - c /\ a < Size + Size
  BY <1>0
<1>2. PICK o \in Nat : o = a % Size /\ o = IF a < Size THEN a ELSE a - Size
  <2>1. a % Size = IF a < Size THEN a ELSE a - Size
    BY <1>1, RingIndex
  <2>2. (IF a < Size THEN a ELSE a - Size) \in Nat
    BY <1>0, <1>1
  <2> QED BY <2>1, <2>2
<1>3. PICK b \in Nat : b = o + (i - 1) /\ b < Size + Size
  BY <1>0, <1>1, <1>2
<1>4. b % Size = IF b < Size THEN b ELSE b - Size
  BY <1>3, RingIndex
<1>5. b % Size = Back(h, c + 1 - i)
  BY <1>0, <1>1, <1>2, <1>3, <1>4 DEF Back
<1> QED BY <1>1, <1>2, <1>3, <1>5

\* When the head moves on, what was i - 1 back is i back, and the place that is
\* written is none of these.
LEMMA BackSteps ==
  ASSUME NEW h \in 0..(Size - 1), NEW i \in 1..Size, i > 1, NEW k,
         k = IF h + 1 < Size THEN h + 1 ELSE 0
  PROVE  Back(k, i) = Back(h, i - 1) /\ Back(h, i - 1) \in 0..(Size - 1) /\ Back(h, i - 1) # h
<1>0. Size \in Nat \ {0}
  BY OutputAssumption
<1>1. CASE h + 1 < Size
  BY <1>0, <1>1 DEF Back
<1>2. CASE h + 1 >= Size
  BY <1>0, <1>2 DEF Back
<1> QED BY <1>0, <1>1, <1>2

\* The ring is the tail, read backwards from the head.
RingInv ==
  /\ pushed \in Seq(Writers \X Nat)
  /\ ring = [entries |-> ring.entries, head |-> ring.head, count |-> ring.count]
  /\ ring.entries \in [0..(Size - 1) -> {None} \cup (Writers \X Nat)]
  /\ ring.head \in 0..(Size - 1)
  /\ ring.count = IF Len(pushed) < Size THEN Len(pushed) ELSE Size
  /\ \A i \in 1..ring.count :
       ring.entries[Back(ring.head, i)] = pushed[Len(pushed) + 1 - i]

\* The entries of a writer can be counted.
LEMMA CountedFinite ==
  ASSUME pushed \in Seq(Writers \X Nat), NEW w
  PROVE  /\ IsFiniteSet({i \in DOMAIN pushed : pushed[i][1] = w})
         /\ Logged(w) \in Nat
<1>1. DOMAIN pushed = 1..Len(pushed) /\ Len(pushed) \in Nat
  OBVIOUS
<1>2. IsFiniteSet(1..Len(pushed))
  BY <1>1, FS_Interval
<1>3. IsFiniteSet({i \in DOMAIN pushed : pushed[i][1] = w})
  BY <1>1, <1>2, FS_Subset
<1> QED BY <1>3, FS_CardinalityType DEF Logged

\* A push keeps the ring the tail, full or not.
LEMMA RingPush ==
  ASSUME RingInv, NEW w \in Writers, Push(w)
  PROVE  RingInv'
<1> DEFINE e == <<w, Logged(w) + 1>>
           n == Len(pushed)
           h == ring.head
<1>0. Size \in Nat \ {0}
  BY OutputAssumption
<1>1. e \in Writers \X Nat
  <2>1. Logged(w) \in Nat
    BY CountedFinite DEF RingInv
  <2> QED BY <2>1
<1>2. pushed' = Append(pushed, e) /\ ring' = Insert(ring, e)
  BY DEF Push
<1> HIDE DEF e
<1>3. /\ pushed' \in Seq(Writers \X Nat) /\ n \in Nat /\ Len(pushed') = n + 1
      /\ pushed'[n + 1] = e /\ \A i \in 1..n : pushed'[i] = pushed[i]
  BY <1>1, <1>2 DEF RingInv
<1>4. h \in 0..(Size - 1) /\ (h + 1) % Size = IF h + 1 < Size THEN h + 1 ELSE 0
  <2>1. h \in 0..(Size - 1) /\ h + 1 \in Nat /\ h + 1 < Size + Size
    BY <1>0 DEF RingInv
  <2>2. /\ h + 1 < Size => (h + 1) % Size = h + 1
        /\ Size <= h + 1 => (h + 1) % Size = h + 1 - Size
    BY <1>0, <2>1, RingIndex
  <2> QED BY <1>0, <2>1, <2>2
<1>5. /\ ring'.entries = [ring.entries EXCEPT ![h] = e]
      /\ ring'.head = IF h + 1 < Size THEN h + 1 ELSE 0
      /\ ring'.count = IF ring.count < Size THEN ring.count + 1 ELSE ring.count
      /\ ring' = [entries |-> ring'.entries, head |-> ring'.head, count |-> ring'.count]
  BY <1>2, <1>4 DEF Insert
<1>6. ring'.count = IF Len(pushed') < Size THEN Len(pushed') ELSE Size
  BY <1>0, <1>3, <1>5 DEF RingInv
<1>7. /\ ring'.entries \in [0..(Size - 1) -> {None} \cup (Writers \X Nat)]
      /\ ring'.head \in 0..(Size - 1)
  BY <1>0, <1>1, <1>4, <1>5 DEF RingInv
<1>8. ASSUME NEW i \in 1..ring'.count
      PROVE  ring'.entries[Back(ring'.head, i)] = pushed'[Len(pushed') + 1 - i]
  <2>0. i \in 1..Size /\ i <= n + 1 /\ ring.count \in 0..Size
    <3> HIDE DEF n
    <3>1. ring.count = IF n < Size THEN n ELSE Size
      BY DEF RingInv, n
    <3>2. ring'.count = IF n + 1 < Size THEN n + 1 ELSE Size
      BY <1>3, <1>6
    <3>3. n \in Nat
      BY <1>3
    <3>4. ring.count \in 0..Size
      BY <1>0, <3>1, <3>3
    <3>5. i \in 1..Size /\ i <= n + 1
      BY <1>0, <3>2, <3>3
    <3> QED BY <3>4, <3>5
  <2>1. CASE i = 1
    <3>1. Back(ring'.head, i) = h
      BY <1>0, <1>4, <1>5, <2>1 DEF Back
    <3> QED BY <1>0, <1>3, <1>4, <1>5, <2>1, <3>1 DEF RingInv
  <2>2. CASE i > 1
    <3>1. /\ Back(ring'.head, i) = Back(h, i - 1)
          /\ Back(h, i - 1) \in 0..(Size - 1) /\ Back(h, i - 1) # h
      BY <1>4, <1>5, <2>0, <2>2, BackSteps
    <3>3. i - 1 \in 1..ring.count
      BY <1>0, <1>5, <2>0, <2>2
    <3>4. ring'.entries[Back(h, i - 1)] = ring.entries[Back(h, i - 1)]
      BY <1>5, <3>1 DEF RingInv
    <3>5. ring.entries[Back(h, i - 1)] = pushed[n + 1 - (i - 1)]
      BY <3>3 DEF RingInv
    <3>6. pushed'[Len(pushed') + 1 - i] = pushed[n + 1 - (i - 1)]
      <4>1. Len(pushed') + 1 - i = n + 1 - (i - 1) /\ n + 1 - (i - 1) \in 1..n
        BY <1>3, <2>0, <2>2
      <4> QED BY <1>3, <4>1
    <3> QED BY <3>1, <3>4, <3>5, <3>6
  <2> QED BY <2>0, <2>1, <2>2
<1> QED BY <1>3, <1>5, <1>6, <1>7, <1>8 DEF RingInv

\* A step pushes an entry, or leaves the ring.
LEMMA Pushes ==
  ASSUME [Next]_vars
  PROVE  (\E w \in Writers : Push(w)) \/ UNCHANGED <<ring, pushed>>
<1>1. ASSUME NEW s \in Streams, PipeLog(s) PROVE Push(s) \/ UNCHANGED <<ring, pushed>>
  BY <1>1 DEF PipeLog, Select, Read, Line, Flush
<1> QED BY <1>1 DEF Next, Notify, Subscribe, Forward, Unsubscribe, CoreLogs, ScanLine,
                    ScanEnds, Write, Copy, Exit, CallerEnds, CleanUp, StopCalled,
                    StopReturns, StopTimesOut, vars, Writers

\* What is read backwards is what Entries returns.
LEMMA RingIsTail == RingInv => EntriesAreTheTail
<1> SUFFICES ASSUME RingInv PROVE EntriesAreTheTail
  OBVIOUS
<1> DEFINE n == Len(pushed)
           h == ring.head
           c == ring.count
           kept == IF n < Size THEN n ELSE Size
<1>0. /\ Size \in Nat \ {0} /\ n \in Nat /\ h \in 0..(Size - 1) /\ c = kept /\ c \in 0..Size
      /\ c <= n /\ pushed \in Seq(Writers \X Nat)
  BY OutputAssumption DEF RingInv
<1>1. \A i \in 1..c : ring.entries[Back(h, i)] = pushed[n + 1 - i]
  BY DEF RingInv
<1> HIDE DEF n, h, c
<1>2. ASSUME NEW i \in 1..c
      PROVE  ring.entries[(((h + Size - c) % Size) + (i - 1)) % Size] = pushed[n - c + i]
  <2>5. (((h + Size - c) % Size) + (i - 1)) % Size = Back(h, c + 1 - i)
    BY <1>0, OldestIndex
  <2>6. c + 1 - i \in 1..c /\ n + 1 - (c + 1 - i) = n - c + i
    BY <1>0
  <2>7. ring.entries[Back(h, c + 1 - i)] = pushed[n + 1 - (c + 1 - i)]
    BY <1>1, <2>6
  <2> QED BY <2>5, <2>6, <2>7
<1>3. Entries = [i \in 1..c |-> pushed[n - c + i]]
  BY <1>2 DEF Entries, h, c
<1>4. SubSeq(pushed, n - c + 1, n) = [i \in 1..c |-> pushed[n - c + i]]
  <2>1. 1 + n - (n - c + 1) = c
    BY <1>0
  <2>2. SubSeq(pushed, n - c + 1, n)
          = [i \in 1..(1 + n - (n - c + 1)) |-> pushed[i + (n - c + 1) - 1]]
    BY <1>0
  <2>3. \A i \in 1..c : i + (n - c + 1) - 1 = n - c + i
    BY <1>0
  <2> QED BY <2>1, <2>2, <2>3
<1> QED BY <1>0, <1>3, <1>4 DEF EntriesAreTheTail, n

\* Nothing was pushed and nothing is kept.
LEMMA RingInit == Init => RingInv
BY OutputAssumption DEF Init, RingInv, EmptyRing

\* Only a push touches the ring.
LEMMA RingStep == RingInv /\ [Next]_vars => RingInv'
<1> SUFFICES ASSUME RingInv, [Next]_vars PROVE RingInv'
  OBVIOUS
<1>1. CASE UNCHANGED <<ring, pushed>>
  BY <1>1 DEF RingInv, Back
<1> QED BY <1>1, RingPush, Pushes

\* For any capacity and any interleaving of the writers' pushes, Entries returns
\* the last entries pushed, as many as the ring holds, oldest first.
THEOREM RingHoldsTheTail == Spec => []EntriesAreTheTail
BY RingInit, RingStep, RingIsTail, PTL DEF Spec

-----------------------------------------------------------------------------
(* The lines of a stream *)

Texts == [written : Nat, copied : Nat, read : Nat]
Places == {"select", "read", "lines", "flush", "off"}

\* What pipeLog has handed over of a stream, at each place it can be.
Handed(s) ==
  /\ text[s].read <= text[s].copied /\ text[s].copied <= text[s].written
  /\ pc[s] \in {"select", "read", "flush"} => Logged(s) = text[s].read \div 2
  /\ pc[s] = "lines" => Logged(s) <= text[s].read \div 2
  /\ pc[s] = "off" => Logged(s) = (text[s].read + 1) \div 2
  /\ pc[s] \in {"flush", "off"} => Cancelled

\* The waiting goroutine is done when the process is gone and all was read,
\* unless cmd.Wait gave up before.
WaitInv ==
  wait \notin {"waiting", "cut"} =>
    proc = "dead" /\ \A s \in Streams : text[s].read = text[s].written

LineInv ==
  /\ text \in [Streams -> Texts]
  /\ pc \in [Streams \cup {Source} -> Places]
  /\ \A s \in Streams : Handed(s)
  /\ WaitInv

\* A push adds one to the entries of its writer and leaves the others.
LEMMA PushCounts ==
  ASSUME pushed \in Seq(Writers \X Nat), NEW w \in Writers, Push(w)
  PROVE  /\ Logged(w)' = Logged(w) + 1
         /\ \A v : v # w => Logged(v)' = Logged(v)
<1> DEFINE Mine(v) == {i \in DOMAIN pushed : pushed[i][1] = v}
           n == Len(pushed)
<1>1. /\ n \in Nat /\ DOMAIN pushed = 1..n /\ DOMAIN pushed' = 1..(n + 1)
      /\ \A i \in 1..n : pushed'[i] = pushed[i]
      /\ pushed'[n + 1][1] = w
  <2>1. Logged(w) \in Nat
    BY CountedFinite
  <2>2. PICK e \in Writers \X Nat : pushed' = Append(pushed, e) /\ e[1] = w
    BY <2>1 DEF Push
  <2> QED BY <2>2
<1>2. Mine(w)' = Mine(w) \cup {n + 1} /\ n + 1 \notin Mine(w)
  BY <1>1
<1>3. Logged(w)' = Logged(w) + 1
  <2>1. IsFiniteSet(Mine(w))
    BY CountedFinite
  <2>2. Cardinality(Mine(w) \cup {n + 1}) = Cardinality(Mine(w)) + 1
    BY <1>2, <2>1, FS_AddElement
  <2> QED BY <1>2, <2>2 DEF Logged
<1>4. ASSUME NEW v, v # w PROVE Logged(v)' = Logged(v)
  <2>1. Mine(v)' = Mine(v)
    BY <1>1, <1>4
  <2> QED BY <2>1 DEF Logged
<1> QED BY <1>3, <1>4

\* What is handed over of a stream that does not move.
LEMMA HandedKept ==
  ASSUME NEW s \in Streams, Handed(s), Logged(s)' = Logged(s), text'[s] = text[s], pc'[s] = pc[s],
         Cancelled => Cancelled'
  PROVE  Handed(s)'
BY DEF Handed

\* pipeLog's context, once cancelled, stays so.
LEMMA StaysCancelled ==
  ASSUME [Next]_vars, Cancelled
  PROVE  Cancelled'
BY DEF Next, PipeLog, Select, Read, Line, Flush, Notify, Subscribe, Forward, Unsubscribe,
       CoreLogs, ScanLine, ScanEnds, Write, Copy, Exit, CallerEnds, CleanUp, StopCalled,
       StopReturns, StopTimesOut, vars, Cancelled

\* What does not push leaves the counts.
LEMMA NoPush ==
  ASSUME UNCHANGED pushed, NEW v
  PROVE  Logged(v)' = Logged(v)
BY DEF Logged

\* Nothing was written and nothing handed over.
LEMMA LineInit == Init => LineInv
<1> SUFFICES ASSUME Init PROVE LineInv
  OBVIOUS
<1>1. \A s \in Streams : Logged(s) = 0
  <2>1. ASSUME NEW s \in Streams PROVE {i \in DOMAIN pushed : pushed[i][1] = s} = {}
    BY DEF Init
  <2> QED BY <2>1, FS_EmptySet DEF Logged
<1>2. text \in [Streams -> Texts] /\ pc \in [Streams \cup {Source} -> Places]
  BY DEF Init, Texts, Places
<1>3. \A s \in Streams : Handed(s)
  BY <1>1 DEF Init, Handed
<1> QED BY <1>2, <1>3 DEF LineInv, WaitInv, Init

\* Each step of pipeLog, the copier, the process and the waiting goroutine keeps
\* the account of the lines.
LEMMA LineStep ==
  ASSUME RingInv, LineInv, [Next]_vars
  PROVE  LineInv'
<1>0. /\ pushed \in Seq(Writers \X Nat) /\ Source \notin Streams
      /\ \A s \in Streams : s \in Writers /\ s # Core /\ s # Source
  BY OutputAssumption DEF RingInv, Writers
<1>a. \A s \in Streams : Logged(s) \in Nat
  BY <1>0, CountedFinite
<1>b. \A s \in Streams :
        text[s] \in Texts /\ {text[s].read, text[s].copied, text[s].written} \subseteq Nat
  BY DEF LineInv, Texts
<1>c. Cancelled => Cancelled'
  BY StaysCancelled
<1>1. ASSUME UNCHANGED <<text, wait, proc>>,
             \A s \in Streams : pc'[s] = pc[s] /\ Logged(s)' = Logged(s),
             pc' \in [Streams \cup {Source} -> Places]
      PROVE  LineInv'
  <2>1. \A s \in Streams : Handed(s)'
    BY <1>1, <1>c, HandedKept DEF LineInv
  <2>2. WaitInv'
    BY <1>1 DEF LineInv, WaitInv
  <2> QED BY <1>1, <2>1, <2>2 DEF LineInv
<1>2. CASE (\E w \in Writers : Notify(w)) \/ Subscribe \/ Forward \/ Unsubscribe \/ ScanEnds
           \/ CallerEnds \/ StopCalled \/ StopReturns \/ UNCHANGED vars
  <2>1. UNCHANGED <<text, wait, proc, pushed>>
    BY <1>2 DEF Notify, Subscribe, Forward, Unsubscribe, ScanEnds, CallerEnds, StopCalled,
                StopReturns, vars
  <2>2. pc' \in [Streams \cup {Source} -> Places] /\ \A s \in Streams : pc'[s] = pc[s]
    BY <1>0, <1>2 DEF LineInv, Places, Notify, Subscribe, Forward, Unsubscribe, ScanEnds,
                      CallerEnds, StopCalled, StopReturns, vars
  <2> QED BY <1>1, <2>1, <2>2, NoPush
<1>3. CASE CoreLogs \/ ScanLine
  <2>1. UNCHANGED <<text, wait, proc, pc>>
    BY <1>3 DEF CoreLogs, ScanLine
  <2>2. \A s \in Streams : Logged(s)' = Logged(s)
    BY <1>0, <1>3, PushCounts DEF CoreLogs, ScanLine, Writers
  <2> QED BY <1>1, <2>1, <2>2 DEF LineInv
<1>4. CASE Exit \/ StopTimesOut \/ CleanUp
  <2>1. UNCHANGED <<text, pushed, pc>>
    BY <1>4 DEF Exit, StopTimesOut, CleanUp
  <2>2. \A s \in Streams : Handed(s)'
    BY <1>c, <2>1, NoPush, HandedKept DEF LineInv
  <2>3. WaitInv'
    BY <1>4 DEF LineInv, WaitInv, Exit, StopTimesOut, CleanUp
  <2> QED BY <2>1, <2>2, <2>3 DEF LineInv
<1>5. ASSUME NEW s \in Streams, Write(s) \/ Copy(s) PROVE LineInv'
  <2>1. UNCHANGED <<pushed, pc, proc, wait>> /\ wait = "waiting"
    BY <1>5 DEF Write, Copy, LineInv, WaitInv
  <2>2. text[s] \in Texts /\ text[s].read <= text[s].copied /\ text[s].copied <= text[s].written
    BY DEF LineInv, Handed
  <2>3. \A t \in Streams : t # s => text'[t] = text[t]
    BY <1>5 DEF Write, Copy, LineInv
  <2>4. /\ text' \in [Streams -> Texts]
        /\ text'[s].read = text[s].read
        /\ text'[s].read <= text'[s].copied
        /\ text'[s].copied <= text'[s].written
    <3>1. CASE Write(s)
      <4>1. text' = [text EXCEPT ![s] = [text[s] EXCEPT !.written = text[s].written + 1]]
        BY <3>1 DEF Write
      <4>2. [text[s] EXCEPT !.written = text[s].written + 1] \in Texts
        BY <2>2 DEF Texts
      <4>3. /\ text' \in [Streams -> Texts]
            /\ text'[s] = [text[s] EXCEPT !.written = text[s].written + 1]
        BY <4>1, <4>2 DEF LineInv
      <4> QED BY <2>2, <4>3 DEF Texts
    <3>2. CASE Copy(s)
      <4>1. PICK m \in (text[s].copied + 1)..text[s].written :
              text' = [text EXCEPT ![s] = [text[s] EXCEPT !.copied = m]]
        BY <3>2 DEF Copy
      <4>2. m \in Nat /\ text[s].copied <= m /\ m <= text[s].written
        BY <2>2 DEF Texts
      <4>3. [text[s] EXCEPT !.copied = m] \in Texts
        BY <2>2, <4>2 DEF Texts
      <4>4. text' \in [Streams -> Texts] /\ text'[s] = [text[s] EXCEPT !.copied = m]
        BY <4>1, <4>3 DEF LineInv
      <4> QED BY <2>2, <4>2, <4>4 DEF Texts
    <3> QED BY <1>5, <3>1, <3>2
  <2>5. \A t \in Streams : t # s => Handed(t)'
    BY <1>c, <2>1, <2>3, NoPush, HandedKept DEF LineInv
  <2>6. Handed(s)'
    BY <1>c, <2>1, <2>2, <2>4, NoPush DEF LineInv, Handed
  <2>7. WaitInv'
    BY <2>1 DEF WaitInv
  <2> QED BY <2>1, <2>4, <2>5, <2>6, <2>7 DEF LineInv
<1>6. ASSUME NEW s \in Streams, PipeLog(s) PROVE LineInv'
  <2>0. UNCHANGED <<proc, wait, caller>>
    BY <1>6 DEF PipeLog, Select, Read, Line, Flush
  <2>1. /\ pc' \in [Streams \cup {Source} -> Places]
        /\ \A t \in Streams : t # s => pc'[t] = pc[t]
    BY <1>6 DEF PipeLog, Select, Read, Line, Flush, LineInv, Places
  <2>2. /\ text' \in [Streams -> Texts]
        /\ \A t \in Streams : t # s => text'[t] = text[t]
        /\ text'[s].written = text[s].written
        /\ text'[s].copied = text[s].copied
        /\ text'[s].read \in {text[s].read, text[s].copied}
    <3>1. text' = text \/ text' = [text EXCEPT ![s].read = text[s].copied]
      BY <1>6 DEF PipeLog, Select, Read, Line, Flush
    <3> QED BY <1>b, <3>1 DEF LineInv, Texts
  <2>3. \A t \in Streams : t # s => Logged(t)' = Logged(t)
    <3>1. Push(s) \/ UNCHANGED pushed
      BY <1>6 DEF PipeLog, Select, Read, Line, Flush
    <3> QED BY <1>0, <3>1, PushCounts, NoPush
  <2>4. \A t \in Streams : t # s => Handed(t)'
    BY <1>c, <2>1, <2>2, <2>3, HandedKept DEF LineInv
  <2>5. Handed(s)'
    <3>0. Handed(s) /\ pc[s] \in Places
      BY DEF LineInv
    <3>1. CASE Select(s)
      <4>1. /\ pc[s] = "select" /\ pc'[s] = IF Cancelled THEN "flush" ELSE "read"
            /\ UNCHANGED <<text, pushed>>
        BY <3>1 DEF Select, LineInv
      <4> QED BY <1>c, <3>0, <4>1, NoPush DEF Handed
    <3>2. CASE Read(s)
      <4>1. UNCHANGED pushed /\ pc[s] = "read"
        BY <3>2 DEF Read
      <4>2. CASE pc' = [pc EXCEPT ![s] = "lines"]
        <5>1. pc'[s] = "lines"
          BY <4>2 DEF LineInv
        <5>2. Logged(s)' <= text'[s].read \div 2
          <6>1. Logged(s)' = text[s].read \div 2
            BY <3>0, <4>1, NoPush DEF Handed
          <6>2. text[s].read <= text'[s].read /\ text'[s].read \in Nat
            BY <1>b, <2>2, <3>0 DEF Handed
          <6> QED BY <1>b, <6>1, <6>2
        <5>3. text'[s].read <= text'[s].copied /\ text'[s].copied <= text'[s].written
          BY <1>b, <2>2, <3>0 DEF Handed
        <5> QED BY <5>1, <5>2, <5>3 DEF Handed
      <4>3. CASE pc' = [pc EXCEPT ![s] = "flush"] /\ wait # "waiting" /\ UNCHANGED text
        <5>1. pc'[s] = "flush"
          BY <4>3 DEF LineInv
        <5> QED BY <2>0, <3>0, <4>1, <4>3, <5>1, NoPush DEF Handed, Cancelled
      <4> QED BY <3>2, <4>2, <4>3 DEF Read
    <3>3. CASE Line(s)
      <4>1. UNCHANGED text /\ pc[s] = "lines" /\ Logged(s) <= text[s].read \div 2
        BY <3>0, <3>3 DEF Line, Handed
      <4>2. CASE Logged(s) < text[s].read \div 2
        <5>1. Push(s) /\ pc' = pc
          BY <3>3, <4>2 DEF Line
        <5>2. Logged(s)' = Logged(s) + 1
          BY <1>0, <5>1, PushCounts
        <5>3. Logged(s)' <= text[s].read \div 2
          BY <1>a, <1>b, <4>2, <5>2
        <5> QED BY <3>0, <4>1, <5>1, <5>3 DEF Handed
      <4>3. CASE ~ (Logged(s) < text[s].read \div 2)
        <5>1. UNCHANGED pushed /\ pc'[s] = "select"
          BY <3>3, <4>3 DEF Line, LineInv
        <5>2. Logged(s) = text[s].read \div 2
          BY <1>a, <1>b, <4>1, <4>3
        <5> QED BY <3>0, <4>1, <5>1, <5>2, NoPush DEF Handed
      <4> QED BY <4>2, <4>3
    <3>4. CASE Flush(s)
      <4>1. /\ pc[s] = "flush" /\ pc'[s] = "off" /\ UNCHANGED text
            /\ Logged(s) = text[s].read \div 2 /\ Cancelled
        BY <3>0, <3>4 DEF Flush, LineInv, Handed
      <4>2. Logged(s)' = (text[s].read + 1) \div 2
        <5>1. CASE text[s].read % 2 = 1
          <6>1. Logged(s)' = Logged(s) + 1
            BY <1>0, <3>4, <5>1, PushCounts DEF Flush
          <6> QED BY <1>b, <4>1, <5>1, <6>1
        <5>2. CASE text[s].read % 2 # 1
          <6>1. Logged(s)' = Logged(s)
            BY <3>4, <5>2, NoPush DEF Flush
          <6> QED BY <1>b, <4>1, <5>2, <6>1
        <5> QED BY <5>1, <5>2
      <4> QED BY <1>c, <3>0, <4>1, <4>2 DEF Handed
    <3> QED BY <1>6, <3>1, <3>2, <3>3, <3>4 DEF PipeLog
  <2>6. WaitInv'
    <3> SUFFICES ASSUME wait \notin {"waiting", "cut"}
                 PROVE  proc' = "dead" /\ \A t \in Streams : text'[t].read = text'[t].written
      BY <2>0 DEF WaitInv
    <3>1. UNCHANGED text
      BY <1>6 DEF PipeLog, Select, Read, Line, Flush
    <3> QED BY <2>0, <3>1 DEF LineInv, WaitInv
  <2> QED BY <2>1, <2>2, <2>4, <2>5, <2>6 DEF LineInv
<1> QED BY <1>2, <1>3, <1>4, <1>5, <1>6 DEF Next

\* No line is handed over twice or unread, pipeLog does not return before all it
\* read is handed over, and that is all that was written unless the context of
\* the call of Spawn has ended or cmd.Wait gave up on descendants that hold the
\* pipes, or on a slow reader: for any number of streams and pieces and any size
\* of the pipe.
THEOREM LinesAreKept == Spec => []NoLineLost
<1>1. Init => RingInv /\ LineInv
  BY RingInit, LineInit
<1>2. RingInv /\ LineInv /\ [Next]_vars => RingInv' /\ LineInv'
  BY RingStep, LineStep
<1>3. RingInv /\ LineInv => NoLineLost
  <2> SUFFICES ASSUME RingInv, LineInv, NEW s \in Streams
               PROVE  /\ Logged(s) <= (text[s].read + 1) \div 2
                      /\ pc[s] = "off" => Logged(s) = (text[s].read + 1) \div 2
                      /\ pc[s] = "off" /\ caller = "live" /\ wait # "cut"
                           => text[s].read = text[s].written
    BY DEF NoLineLost
  <2>1. /\ text[s].read \in Nat /\ text[s].written \in Nat /\ Logged(s) \in Nat
        /\ Handed(s) /\ pc[s] \in Places
    BY CountedFinite DEF RingInv, LineInv, Texts
  <2>2. Logged(s) <= (text[s].read + 1) \div 2
    BY <2>1 DEF Handed, Places
  <2>3. pc[s] = "off" => Logged(s) = (text[s].read + 1) \div 2
    BY <2>1 DEF Handed
  <2>4. pc[s] = "off" /\ caller = "live" /\ wait # "cut" => text[s].read = text[s].written
    <3> SUFFICES ASSUME pc[s] = "off", caller = "live", wait # "cut"
                 PROVE  text[s].read = text[s].written
      OBVIOUS
    <3>1. wait \notin {"waiting", "cut"}
      BY <2>1 DEF Handed, Cancelled
    <3> QED BY <3>1 DEF LineInv, WaitInv
  <2> QED BY <2>2, <2>3, <2>4
<1> QED BY <1>1, <1>2, <1>3, PTL DEF Spec

\* The types, with the viewer's channel as a sequence of entries.
OutputInv ==
  /\ RingInv /\ LineInv /\ TypeOK
  /\ viewer \in [state : {"new", "on", "off"}, queue : Seq(Writers \X Nat)]

\* Notify writes to the viewer's channel only while there is room.
LEMMA ViewerStep ==
  ASSUME OutputInv, [Next]_vars
  PROVE  /\ viewer' \in [state : {"new", "on", "off"}, queue : Seq(Writers \X Nat)]
         /\ viewer'.state \in {"new", "on", "off"} /\ Len(viewer'.queue) <= QueueSize
<1> DEFINE V == [state : {"new", "on", "off"}, queue : Seq(Writers \X Nat)]
           Good(v) == v \in V /\ Len(v.queue) <= QueueSize
<1>0. Good(viewer) /\ QueueSize \in Nat
  BY OutputAssumption DEF OutputInv, TypeOK
<1>1. ASSUME NEW w \in Writers, Notify(w) PROVE Good(viewer')
  <2>1. CASE viewer.state = "on" /\ Len(viewer.queue) < QueueSize
    <3>1. due[w] \in Writers \X Nat
      BY <1>1 DEF Notify, OutputInv, TypeOK
    <3>2. viewer' = [viewer EXCEPT !.queue = Append(viewer.queue, due[w])]
      BY <1>1, <2>1 DEF Notify
    <3>3. /\ Append(viewer.queue, due[w]) \in Seq(Writers \X Nat)
          /\ Len(Append(viewer.queue, due[w])) <= QueueSize
      BY <1>0, <2>1, <3>1
    <3> QED BY <1>0, <3>2, <3>3
  <2>2. CASE ~(viewer.state = "on" /\ Len(viewer.queue) < QueueSize)
    BY <1>0, <1>1, <2>2 DEF Notify
  <2> QED BY <2>1, <2>2
<1>2. CASE Forward
  <2>1. viewer.queue # <<>> /\ viewer' = [viewer EXCEPT !.queue = Tail(viewer.queue)]
    BY <1>2 DEF Forward
  <2>2. Tail(viewer.queue) \in Seq(Writers \X Nat) /\ Len(Tail(viewer.queue)) <= QueueSize
    BY <1>0, <2>1
  <2> QED BY <1>0, <2>1, <2>2
<1>3. CASE Subscribe \/ Unsubscribe
  BY <1>0, <1>3 DEF Subscribe, Unsubscribe
<1>4. CASE UNCHANGED viewer
  BY <1>0, <1>4
<1>5. ASSUME NEW s \in Streams, PipeLog(s) PROVE UNCHANGED viewer
  BY <1>5 DEF PipeLog, Select, Read, Line, Flush
<1>6. \/ \E w \in Writers : Notify(w)
      \/ Forward \/ Subscribe \/ Unsubscribe
      \/ UNCHANGED viewer
  BY <1>5 DEF Next, CoreLogs, ScanLine, ScanEnds, Write, Copy, Exit, CallerEnds, CleanUp,
              StopCalled, StopReturns, StopTimesOut, vars
<1> QED BY <1>1, <1>2, <1>3, <1>4, <1>6

\* What a writer has put in the ring and not told of is an entry.
LEMMA DueStep ==
  ASSUME OutputInv, [Next]_vars
  PROVE  due' \in [Writers -> {None} \cup (Writers \X Nat)]
<1>0. due \in [Writers -> {None} \cup (Writers \X Nat)]
  BY DEF OutputInv, TypeOK
<1>1. ASSUME NEW w \in Writers, Push(w) PROVE due' \in [Writers -> {None} \cup (Writers \X Nat)]
  <2>1. Logged(w) \in Nat
    BY CountedFinite DEF OutputInv, RingInv
  <2>2. <<w, Logged(w) + 1>> \in Writers \X Nat
    BY <2>1
  <2> QED BY <1>0, <1>1, <2>2 DEF Push
<1>2. CASE \E w \in Writers : Notify(w)
  BY <1>0, <1>2 DEF Notify
<1>3. ASSUME NEW s \in Streams, PipeLog(s) PROVE Push(s) \/ UNCHANGED due
  BY <1>3 DEF PipeLog, Select, Read, Line, Flush
<1>4. (\E w \in Writers : Push(w) \/ Notify(w)) \/ UNCHANGED due
  BY <1>3 DEF Next, Subscribe, Forward, Unsubscribe, CoreLogs, ScanLine, ScanEnds, Write,
              Copy, Exit, CallerEnds, CleanUp, StopCalled, StopReturns, StopTimesOut, vars,
              Writers
<1> QED BY <1>0, <1>1, <1>2, <1>4

\* The pipes, the ring and the viewer's channel keep their types and their sizes.
THEOREM OutputTypeCorrect == Spec => []TypeOK
<1>1. Init => OutputInv
  <2> SUFFICES ASSUME Init PROVE OutputInv
    OBVIOUS
  <2>1. RingInv /\ LineInv
    BY RingInit, LineInit
  <2>2. viewer \in [state : {"new", "on", "off"}, queue : Seq(Writers \X Nat)]
        /\ Len(viewer.queue) <= QueueSize
    BY OutputAssumption DEF Init
  <2>3. ring.count \in 0..Size
    BY <2>1, OutputAssumption DEF RingInv
  <2> QED BY <2>1, <2>2, <2>3 DEF OutputInv, TypeOK, RingInv, LineInv, Texts, Places, Init
<1>2. OutputInv /\ [Next]_vars => OutputInv'
  <2> SUFFICES ASSUME OutputInv, [Next]_vars PROVE OutputInv'
    OBVIOUS
  <2>1. RingInv' /\ LineInv'
    BY RingStep, LineStep DEF OutputInv
  <2>2. ring'.count \in 0..Size
    BY <2>1, OutputAssumption DEF RingInv
  <2>3. /\ proc' \in {"up", "orphans", "dead"} /\ caller' \in {"live", "ended"}
        /\ wait' \in {"waiting", "done", "cut"}
        /\ stop' \in {"idle", "waiting", "stopped", "failed", "timeout"}
    BY DEF OutputInv, TypeOK, Next, PipeLog, Select, Read, Line, Flush, Notify, Subscribe,
           Forward, Unsubscribe, CoreLogs, ScanLine, ScanEnds, Write, Copy, Exit, CallerEnds,
           CleanUp, StopCalled, StopReturns, StopTimesOut, vars
  <2> QED BY <2>1, <2>2, <2>3, ViewerStep, DueStep
             DEF OutputInv, TypeOK, RingInv, LineInv, Texts, Places
<1> QED BY <1>1, <1>2, PTL DEF Spec, OutputInv

-----------------------------------------------------------------------------
(* Hot reload *)

\* Until the core is told to stop the watcher runs and no timer is cancelled.
CalmInv == ~term => watching /\ \A w \in Workers : closed[w] = {}

\* A worker has a timer in the map or finds one that nothing refers to.
LEMMA TimerOfType ==
  ASSUME ReloadTypeOK, NEW w \in Workers, entry[w] # 0 \/ Unused(w) # {}
  PROVE  TimerOf(w) \in Timers
<1>1. CASE entry[w] # 0
  BY <1>1 DEF ReloadTypeOK, TimerOf
<1>2. CASE entry[w] = 0
  <2>1. PICK i \in Unused(w) : TRUE
    BY <1>2
  <2>2. (CHOOSE j \in Unused(w) : TRUE) \in Unused(w)
    BY <2>1
  <2> QED BY <1>2, <2>2 DEF TimerOf, Unused
<1> QED BY <1>1, <1>2

\* Every step of the watcher, the timers and the loader keeps the types.
LEMMA ReloadTypeStep ==
  ASSUME ReloadTypeOK, [ReloadNext]_reloadVars
  PROVE  ReloadTypeOK'
<1> USE HotReloadAssumption DEF ReloadTypeOK
<1>1. ASSUME NEW f \in Files, Change(f) PROVE ReloadTypeOK'
  BY <1>1 DEF Change, timerVars, cfgVars
<1>2. ASSUME NEW ok \in BOOLEAN, Edit(ok) PROVE ReloadTypeOK'
  BY <1>2 DEF Edit, timerVars, cfgVars
<1>3. ASSUME NEW f \in Files, FileEvent(f) PROVE ReloadTypeOK'
  <2>1. \A w \in AffectedBy[f] : w \in Workers /\ TimerOf(w) \in Timers
    BY <1>3, TimerOfType DEF FileEvent
  <2>2. entry' \in [Workers -> Timers \cup {0}]
    BY <1>3, <2>1 DEF FileEvent, Schedule
  <2>3. armed' \in [Workers -> SUBSET Timers]
    BY <1>3, <2>1 DEF FileEvent, Schedule
  <2>4. closed' \in [Workers -> SUBSET Timers]
    BY <1>3 DEF FileEvent, Schedule
  <2> QED BY <1>3, <2>2, <2>3, <2>4 DEF FileEvent, cfgVars
<1>4. CASE YamlEvent \/ UserHangup
  BY <1>4 DEF YamlEvent, UserHangup, Hangup, timerVars, cfgVars
<1>5. CASE LoopEnds
  BY <1>5 DEF LoopEnds, cfgVars
<1>6. CASE TakeSignal \/ Load \/ SetCurrent \/ HandlerReturns
  BY <1>6 DEF TakeSignal, Load, SetCurrent, HandlerReturns, Handler, timerVars, cfgVars
<1>7. CASE Watch \/ Term
  BY <1>7 DEF Watch, Term, timerVars, cfgVars
<1>8. ASSUME NEW w \in Workers, NEW i \in Timers, Fire(w, i) PROVE ReloadTypeOK'
  BY <1>8 DEF Fire, cfgVars
<1>9. ASSUME NEW w \in Workers, NEW i \in Timers, Check(w, i) PROVE ReloadTypeOK'
  <2>1. fired[w][i] - 1 \in Nat
    BY <1>9 DEF Check
  <2> QED BY <1>9, <2>1 DEF Check, cfgVars
<1>10. ASSUME NEW w \in Workers, Unmap(w) PROVE ReloadTypeOK'
  BY <1>10 DEF Unmap, cfgVars
<1>11. ASSUME NEW w \in Workers, Restart(w) PROVE ReloadTypeOK'
  BY <1>11 DEF Restart, cfgVars
<1>12. CASE UNCHANGED reloadVars
  BY <1>12 DEF reloadVars, timerVars, cfgVars
<1> QED BY <1>1, <1>2, <1>3, <1>4, <1>5, <1>6, <1>7, <1>8, <1>9, <1>10, <1>11, <1>12
           DEF ReloadNext, Watcher, Loader, TimerStep

\* The timers, the events and the versions keep their types.
THEOREM ReloadTypeCorrect == ReloadSpec => []ReloadTypeOK
<1>1. ReloadInit => ReloadTypeOK
  <2> SUFFICES ASSUME ReloadInit PROVE ReloadTypeOK
    OBVIOUS
  <2>1. fired \in [Workers -> [Timers -> Nat]] /\ armed \in [Workers -> SUBSET Timers]
        /\ closed \in [Workers -> SUBSET Timers]
    BY DEF ReloadInit
  <2>2. disk \in [version : 0..MaxEdits, ok : BOOLEAN] /\ got = disk
    BY HotReloadAssumption DEF ReloadInit
  <2>3. 0 \in 0..MaxChanges /\ 0 \in 0..MaxEdits
    BY HotReloadAssumption
  <2>4. {disk, got} \subseteq [version : 0..MaxEdits, ok : BOOLEAN]
    BY <2>2
  <2> QED BY <2>1, <2>3, <2>4 DEF ReloadInit, ReloadTypeOK
<1> QED BY <1>1, ReloadTypeStep, PTL DEF ReloadSpec

\* Only LoopEnds, which the end of the core's context allows, closes a timer.
LEMMA CalmStep ==
  ASSUME ReloadTypeOK, CalmInv, [ReloadNext]_reloadVars
  PROVE  CalmInv'
<1> SUFFICES ASSUME ~term' PROVE watching' /\ \A w \in Workers : closed'[w] = {}
  BY DEF CalmInv
<1>1. ~term /\ watching /\ \A w \in Workers : closed[w] = {}
  <2>1. ~term
    BY DEF ReloadNext, Watcher, Loader, TimerStep, Change, Edit, FileEvent, YamlEvent, UserHangup,
           LoopEnds, TakeSignal, Load, SetCurrent, HandlerReturns, Watch, Term, Fire, Check,
           Unmap, Restart, reloadVars
  <2> QED BY <2>1 DEF CalmInv
<1>2. ASSUME NEW f \in Files, FileEvent(f)
      PROVE  watching' /\ \A w \in Workers : closed'[w] = {}
  BY <1>1, <1>2 DEF FileEvent, Schedule
<1>3. (\E f \in Files : FileEvent(f)) \/ UNCHANGED <<watching, closed>>
  BY <1>1 DEF ReloadNext, Watcher, Loader, TimerStep, Change, Edit, YamlEvent, UserHangup,
              LoopEnds, TakeSignal, Load, SetCurrent, HandlerReturns, Watch, Term, Fire, Check,
              Unmap, Restart, timerVars, reloadVars
<1> QED BY <1>1, <1>2, <1>3

\* A worker whose change is carried: what ChangeHasACarrier says of it.
Carried(w) ==
  \/ \E f \in events : w \in AffectedBy[f]
  \/ armed[w] # {}
  \/ \E i \in Timers : fired[w][i] > 0
  \/ passed[w] > 0 \/ unmapped[w] > 0

\* Until the shutdown every timer is good, and the invariant says no more.
LEMMA CarrierMeans ==
  ASSUME CalmInv, core = "up", ~term, dirty \subseteq Workers
  PROVE  ChangeHasACarrier <=> \A w \in dirty : Carried(w)
<1>1. watching /\ \A w \in dirty : Timers \ closed[w] = Timers
  BY DEF CalmInv
<1> QED BY <1>1 DEF ChangeHasACarrier, Carried

\* A carrier hands on to the next: an event to a timer, a timer to its function,
\* that to the restart; and an event for an armed timer only puts it off.
LEMMA CarriedStep ==
  ASSUME ReloadTypeOK, CalmInv, ReloadNext, ~term,
     NEW w \in Workers, Carried(w), w \in dirty'
  PROVE  Carried(w)'
<1>0. closed[w] = {}
  BY DEF CalmInv
<1> USE HotReloadAssumption DEF ReloadTypeOK
<1>1. ASSUME NEW f \in Files, Change(f) PROVE Carried(w)'
  BY <1>1 DEF Change, timerVars, Carried
<1>2. ASSUME NEW ok \in BOOLEAN, Edit(ok) PROVE Carried(w)'
  BY <1>2 DEF Edit, timerVars, Carried
<1>3. ASSUME NEW f \in Files, FileEvent(f) PROVE Carried(w)'
  <2>1. CASE w \in AffectedBy[f]
    <3>1. armed'[w] = armed[w] \cup {TimerOf(w)}
      BY <1>3, <2>1 DEF FileEvent, Schedule
    <3> QED BY <3>1 DEF Carried
  <2>2. CASE w \notin AffectedBy[f]
    <3>1. armed'[w] = armed[w] /\ events' = events \ {f} /\ UNCHANGED <<fired, passed, unmapped>>
      BY <1>3, <2>2 DEF FileEvent, Schedule
    <3> QED BY <2>2, <3>1 DEF Carried
  <2> QED BY <2>1, <2>2
<1>4. CASE \/ YamlEvent \/ UserHangup \/ TakeSignal \/ Load \/ SetCurrent
           \/ HandlerReturns \/ Watch \/ Term
  <2>1. UNCHANGED <<events, armed, fired, passed, unmapped>>
    BY <1>4 DEF YamlEvent, UserHangup, TakeSignal, Load, SetCurrent, HandlerReturns, Watch, Term,
                timerVars
  <2> QED BY <2>1 DEF Carried
<1>5. ~LoopEnds
  BY DEF LoopEnds
<1>8. ASSUME NEW v \in Workers, NEW i \in Timers, Fire(v, i) PROVE Carried(w)'
  <2>1. v # w => armed'[w] = armed[w] /\ fired'[w] = fired[w]
    BY <1>8 DEF Fire
  <2>2. v = w => fired'[w][i] > 0
    BY <1>8 DEF Fire
  <2> QED BY <1>8, <2>1, <2>2 DEF Fire, Carried
<1>9. ASSUME NEW v \in Workers, NEW i \in Timers, Check(v, i) PROVE Carried(w)'
  <2>1. v # w => passed'[w] = passed[w] /\ fired'[w] = fired[w]
    BY <1>9 DEF Check
  <2>2. v = w => passed'[w] > 0
    BY <1>0, <1>9 DEF Check
  <2> QED BY <1>9, <2>1, <2>2 DEF Check, Carried
<1>10. ASSUME NEW v \in Workers, Unmap(v) PROVE Carried(w)'
  <2>1. v # w => passed'[w] = passed[w] /\ unmapped'[w] = unmapped[w]
    BY <1>10 DEF Unmap
  <2>2. v = w => unmapped'[w] > 0
    BY <1>10 DEF Unmap
  <2> QED BY <1>10, <2>1, <2>2 DEF Unmap, Carried
<1>11. ASSUME NEW v \in Workers, Restart(v) PROVE Carried(w)'
  <2>1. v # w /\ unmapped'[w] = unmapped[w]
    BY <1>11 DEF Restart
  <2> QED BY <1>11, <2>1 DEF Restart, Carried
<1> QED BY <1>1, <1>2, <1>3, <1>4, <1>5, <1>8, <1>9, <1>10, <1>11
           DEF ReloadNext, Watcher, Loader, TimerStep

\* A worker that becomes dirty does so with an event.
LEMMA ChangesAreSeen ==
  ASSUME ReloadNext, NEW w \in dirty', w \notin dirty
  PROVE  \E f \in events' : w \in AffectedBy[f]
BY DEF ReloadNext, Watcher, Loader, TimerStep, Change, Edit, FileEvent, YamlEvent, UserHangup,
       LoopEnds, TakeSignal, Load, SetCurrent, HandlerReturns, Watch, Term, Fire, Check, Unmap,
       Restart

\* The changes that were carried still are, and so is a new one.
LEMMA CarrierStep ==
  ASSUME ReloadTypeOK, CalmInv, ChangeHasACarrier,
     [ReloadNext]_reloadVars
  PROVE  ChangeHasACarrier'
<1>1. CASE UNCHANGED reloadVars
  BY <1>1 DEF reloadVars, timerVars, ChangeHasACarrier
<1>2. CASE ReloadNext
  <2> SUFFICES ASSUME core' = "up", ~term' PROVE ChangeHasACarrier'
    BY DEF ChangeHasACarrier
  <2>1. ReloadTypeOK' /\ CalmInv'
    BY ReloadTypeStep, CalmStep
  <2>2. core = "up" /\ ~term
    BY <1>2 DEF ReloadNext, Watcher, Loader, TimerStep, Change, Edit, FileEvent, YamlEvent,
                UserHangup, LoopEnds, TakeSignal, Load, SetCurrent, HandlerReturns, Watch, Term,
                Fire, Check, Unmap, Restart, Handler
  <2>3. ASSUME NEW w \in dirty' PROVE Carried(w)'
    <3>1. w \in Workers
      BY <2>1 DEF ReloadTypeOK
    <3>2. CASE w \in dirty
      <4>1. Carried(w)
        BY <2>2, <3>2, CarrierMeans DEF ReloadTypeOK
      <4> QED BY <1>2, <2>2, <2>3, <3>1, <4>1, CarriedStep
    <3>3. CASE w \notin dirty
      BY <1>2, <2>3, <3>3, ChangesAreSeen DEF Carried
    <3> QED BY <3>2, <3>3
  <2>4. watching' /\ \A w \in dirty' : Timers \ closed'[w] = Timers
    BY <2>1 DEF CalmInv, ReloadTypeOK
  <2> QED BY <2>3, <2>4 DEF ChangeHasACarrier, Carried
<1> QED BY <1>1, <1>2

\* However the timers are put off, fire twice and leave the map, a change that no
\* restart has begun after is on its way to one, for any number of workers.
THEOREM ChangesAreCarried == ReloadSpec => []ChangeHasACarrier
<1>1. ReloadInit => CalmInv /\ ChangeHasACarrier
  BY DEF ReloadInit, CalmInv, ChangeHasACarrier
<1>2. ReloadTypeOK /\ CalmInv /\ ChangeHasACarrier /\ [ReloadNext]_reloadVars
        => CalmInv' /\ ChangeHasACarrier'
  BY CalmStep, CarrierStep
<1> QED BY <1>1, <1>2, ReloadTypeCorrect, PTL DEF ReloadSpec

\* Versions are read and set in their order.
VersionInv == current <= got.version /\ got.version <= disk.version

\* reloadAll sets what it read, which was on the disk.
LEMMA VersionStep ==
  ASSUME ReloadTypeOK, VersionInv, [ReloadNext]_reloadVars
  PROVE  VersionInv'
<1>0. current \in Int /\ got.version \in Int /\ disk.version \in Int
  BY HotReloadAssumption DEF ReloadTypeOK
<1>1. ASSUME NEW ok \in BOOLEAN, Edit(ok) PROVE VersionInv'
  BY <1>0, <1>1 DEF Edit, VersionInv
<1>2. CASE Load
  BY <1>0, <1>2 DEF Load, VersionInv
<1>3. CASE SetCurrent
  BY <1>0, <1>3 DEF SetCurrent, VersionInv
<1>4. CASE UNCHANGED <<current, got, disk>>
  BY <1>4 DEF VersionInv
<1>5. \/ \E ok \in BOOLEAN : Edit(ok)
      \/ Load \/ SetCurrent \/ UNCHANGED <<current, got, disk>>
  BY DEF ReloadNext, Watcher, Loader, TimerStep, Change, FileEvent, YamlEvent, UserHangup,
         LoopEnds, TakeSignal, HandlerReturns, Watch, Term, Fire, Check, Unmap, Restart,
         reloadVars, cfgVars
<1> QED BY <1>1, <1>2, <1>3, <1>4, <1>5

\* A version that loads is not current yet: its event, the buffered signal or a
\* reload that reads it is under way.  A signal lost to a full buffer is lost to
\* one that no reload has taken.
LEMMA EditStep ==
  ASSUME ReloadTypeOK, CalmInv, VersionInv, EditHasACarrier,
     [ReloadNext]_reloadVars
  PROVE  EditHasACarrier'
<1> SUFFICES ASSUME core' = "up", ~term', watched', disk'.ok, current' # disk'.version
             PROVE  \/ watching' /\ yamlEvent'
                    \/ hup' /\ handler' # "none"
                    \/ handler' = "reading"
                    \/ handler' = "setting" /\ got' = disk'
  BY DEF EditHasACarrier
<1>0. watched' = watched
  BY DEF ReloadNext, Watcher, Loader, TimerStep, Change, Edit, FileEvent, YamlEvent, UserHangup,
         LoopEnds, TakeSignal, Load, SetCurrent, HandlerReturns, Watch, Term, Fire, Check,
         Unmap, Restart, reloadVars
<1>1. core = "up" /\ ~term /\ watched /\ watching
  <2>1. core = "up"
    BY DEF ReloadNext, Watcher, Loader, TimerStep, Change, Edit, FileEvent, YamlEvent,
           UserHangup, LoopEnds, TakeSignal, Load, SetCurrent, HandlerReturns, Watch, Term, Fire,
           Check, Unmap, Restart, Handler, reloadVars
  <2>2. ~term
    BY DEF ReloadNext, Watcher, Loader, TimerStep, Change, Edit, FileEvent, YamlEvent,
           UserHangup, LoopEnds, TakeSignal, Load, SetCurrent, HandlerReturns, Watch, Term, Fire,
           Check, Unmap, Restart, reloadVars
  <2>3. watching
    BY <2>2 DEF CalmInv
  <2>4. watched
    BY <1>0
  <2> QED BY <2>1, <2>2, <2>3, <2>4
<1>2. CASE UNCHANGED <<watched, watching, yamlEvent, cfgVars>>
  BY <1>1, <1>2 DEF cfgVars, EditHasACarrier
<1>3. ASSUME NEW ok \in BOOLEAN, Edit(ok) PROVE watching' /\ yamlEvent'
  BY <1>1, <1>3 DEF Edit
<1>4. CASE YamlEvent \/ UserHangup
  BY <1>1, <1>4 DEF YamlEvent, UserHangup, Hangup, EditHasACarrier
<1>5. CASE TakeSignal
  BY <1>5 DEF TakeSignal, Handler
<1>6. CASE Load
  BY <1>6 DEF Load, Handler
<1>7. CASE SetCurrent
  <2>0. current \in Int /\ got.version \in Int /\ disk.version \in Int
    BY HotReloadAssumption DEF ReloadTypeOK
  <2>1. UNCHANGED <<watched, watching, yamlEvent, hup, disk>>
         /\ handler = "setting" /\ handler' = "waiting"
        /\ current' = IF got.ok THEN got.version ELSE current
    BY <1>7 DEF SetCurrent, Handler
  <2>2. current # disk.version
    BY <2>0, <2>1 DEF VersionInv
  <2>3. got # disk
    BY <2>1
  <2> QED BY <1>1, <2>1, <2>2, <2>3 DEF EditHasACarrier
<1>8. CASE Watch
  BY <1>1, <1>8 DEF Watch, EditHasACarrier
<1>9. \/ \E ok \in BOOLEAN : Edit(ok)
      \/ YamlEvent \/ UserHangup \/ TakeSignal \/ Load \/ SetCurrent \/ Watch
      \/ UNCHANGED <<watched, watching, yamlEvent, cfgVars>>
  BY <1>1 DEF ReloadNext, Watcher, Loader, TimerStep, Change, FileEvent, LoopEnds,
              HandlerReturns, Term, Fire, Check, Unmap, Restart, reloadVars, cfgVars
<1> QED BY <1>2, <1>3, <1>4, <1>5, <1>6, <1>7, <1>8, <1>9

\* The last version of a watched vyx.yaml that loads is never forgotten: it is current or
\* on its way, although edits come while WatchSIGHUP is busy or not there yet.
THEOREM EditsAreCarried == ReloadSpec => []EditHasACarrier
<1>1. ReloadInit => CalmInv /\ VersionInv /\ EditHasACarrier
  BY DEF ReloadInit, CalmInv, VersionInv, EditHasACarrier
<1>2. ReloadTypeOK /\ CalmInv /\ VersionInv /\ EditHasACarrier
        /\ [ReloadNext]_reloadVars
        => CalmInv' /\ VersionInv' /\ EditHasACarrier'
  BY CalmStep, VersionStep, EditStep
<1> QED BY <1>1, <1>2, ReloadTypeCorrect, PTL DEF ReloadSpec
=============================================================================
