---------------------------- MODULE WorkerOutput ----------------------------
(***************************************************************************)
(* The way of a worker's output to the log viewer:                         *)
(*                                                                         *)
(*   - the process manager's pipes: Spawn, pipeLog, processChunk, the      *)
(*     goroutine that waits for the process, and Stop                      *)
(*     (core/infrastructure/process/manager.go);                           *)
(*   - the log multiplexer, a ring of entries with subscribers             *)
(*     (core/infrastructure/log/multiplexer.go);                           *)
(*   - those who use it: muxLogWriter and the core's own logger            *)
(*     (core/cmd/vyx/main.go) and the viewer (core/cmd/tui/main.go).       *)
(*                                                                         *)
(* What the process writes passes through an OS pipe of bounded size, a    *)
(* copying goroutine of os/exec, an in-memory pipe whose Write returns     *)
(* only when its bytes were read, and pipeLog.  A stop in any of these is  *)
(* felt by all before it, in the end by the process.                       *)
(*                                                                         *)
(* The text of a stream is a row of pieces: piece 2i-1 is the text of line *)
(* i and piece 2i the newline that ends it, so that a chunk may end within *)
(* a line.  Empty lines, which are not logged, are left out.  One worker:  *)
(* the manager shares nothing but its map between workers.  The states     *)
(* begin when Spawn has returned, with a LogWriter set.                    *)
(***************************************************************************)
EXTENDS Naturals, Sequences, FiniteSets

CONSTANTS
  Streams,    \* stdout and stderr
  Core,       \* the core's logger
  Source,     \* the goroutine of scanSource, which AddSource starts
  MaxPieces,  \* bound: pieces the process writes to each stream
  MaxOwn,     \* bound: entries of the core's logger, and lines of the source
  PipeSize,   \* what the OS pipe holds
  Size,       \* the ring's capacity
  QueueSize,  \* the buffer of a subscriber's channel
  None

Writers == Streams \cup {Core, Source}

ASSUME OutputAssumption ==
  /\ Core \notin Streams /\ Source \notin Streams /\ Core # Source
  /\ MaxPieces \in [Streams -> Nat]
  /\ {MaxOwn, PipeSize, Size, QueueSize} \subseteq Nat \ {0}

VARIABLES
  proc,    \* "up"; "orphans": it ended and descendants hold its pipes; "dead"
  caller,  \* the context that Spawn was called with: "live" or "ended"
  wait,    \* the waiting goroutine: "waiting"; waitCh is closed: "done", or "cut"
           \* if cmd.Wait gave up on the output
  stop,    \* Stop: "idle", "waiting", or how it returned
  text,    \* of each stream, the pieces written, taken by the copier, and read
  pc,      \* where pipeLog is, for each stream, and scanSource
  due,     \* the entry a writer has put in the ring and not told of, or None
  ring,    \* the multiplexer's entries, head and count
  pushed,  \* history: every entry pushed
  viewer   \* the viewer's subscription and the entries in its channel

vars == <<proc, caller, wait, stop, text, pc, due, ring, pushed, viewer>>

EmptyRing == [entries |-> [i \in 0..(Size - 1) |-> None], head |-> 0, count |-> 0]

Init ==
  /\ proc = "up"
  /\ caller = "live"
  /\ wait = "waiting"
  /\ stop = "idle"
  /\ text = [s \in Streams |-> [written |-> 0, copied |-> 0, read |-> 0]]
  /\ pc = [w \in Streams \cup {Source} |-> "select"]
  /\ due = [w \in Writers |-> None]
  /\ ring = EmptyRing
  /\ pushed = <<>>
  /\ viewer = [state |-> "new", queue |-> <<>>]

-----------------------------------------------------------------------------
(* The multiplexer *)

\* Mutant: the head moves on before the entry is stored.
InsertAfter(r, e) ==
  LET h == (r.head + 1) % Size
  IN  [entries |-> [r.entries EXCEPT ![h] = e], head |-> h,
       count |-> IF r.count < Size THEN r.count + 1 ELSE r.count]

\* What Push does to the ring, under its lock.
Insert(r, e) ==
  [entries |-> [r.entries EXCEPT ![r.head] = e],
   head    |-> (r.head + 1) % Size,
   count   |-> IF r.count < Size THEN r.count + 1 ELSE r.count]

\* What Entries returns.
Entries ==
  [i \in 1..ring.count |->
     ring.entries[(((ring.head + Size - ring.count) % Size) + (i - 1)) % Size]]

\* How many entries w has pushed so far; they are numbered.
Logged(w) == Cardinality({i \in DOMAIN pushed : pushed[i][1] = w})

\* Push stores the next entry of a writer and lets go of the lock; the
\* subscribers hear of it later, and entries of two writers may cross.
Push(w) ==
  LET e == <<w, Logged(w) + 1>>
  IN  /\ due[w] = None
      /\ ring' = Insert(ring, e)
      /\ pushed' = Append(pushed, e)
      /\ due' = [due EXCEPT ![w] = e]

\* Mutant: the entry waits for room in the subscriber's channel.
NotifyWaits(w) ==
  /\ due[w] # None
  /\ due' = [due EXCEPT ![w] = None]
  /\ viewer.state = "on" => Len(viewer.queue) < QueueSize
  /\ viewer' = IF viewer.state = "on" THEN [viewer EXCEPT !.queue = Append(@, due[w])] ELSE viewer
  /\ UNCHANGED <<proc, caller, wait, stop, text, pc, ring, pushed>>

\* notify: a subscriber whose channel is full misses the entry.
Notify(w) ==
  /\ due[w] # None
  /\ due' = [due EXCEPT ![w] = None]
  /\ viewer' = IF viewer.state = "on" /\ Len(viewer.queue) < QueueSize
               THEN [viewer EXCEPT !.queue = Append(@, due[w])] ELSE viewer
  /\ UNCHANGED <<proc, caller, wait, stop, text, pc, ring, pushed>>

Subscribe ==
  /\ viewer.state = "new"
  /\ viewer' = [viewer EXCEPT !.state = "on"]
  /\ UNCHANGED <<proc, caller, wait, stop, text, pc, due, ring, pushed>>

\* The viewer's program takes an entry, when it gets to it.
Forward ==
  /\ viewer.queue # <<>>
  /\ viewer' = [viewer EXCEPT !.queue = Tail(@)]
  /\ UNCHANGED <<proc, caller, wait, stop, text, pc, due, ring, pushed>>

\* The user leaves the viewer.
Unsubscribe ==
  /\ viewer.state = "on"
  /\ viewer' = [viewer EXCEPT !.state = "off"]
  /\ UNCHANGED <<proc, caller, wait, stop, text, pc, due, ring, pushed>>

\* The core logs something itself.
CoreLogs ==
  /\ Logged(Core) < MaxOwn
  /\ Push(Core)
  /\ UNCHANGED <<proc, caller, wait, stop, text, pc, viewer>>

\* scanSource: the next line of its reader, a line that was on its way when the
\* stop function was called included.  After the last line it asks again and
\* again.
ScanLine ==
  /\ pc[Source] = "select"
  /\ Logged(Source) < MaxOwn
  /\ Push(Source)
  /\ UNCHANGED <<proc, caller, wait, stop, text, pc, viewer>>

\* The goroutine sees the stop channel closed, or the scanner gives up on a
\* line that is too long.
ScanEnds ==
  /\ pc[Source] = "select"
  /\ due[Source] = None
  /\ pc' = [pc EXCEPT ![Source] = "off"]
  /\ UNCHANGED <<proc, caller, wait, stop, text, due, ring, pushed, viewer>>

-----------------------------------------------------------------------------
(* The process and its pipes *)

\* The OS pipe holds what was written and not yet taken by the copier.
Full(s) == text[s].written - text[s].copied = PipeSize

\* The process or a descendant writes a piece, and blocks while there is no
\* room.  When nobody reads any more, its writes fail.
Write(s) ==
  /\ proc # "dead" /\ wait = "waiting"
  /\ ~Full(s)
  /\ text[s].written < MaxPieces[s]
  /\ text' = [text EXCEPT ![s].written = @ + 1]
  /\ UNCHANGED <<proc, caller, wait, stop, pc, due, ring, pushed, viewer>>

\* The process ends, of its own or as it was told to, and with it or after it
\* the last descendant that holds its pipes.
Exit ==
  /\ \/ proc = "up" /\ proc' \in {"orphans", "dead"}
     \/ proc = "orphans" /\ proc' = "dead"
  /\ UNCHANGED <<caller, wait, stop, text, pc, due, ring, pushed, viewer>>

\* The copier takes a chunk; it takes no other before this one was read.
Copy(s) ==
  /\ wait = "waiting"
  /\ text[s].copied = text[s].read
  /\ \E k \in (text[s].copied + 1)..text[s].written : text' = [text EXCEPT ![s].copied = k]
  /\ UNCHANGED <<proc, caller, wait, stop, pc, due, ring, pushed, viewer>>

\* The context under which Spawn was called ends: a reload has returned, or
\* the core was told to stop.
CallerEnds ==
  /\ caller = "live"
  /\ wait = "waiting"
  /\ caller' = "ended"
  /\ UNCHANGED <<proc, wait, stop, text, pc, due, ring, pushed, viewer>>


\* cmd.Wait returns when the process has ended and the copiers are done, for
\* which all ends of the pipes must be closed; or, if they are not done by then,
\* WaitDelay (3 s) after the process ended, with the pipes closed.  Then
\* pipeLog's context is cancelled, the in-memory pipes and waitCh are closed.
CleanUp ==
  /\ wait = "waiting"
  /\ \/ /\ proc = "dead"
        /\ \A s \in Streams : text[s].read = text[s].written
        /\ wait' = "done"
     \/ proc # "up" /\ wait' = "cut"
  /\ UNCHANGED <<proc, caller, stop, text, pc, due, ring, pushed, viewer>>

-----------------------------------------------------------------------------
(* pipeLog *)

Cancelled == caller = "ended" \/ wait # "waiting"

Select(s) ==
  /\ pc[s] = "select"
  /\ pc' = [pc EXCEPT ![s] = IF Cancelled THEN "flush" ELSE "read"]
  /\ UNCHANGED <<proc, caller, wait, stop, text, due, ring, pushed, viewer>>

\* Read returns the copier's chunk, or the end of a closed pipe.
Read(s) ==
  /\ pc[s] = "read"
  /\ \/ /\ wait = "waiting"
        /\ text[s].read < text[s].copied
        /\ text' = [text EXCEPT ![s].read = text[s].copied]
        /\ pc' = [pc EXCEPT ![s] = "lines"]
     \/ /\ wait # "waiting"
        /\ pc' = [pc EXCEPT ![s] = "flush"]
        /\ UNCHANGED text
  /\ UNCHANGED <<proc, caller, wait, stop, due, ring, pushed, viewer>>

\* processChunk hands over the lines that are complete, one after the other.
Line(s) ==
  /\ pc[s] = "lines"
  /\ IF Logged(s) < text[s].read \div 2
     THEN Push(s) /\ UNCHANGED pc
     ELSE /\ due[s] = None
          /\ pc' = [pc EXCEPT ![s] = "select"]
          /\ UNCHANGED <<due, ring, pushed>>
  /\ UNCHANGED <<proc, caller, wait, stop, text, viewer>>

\* Mutant: what there is of a last line is dropped.
FlushDropsTheRest(s) ==
  /\ pc[s] = "flush"
  /\ pc' = [pc EXCEPT ![s] = "off"]
  /\ UNCHANGED <<proc, caller, wait, stop, text, due, ring, pushed, viewer>>

\* pipeLog returns, with what it has of a last line handed over.
Flush(s) ==
  /\ pc[s] = "flush"
  /\ pc' = [pc EXCEPT ![s] = "off"]
  /\ IF text[s].read % 2 = 1 THEN Push(s) ELSE UNCHANGED <<due, ring, pushed>>
  /\ UNCHANGED <<proc, caller, wait, stop, text, viewer>>

PipeLog(s) == Select(s) \/ Read(s) \/ Line(s) \/ Flush(s)

-----------------------------------------------------------------------------
(* Stop *)

\* SIGTERM is sent to the group.  For a process already reaped that fails, and
\* its descendants get no signal.
StopCalled ==
  /\ stop = "idle"
  /\ \/ stop' = "waiting"
     \/ proc # "up" /\ stop' = "failed"
  /\ UNCHANGED <<proc, caller, wait, text, pc, due, ring, pushed, viewer>>

StopReturns ==
  /\ stop = "waiting"
  /\ wait # "waiting"
  /\ stop' = "stopped"
  /\ UNCHANGED <<proc, caller, wait, text, pc, due, ring, pushed, viewer>>

\* The timeout is over: the group is killed and forgotten.  A descendant that
\* left the group lives on, and so do all when the process was reaped before.
StopTimesOut ==
  /\ stop = "waiting"
  /\ stop' = "timeout"
  /\ \/ proc = "up" /\ proc' \in {"orphans", "dead"}
     \/ proc # "up" /\ proc' \in {proc, "dead"}
  /\ UNCHANGED <<caller, wait, text, pc, due, ring, pushed, viewer>>

-----------------------------------------------------------------------------
Next ==
  \/ \E w \in Writers : Notify(w)
  \/ Subscribe \/ Forward \/ Unsubscribe
  \/ CoreLogs \/ ScanLine \/ ScanEnds
  \/ \E s \in Streams : Write(s) \/ Copy(s) \/ PipeLog(s)
  \/ Exit \/ CallerEnds \/ CleanUp
  \/ StopCalled \/ StopReturns \/ StopTimesOut

Spec == Init /\ [][Next]_vars

\* Goroutines go on: the copiers, pipeLog, notify, the waiting one with its
\* delay and Stop with its timer.  Nothing obliges the process to write or to end, the viewer
\* to take an entry, or anyone to log, to stop the worker or to call it off.
Fairness ==
  /\ \A s \in Streams : WF_vars(Copy(s)) /\ WF_vars(PipeLog(s))
  /\ \A w \in Writers : WF_vars(Notify(w))
  /\ WF_vars(CleanUp)
  /\ WF_vars(StopReturns \/ StopTimesOut)

FairSpec == Spec /\ Fairness

-----------------------------------------------------------------------------
TypeOK ==
  /\ proc \in {"up", "orphans", "dead"} /\ caller \in {"live", "ended"}
  /\ wait \in {"waiting", "done", "cut"}
  /\ stop \in {"idle", "waiting", "stopped", "failed", "timeout"}
  /\ text \in [Streams -> [written : Nat, copied : Nat, read : Nat]]
  /\ pc \in [Streams \cup {Source} -> {"select", "read", "lines", "flush", "off"}]
  /\ due \in [Writers -> {None} \cup (Writers \X Nat)]
  /\ ring.head \in 0..(Size - 1) /\ ring.count \in 0..Size
  /\ viewer.state \in {"new", "on", "off"} /\ Len(viewer.queue) <= QueueSize

(* Safety *)

\* Whoever pushes in between, Entries returns the last entries pushed, as many
\* as the ring holds, oldest first.
EntriesAreTheTail ==
  LET n == Len(pushed)
      kept == IF n < Size THEN n ELSE Size
  IN  Entries = SubSeq(pushed, n - kept + 1, n)

\* No line is handed over twice, or before it was read; when pipeLog has
\* returned, for whatever reason, all it had read is handed over, the unfinished
\* line at the end included; and that is all that was ever written if the
\* context of the call of Spawn lives and cmd.Wait did not give up: the end of
\* the process and its last writes do not overtake one another.
NoLineLost ==
  \A s \in Streams :
    /\ Logged(s) <= (text[s].read + 1) \div 2
    /\ pc[s] = "off" => Logged(s) = (text[s].read + 1) \div 2
    /\ pc[s] = "off" /\ caller = "live" /\ wait # "cut" => text[s].read = text[s].written

(* Liveness *)


\* A worker is not held up in its writes, however slow or dead the viewer, as
\* long as that context lives.  (After cmd.Wait gave up its writes fail.)
OutputFlows ==
  \A s \in Streams :
    Full(s) /\ wait = "waiting" ~> (~Full(s) \/ wait # "waiting" \/ caller = "ended")
=============================================================================
