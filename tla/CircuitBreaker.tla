--------------------------- MODULE CircuitBreaker ---------------------------
(***************************************************************************)
(* The circuit breaker of one route (core/domain/circuit/breaker.go) and   *)
(* the requests the dispatcher sends through it                            *)
(* (core/application/gateway/dispatcher.go).  Breakers of different routes *)
(* share nothing, so one is enough.                                        *)
(*                                                                         *)
(* Every method of the breaker holds its mutex from entry to return and is *)
(* one action.  Between the Allow of a request and the result it records,  *)
(* the requests run concurrently and the breaker may change state under    *)
(* them: that is where the properties bite.                                *)
(*                                                                         *)
(* Time.  The code only asks whether time.Since(openedAt) >= Cooldown, so  *)
(* the two clock readings become openedFor, the time since openedAt,       *)
(* saturated at Cooldown; Tick lets time pass.  The counter of failures is *)
(* saturated at Failures for the same reason: the code only asks whether   *)
(* failures >= Failures.                                                   *)
(***************************************************************************)
EXTENDS Naturals

CONSTANTS
  Requests,     \* concurrent requests for the route (ids are reused)
  Failures,     \* Config.Failures: consecutive failures that open the circuit
  Cooldown,     \* Config.Cooldown, in ticks
  HalfOpenMax,  \* Config.HalfOpenMax
  Outcomes      \* how an admitted request may end, a subset of Results

Results == {"success", "failure", "none"}

\* New replaces a zero in Config by a default and Config.Validate refuses a
\* negative value, so every parameter is positive.
ASSUME ConfigAssumption ==
  /\ Failures    \in Nat \ {0}
  /\ Cooldown    \in Nat \ {0}
  /\ HalfOpenMax \in Nat \ {0}
  /\ Outcomes \subseteq Results

VARIABLES
  state,           \* Breaker.state
  failures,        \* Breaker.failures, saturated at Failures
  openedFor,       \* time since Breaker.openedAt, saturated at Cooldown
  halfOpenProbes,  \* Breaker.halfOpenProbes
  req,             \* where each request is in Dispatch
  streak,          \* history: failures recorded since a request last succeeded
  trials,          \* history: number of requests let through while half-open
  probes,          \* history: those requests, while they are in flight
  lost             \* history: those of them that ended without a result

breaker == <<state, failures, openedFor, halfOpenProbes>>
history == <<streak, trials, probes, lost>>
breakerVars == <<breaker, req, history>>

Closed == "closed"
Open == "open"
HalfOpen == "half-open"

BreakerStates == {Closed, Open, HalfOpen}
Phases == {"idle", "admitted", "sending", "sent", "refused"}

Saturate(n, top) == IF n < top THEN n + 1 ELSE top

BreakerTypeOK ==
  /\ state \in BreakerStates
  /\ failures \in 0..Failures
  /\ openedFor \in 0..Cooldown
  /\ halfOpenProbes \in 0..HalfOpenMax
  /\ req \in [Requests -> Phases]
  /\ streak \in 0..Failures
  /\ trials \in Nat
  /\ probes \subseteq Requests
  /\ lost \subseteq Requests

\* A new breaker is closed and openedAt is the zero time, long ago.
BreakerInit ==
  /\ state = Closed
  /\ failures = 0
  /\ openedFor = Cooldown
  /\ halfOpenProbes = 0
  /\ req = [r \in Requests |-> "idle"]
  /\ streak = 0
  /\ trials = 0
  /\ probes = {}
  /\ lost = {}

-----------------------------------------------------------------------------
(* Allow, the three ways it returns true and the two ways it refuses *)

Admit(r) == req[r] = "idle" /\ req' = [req EXCEPT ![r] = "admitted"]

AllowClosed(r) ==
  /\ state = Closed
  /\ Admit(r)
  /\ UNCHANGED <<breaker, history>>

\* The request that finds the cooldown over turns the breaker half-open and
\* is let through without being counted in halfOpenProbes.
AllowCooled(r) ==
  /\ state = Open
  /\ openedFor >= Cooldown
  /\ Admit(r)
  /\ state' = HalfOpen
  /\ halfOpenProbes' = 0
  /\ trials' = 1
  /\ probes' = {r}
  /\ lost' = {}
  /\ UNCHANGED <<failures, openedFor, streak>>

AllowProbe(r) ==
  /\ state = HalfOpen
  /\ halfOpenProbes < HalfOpenMax
  /\ Admit(r)
  /\ halfOpenProbes' = halfOpenProbes + 1
  /\ trials' = trials + 1
  /\ probes' = probes \cup {r}
  /\ UNCHANGED <<state, failures, openedFor, streak, lost>>

\* Allow returns false: Dispatch answers 503.
Refuse(r) ==
  /\ \/ state = Open /\ openedFor < Cooldown
     \/ state = HalfOpen /\ halfOpenProbes >= HalfOpenMax
  /\ req[r] = "idle"
  /\ req' = [req EXCEPT ![r] = "refused"]
  /\ UNCHANGED <<breaker, history>>

\* The refused client sends its request again.
Retry(r) ==
  /\ req[r] = "refused"
  /\ req' = [req EXCEPT ![r] = "idle"]
  /\ UNCHANGED <<breaker, history>>

-----------------------------------------------------------------------------
(* Sending, and the end of an admitted request *)

\* sendAndReceive calls transport.Send, which waits for the connection's write
\* lock and then writes without a deadline.
Send(r) ==
  /\ req[r] = "admitted"
  /\ req' = [req EXCEPT ![r] = "sending"]
  /\ UNCHANGED <<breaker, history>>

\* The worker has read the request; from here on the dispatch has a deadline.
Written(r) ==
  /\ req[r] = "sending"
  /\ req' = [req EXCEPT ![r] = "sent"]
  /\ UNCHANGED <<breaker, history>>

Finish(r, from) ==
  /\ req[r] \in from
  /\ req' = [req EXCEPT ![r] = "idle"]

\* Mutant: a success does not reset the counter of failures.
RecordSuccessKeepsFailures(r) ==
  /\ "success" \in Outcomes
  /\ Finish(r, {"sent"})
  /\ state' = IF state = HalfOpen THEN Closed ELSE state
  /\ halfOpenProbes' = IF state = HalfOpen THEN 0 ELSE halfOpenProbes
  /\ streak' = 0
  /\ trials' = IF state = HalfOpen THEN 0 ELSE trials
  /\ probes' = IF state = HalfOpen THEN {} ELSE probes \ {r}
  /\ UNCHANGED <<failures, openedFor, lost>>

\* Mutant: a late success closes an open breaker too.
RecordSuccessClosesOpen(r) ==
  /\ "success" \in Outcomes
  /\ Finish(r, {"sent"})
  /\ state' = Closed
  /\ failures' = 0
  /\ halfOpenProbes' = 0
  /\ streak' = 0
  /\ trials' = 0
  /\ probes' = {}
  /\ UNCHANGED <<openedFor, lost>>

\* The worker answered with a status below 500.  Dispatch does not look at
\* when the request was admitted: any success closes a half-open breaker.
RecordSuccess(r) ==
  /\ "success" \in Outcomes
  /\ Finish(r, {"sent"})
  /\ state' = IF state = HalfOpen THEN Closed ELSE state
  /\ failures' = IF state = Open THEN failures ELSE 0
  /\ halfOpenProbes' = IF state = HalfOpen THEN 0 ELSE halfOpenProbes
  /\ streak' = 0
  /\ trials' = IF state = HalfOpen THEN 0 ELSE trials
  /\ probes' = IF state = HalfOpen THEN {} ELSE probes \ {r}
  /\ UNCHANGED <<openedFor, lost>>

\* Mutant: the failure of a probe leaves the breaker half-open.
RecordFailureIgnoredByProbe(r) ==
  /\ "failure" \in Outcomes
  /\ Finish(r, {"sending", "sent"})
  /\ failures' = Saturate(failures, Failures)
  /\ streak' = Saturate(streak, Failures)
  /\ probes' = probes \ {r}
  /\ IF state = Closed /\ failures' >= Failures
     THEN state' = Open /\ openedFor' = 0
     ELSE UNCHANGED <<state, openedFor>>
  /\ UNCHANGED <<halfOpenProbes, trials, lost>>

\* Send or receive failed or timed out, the worker sent an error frame, or it
\* answered with a status of 500 or more.  A failure while half-open opens the
\* breaker again but leaves openedAt at the time of the first opening.
RecordFailure(r) ==
  /\ "failure" \in Outcomes
  /\ Finish(r, {"sending", "sent"})
  /\ failures' = Saturate(failures, Failures)
  /\ streak' = Saturate(streak, Failures)
  /\ \/ /\ state = Closed
        /\ failures' >= Failures
        /\ state' = Open
        /\ openedFor' = 0
        /\ probes' = {}
        /\ UNCHANGED <<halfOpenProbes, trials>>
     \/ /\ state = HalfOpen
        /\ state' = Open
        /\ halfOpenProbes' = 0
        /\ trials' = 0
        /\ probes' = {}
        /\ UNCHANGED openedFor
     \/ /\ \/ state = Open
           \/ state = Closed /\ failures' < Failures
        /\ probes' = probes \ {r}
        /\ UNCHANGED <<state, openedFor, halfOpenProbes, trials>>
  /\ UNCHANGED lost

\* Dispatch returns after Allow without telling the breaker: a listener
\* aborts, the worker is draining (503), the token is missing or refused
\* (401, 403), the body fails its schema or a hook fails (400), the payload
\* cannot be encoded (500), or the worker's payload is not JSON (200).
ReturnEarly(r) ==
  /\ "none" \in Outcomes
  /\ Finish(r, {"admitted", "sent"})
  /\ probes' = probes \ {r}
  /\ lost' = lost \cup ({r} \cap probes)
  /\ UNCHANGED <<breaker, streak, trials>>

Tick ==
  /\ openedFor < Cooldown
  /\ openedFor' = openedFor + 1
  /\ UNCHANGED <<state, failures, halfOpenProbes, req, history>>

Allow(r) == AllowClosed(r) \/ AllowCooled(r) \/ AllowProbe(r)

Complete(r) == RecordSuccess(r) \/ RecordFailure(r) \/ ReturnEarly(r)

BreakerNext ==
  \/ \E r \in Requests :
       Allow(r) \/ Refuse(r) \/ Retry(r) \/ Send(r) \/ Written(r) \/ Complete(r)
  \/ Tick

BreakerSpec == BreakerInit /\ [][BreakerNext]_breakerVars

\* A dispatch goes on to its Send, or returns before, and once the worker has
\* read the request its context has a deadline.  Nothing makes a write end.
Proceed(r) == req[r] # "sending" /\ (Send(r) \/ Complete(r))

BreakerFairness == \A r \in Requests : WF_breakerVars(Proceed(r))

BreakerFairSpec == BreakerSpec /\ BreakerFairness

-----------------------------------------------------------------------------
(* Safety *)

\* Whatever mixture of late and fresh results arrives, the counter of a closed
\* breaker is the number of failures since a request last succeeded, in
\* whichever state that success found the breaker, and is below Failures
\* (RecordSuccess, RecordFailure).
ClosedCountsTheStreak == state = Closed => failures = streak /\ streak < Failures

\* A closed breaker opens only when the last Failures results were failures:
\* no leftover of an earlier episode opens it sooner (RecordFailure).
OpensOnlyOnAStreak ==
  [][state = Closed /\ state' = Open => streak' = Failures]_breakerVars

\* While half-open at most HalfOpenMax + 1 requests have been let through to
\* the worker: those Allow counts and the one that ended the cooldown.
TrialsAreBounded == state = HalfOpen => trials <= HalfOpenMax + 1

\* Once failures open a closed breaker it stays open for the whole cooldown:
\* results of requests admitted before it opened change nothing.
TripHoldsForCooldown ==
  [][state = Open /\ openedFor < Cooldown => state' = Open]_breakerVars

\* The inductive strengthening of TrialsAreBounded: all trials but the first
\* are counted, so the bound Allow puts on halfOpenProbes bounds the trials.
TrialsAreCounted == state = HalfOpen => trials = halfOpenProbes + 1

IInv == BreakerTypeOK /\ ClosedCountsTheStreak /\ TrialsAreCounted

(* Liveness *)

\* A half-open breaker gets a verdict, closed or open, and does not refuse
\* requests for ever, unless a request it let through ended without a result,
\* or stays in its write for ever because the worker does not read.
HalfOpenIsDecided ==
  state = HalfOpen
    ~> \/ state # HalfOpen \/ lost # {}
       \/ \E r \in Requests : [](r \in probes /\ req[r] = "sending")
=============================================================================
