-------------------------- MODULE ResponseRouting --------------------------
(***************************************************************************)
(* The answers of one worker on their way to those who wait for them.  All *)
(* dispatches to the worker and all WebSocket sessions with it receive     *)
(* from one channel, conn.responseCh (core/infrastructure/ipc/uds/         *)
(* listener.go), which the connection's read pump fills:                   *)
(*                                                                         *)
(*   - sendAndReceive in core/application/gateway/dispatcher.go takes the  *)
(*     next frame, whatever it is, for the answer to its request;          *)
(*   - pumpWorkerToClient in core/infrastructure/gateway/websocket.go      *)
(*     takes the next frame and throws it away unless it is a message of   *)
(*     its own session.                                                    *)
(*                                                                         *)
(* A frame is what it is of: the request it answers (with a response or an *)
(* error), or the n-th message of a session.  The worker answers each      *)
(* request at most once, in any order: the SDKs handle requests            *)
(* concurrently.                                                           *)
(*                                                                         *)
(* Requests and the frame that opens a session are written one at a time,  *)
(* under the connection's writeMu, by writes that have no deadline: the    *)
(* worker may let one stand for as long as it likes.  (So are the frames   *)
(* of a session's client, which no answer depends on and which are left    *)
(* out.)                                                                   *)
(***************************************************************************)
EXTENDS Naturals, Sequences, FiniteSets

CONSTANTS
  Requests,     \* dispatches to the worker, each made once
  Sessions,     \* WebSocket sessions with it, each opened once
  Cap,          \* demuxChanSize, the capacity of responseCh
  MaxMessages   \* messages the worker sends to a session, at most

ASSUME RoutingAssumption ==
  /\ Cap \in Nat \ {0}
  /\ MaxMessages \in Nat
  /\ IsFiniteSet(Requests)
  /\ Requests \cap Sessions = {}

VARIABLES
  req,         \* where each dispatch is
  got,         \* the frames each dispatch, or session, was given
  writing,     \* who holds conn.writeMu: nobody, or one dispatch or session
  inbox,       \* requests the worker is handling
  responseCh,  \* conn.responseCh
  open,        \* is the connection open? (the pump closes responseCh when not)
  session,     \* where each WebSocket session is
  known,       \* the sessions the worker has been told of
  sent,        \* messages the worker has sent to each session
  lost         \* history: requests whose answer no dispatch can be given any more

vars == <<req, got, writing, inbox, responseCh, open, session, known, sent, lost>>

Frames == [kind : {"response", "error"}, of : Requests]
            \cup [kind : {"message"}, of : Sessions, n : 1..MaxMessages]

TypeOK ==
  /\ req \in [Requests -> {"idle", "writing", "sent", "200", "502", "504"}]
  /\ got \in [Requests \cup Sessions -> SUBSET Frames]
  /\ writing \subseteq Requests \cup Sessions
  /\ inbox \subseteq Requests
  /\ responseCh \in Seq(Frames) /\ Len(responseCh) <= Cap
  /\ open \in BOOLEAN
  /\ session \in [Sessions -> {"new", "opening", "open", "over", "closed"}]
  /\ known \subseteq Sessions
  /\ sent \in [Sessions -> 0..MaxMessages]
  /\ lost \subseteq Requests

Init ==
  /\ req = [r \in Requests |-> "idle"]
  /\ got = [x \in Requests \cup Sessions |-> {}]
  /\ writing = {}
  /\ inbox = {}
  /\ responseCh = <<>>
  /\ open = TRUE
  /\ session = [s \in Sessions |-> "new"]
  /\ known = {}
  /\ sent = [s \in Sessions |-> 0]
  /\ lost = {}

-----------------------------------------------------------------------------
(* The read pump *)

\* Mutant: the pump writes an older frame behind a newer one.
PumpReversed(f) ==
  responseCh' = IF Len(responseCh) < Cap THEN <<f>> \o responseCh ELSE responseCh

\* sendToResponse: a frame that finds the channel full is dropped.
Pump(f) == responseCh' = IF Len(responseCh) < Cap THEN Append(responseCh, f) ELSE responseCh

-----------------------------------------------------------------------------
(* The worker (external) *)

\* The worker answers a request, with a response or an error frame, and the
\* pump takes the frame in.
Answer(r) ==
  /\ open
  /\ r \in inbox
  /\ inbox' = inbox \ {r}
  /\ \E k \in {"response", "error"} : Pump([kind |-> k, of |-> r])
  /\ lost' = IF Len(responseCh) < Cap THEN lost ELSE lost \cup {r}
  /\ UNCHANGED <<req, got, writing, open, session, known, sent>>

\* The worker sends a message to a session it was told of.
SendMessage(s) ==
  /\ open
  /\ s \in known
  /\ sent[s] < MaxMessages
  /\ sent' = [sent EXCEPT ![s] = @ + 1]
  /\ Pump([kind |-> "message", of |-> s, n |-> sent[s] + 1])
  /\ UNCHANGED <<req, got, writing, inbox, open, session, known, lost>>

\* The connection breaks: the pump stores the error and closes the channel.
Disconnect ==
  /\ open
  /\ open' = FALSE
  /\ UNCHANGED <<req, got, writing, inbox, responseCh, session, known, sent, lost>>

-----------------------------------------------------------------------------
(* Dispatch *)

\* transport.Send takes the connection's write lock.
Send(r) ==
  /\ req[r] = "idle"
  /\ writing = {}
  /\ req' = [req EXCEPT ![r] = "writing"]
  /\ writing' = {r}
  /\ UNCHANGED <<got, inbox, responseCh, open, session, known, sent, lost>>

\* The worker has read the request.
Written(r) ==
  /\ req[r] = "writing"
  /\ open
  /\ req' = [req EXCEPT ![r] = "sent"]
  /\ writing' = {}
  /\ inbox' = inbox \cup {r}
  /\ UNCHANGED <<got, responseCh, open, session, known, sent, lost>>

\* The connection is closed: 502.
WriteError(r) ==
  /\ req[r] = "writing"
  /\ ~open
  /\ req' = [req EXCEPT ![r] = "502"]
  /\ writing' = {}
  /\ UNCHANGED <<got, inbox, responseCh, open, session, known, sent, lost>>

\* What Dispatch answers to its client for a frame.  The payload of a WebSocket
\* message decodes as a WorkerResponse without a status, which counts as 200.
StatusOf(f) == IF f.kind = "error" THEN "502" ELSE "200"

\* Mutant: a frame that answers another request is thrown away.
ReceiveResponseOwn(r) ==
  /\ req[r] = "sent"
  /\ responseCh # <<>>
  /\ LET mine == Head(responseCh).of = r IN
     /\ req' = IF mine THEN [req EXCEPT ![r] = StatusOf(Head(responseCh))] ELSE req
     /\ got' = IF mine THEN [got EXCEPT ![r] = @ \cup {Head(responseCh)}] ELSE got
  /\ responseCh' = Tail(responseCh)
  /\ UNCHANGED <<writing, inbox, open, session, known, sent, lost>>

\* ReceiveResponse returns the next frame and it is taken for the answer: the
\* correlation id in it is not compared with that of the request.
ReceiveResponse(r) ==
  /\ req[r] = "sent"
  /\ responseCh # <<>>
  /\ req' = [req EXCEPT ![r] = StatusOf(Head(responseCh))]
  /\ got' = [got EXCEPT ![r] = @ \cup {Head(responseCh)}]
  /\ responseCh' = Tail(responseCh)
  /\ UNCHANGED <<writing, inbox, open, session, known, sent, lost>>

\* The channel is closed and empty: 502.
ReceiveClosed(r) ==
  /\ req[r] = "sent"
  /\ ~open /\ responseCh = <<>>
  /\ req' = [req EXCEPT ![r] = "502"]
  /\ UNCHANGED <<got, writing, inbox, responseCh, open, session, known, sent, lost>>

\* The dispatch timeout expires: 504.  The worker is not told, and its answer
\* will come.
ReceiveTimeout(r) ==
  /\ req[r] = "sent"
  /\ req' = [req EXCEPT ![r] = "504"]
  /\ UNCHANGED <<got, writing, inbox, responseCh, open, session, known, sent, lost>>

-----------------------------------------------------------------------------
(* The WebSocket proxy *)

\* notifyWorkerOpen: the frame that tells the worker of the session is written
\* as any other.
OpenSession(s) ==
  /\ session[s] = "new"
  /\ writing = {}
  /\ session' = [session EXCEPT ![s] = "opening"]
  /\ writing' = {s}
  /\ UNCHANGED <<req, got, inbox, responseCh, open, known, sent, lost>>

\* The worker has read it and the pumps start; or the connection is closed.
SessionOpened(s) ==
  /\ session[s] = "opening"
  /\ session' = [session EXCEPT ![s] = IF open THEN "open" ELSE "closed"]
  /\ known' = IF open THEN known \cup {s} ELSE known
  /\ writing' = {}
  /\ UNCHANGED <<req, got, inbox, responseCh, open, sent, lost>>

\* pumpWorkerToClient passes a message of its session on and skips the rest.
\* Once the session is over it may still take frames, until it sees its context
\* cancelled or fails to write to the client.
PumpWorkerToClient(s) ==
  /\ session[s] \in {"open", "over"}
  /\ responseCh # <<>>
  /\ responseCh' = Tail(responseCh)
  /\ LET f == Head(responseCh)
         mine == f.kind = "message" /\ f.of = s IN
     /\ got' = IF mine /\ session[s] = "open" THEN [got EXCEPT ![s] = @ \cup {f}] ELSE got
     /\ session' = IF mine /\ session[s] = "over"
                   THEN [session EXCEPT ![s] = "closed"] ELSE session
     /\ lost' = IF f.kind = "message" THEN lost ELSE lost \cup {f.of}
  /\ UNCHANGED <<req, writing, inbox, open, known, sent>>

\* The client leaves, or one of the pumps fails: proxy returns.  The worker is
\* not told.
CloseSession(s) ==
  /\ session[s] = "open"
  /\ session' = [session EXCEPT ![s] = "over"]
  /\ UNCHANGED <<req, got, writing, inbox, responseCh, open, known, sent, lost>>

\* The context of the upgrade request was cancelled on return: the pump from
\* the worker ends.
PumpEnds(s) ==
  /\ session[s] = "over"
  /\ session' = [session EXCEPT ![s] = "closed"]
  /\ UNCHANGED <<req, got, writing, inbox, responseCh, open, known, sent, lost>>

-----------------------------------------------------------------------------

Dispatch(r) ==
  \/ Send(r) \/ Written(r) \/ WriteError(r)
  \/ ReceiveResponse(r) \/ ReceiveClosed(r) \/ ReceiveTimeout(r)

Serve(s) ==
  \/ OpenSession(s) \/ SessionOpened(s) \/ PumpWorkerToClient(s)
  \/ CloseSession(s) \/ PumpEnds(s)

Next ==
  \/ \E r \in Requests : Dispatch(r) \/ Answer(r)
  \/ \E s \in Sessions : Serve(s) \/ SendMessage(s)
  \/ Disconnect

Spec == Init /\ [][Next]_vars

-----------------------------------------------------------------------------
(* Safety *)

Outstanding == {r \in Requests : req[r] = "sent"}

\* The requests whose answers are in the channel.
Arrived == {r \in Requests :
              \E i \in 1..Len(responseCh) :
                responseCh[i].kind # "message" /\ responseCh[i].of = r}

\* There are at least as many answers as dispatches that wait, counting those
\* with the worker, those in the channel and those lost.  A dispatch takes any
\* answer for its own, so the answers may be mixed up; but one that waits for
\* its timeout because the answers have run out does so only because an answer
\* found the channel full, or a WebSocket pump threw it away.
EnoughAnswers ==
  Cardinality(Outstanding) <= Cardinality(inbox \cup Arrived \cup lost)

\* The messages a session is given come in the order the worker sent them,
\* whatever is dropped or taken by others in between.
SessionInOrder ==
  [][\A s \in Sessions : \A f \in got'[s] \ got[s], g \in got[s] : g.n < f.n]_vars
=============================================================================
