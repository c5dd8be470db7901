----------------------- MODULE ResponseRoutingProofs -----------------------
(***************************************************************************)
(* Proofs about ResponseRouting, for any sets of dispatches and sessions   *)
(* and any capacity of the channel: the dispatches that wait are counted   *)
(* against the answers they may be given, and the messages of a session    *)
(* are followed through the channel.                                       *)
(***************************************************************************)
EXTENDS ResponseRouting, FiniteSetTheorems, TLAPS

IsMessage(f, s) == f.kind = "message" /\ f.of = s

\* The messages of a session stand in the channel in the order they were sent,
\* behind those the session was given, and none is newer than the last one sent.
Ordered(s) ==
  /\ \A i \in 1..Len(responseCh) : IsMessage(responseCh[i], s) =>
       /\ responseCh[i].n \in 1..sent[s]
       /\ \A j \in 1..(i - 1) :
            IsMessage(responseCh[j], s) => responseCh[j].n < responseCh[i].n
       /\ \A g \in got[s] : g.n < responseCh[i].n
  /\ \A g \in got[s] : g.n \in 1..sent[s]

\* The next element of a channel and what is left behind it.
LEMMA Behead ==
  ASSUME NEW S, NEW ch \in Seq(S), ch # <<>>
  PROVE  /\ Tail(ch) \in Seq(S) /\ Len(Tail(ch)) = Len(ch) - 1 /\ Len(ch) \in Nat \ {0}
         /\ Head(ch) \in S /\ Head(ch) = ch[1]
         /\ \A i \in 1..Len(Tail(ch)) : Tail(ch)[i] = ch[i + 1] /\ i + 1 \in 2..Len(ch)
OBVIOUS

\* What the pump does with a frame: it is last in the channel, or dropped.
LEMMA PumpAppends ==
  ASSUME TypeOK, NEW f \in Frames, Pump(f)
  PROVE  /\ responseCh' \in Seq(Frames) /\ Len(responseCh') <= Cap
         /\ \/ responseCh' = responseCh
            \/ /\ Len(responseCh') = Len(responseCh) + 1
               /\ responseCh'[Len(responseCh) + 1] = f
               /\ \A i \in 1..Len(responseCh) : responseCh'[i] = responseCh[i]
<1>1. responseCh \in Seq(Frames) /\ Len(responseCh) <= Cap /\ Cap \in Nat
  BY RoutingAssumption DEF TypeOK
<1>2. CASE Len(responseCh) < Cap
  <2>1. responseCh' = Append(responseCh, f)
    BY <1>2 DEF Pump
  <2> QED BY <1>1, <1>2, <2>1
<1>3. CASE ~ (Len(responseCh) < Cap)
  BY <1>1, <1>3 DEF Pump
<1> QED BY <1>2, <1>3

\* Answers and messages are frames.
LEMMA FrameKinds ==
  /\ \A r \in Requests, k \in {"response", "error"} : [kind |-> k, of |-> r] \in Frames
  /\ \A s \in Sessions, n \in 1..MaxMessages :
       [kind |-> "message", of |-> s, n |-> n] \in Frames
  /\ \A f \in Frames : f.kind # "message" => f.of \in Requests
  /\ \A f \in Frames : f.kind = "message" => f.of \in Sessions /\ f.n \in 1..MaxMessages
BY DEF Frames

\* Every step keeps the types.
LEMMA RoutingTypeStep == TypeOK /\ [Next]_vars => TypeOK'
<1> SUFFICES ASSUME TypeOK, [Next]_vars PROVE TypeOK'
  OBVIOUS
<1> USE RoutingAssumption
<1>1. ASSUME NEW r \in Requests, Send(r) \/ Written(r) \/ WriteError(r) PROVE TypeOK'
  BY <1>1 DEF TypeOK, Send, Written, WriteError
<1>2. ASSUME NEW r \in Requests, ReceiveResponse(r) PROVE TypeOK'
  <2>1. /\ Tail(responseCh) \in Seq(Frames) /\ Len(Tail(responseCh)) <= Cap
        /\ Head(responseCh) \in Frames
    BY <1>2, Behead DEF TypeOK, ReceiveResponse
  <2> QED BY <1>2, <2>1 DEF TypeOK, ReceiveResponse, StatusOf
<1>3. ASSUME NEW r \in Requests, ReceiveClosed(r) \/ ReceiveTimeout(r) PROVE TypeOK'
  BY <1>3 DEF TypeOK, ReceiveClosed, ReceiveTimeout
<1>4. ASSUME NEW r \in Requests, Answer(r) PROVE TypeOK'
  <2>1. responseCh' \in Seq(Frames) /\ Len(responseCh') <= Cap
    BY <1>4, FrameKinds, PumpAppends DEF Answer
  <2> QED BY <1>4, <2>1 DEF TypeOK, Answer
<1>5. ASSUME NEW s \in Sessions, OpenSession(s) \/ SessionOpened(s) PROVE TypeOK'
  BY <1>5 DEF TypeOK, OpenSession, SessionOpened
<1>6. ASSUME NEW s \in Sessions, PumpWorkerToClient(s) PROVE TypeOK'
  <2>1. /\ Tail(responseCh) \in Seq(Frames) /\ Len(Tail(responseCh)) <= Cap
        /\ Head(responseCh) \in Frames
    BY <1>6, Behead DEF TypeOK, PumpWorkerToClient
  <2>2. lost' \subseteq Requests
    BY <1>6, <2>1, FrameKinds DEF TypeOK, PumpWorkerToClient
  <2> QED BY <1>6, <2>1, <2>2 DEF TypeOK, PumpWorkerToClient
<1>7. ASSUME NEW s \in Sessions, CloseSession(s) \/ PumpEnds(s) PROVE TypeOK'
  BY <1>7 DEF TypeOK, CloseSession, PumpEnds
<1>8. ASSUME NEW s \in Sessions, SendMessage(s) PROVE TypeOK'
  <2>1. sent[s] + 1 \in 1..MaxMessages
    BY <1>8 DEF TypeOK, SendMessage
  <2>2. responseCh' \in Seq(Frames) /\ Len(responseCh') <= Cap
    BY <1>8, <2>1, FrameKinds, PumpAppends DEF SendMessage
  <2> QED BY <1>8, <2>1, <2>2 DEF TypeOK, SendMessage
<1>9. CASE Disconnect
  BY <1>9 DEF TypeOK, Disconnect
<1>10. CASE UNCHANGED vars
  BY <1>10 DEF TypeOK, vars
<1> QED BY <1>1, <1>2, <1>3, <1>4, <1>5, <1>6, <1>7, <1>8, <1>9, <1>10
        DEF Next, Dispatch, Serve

\* The variables of a routing state keep their types, and the channel its
\* capacity (demuxChanSize).
THEOREM RoutingTypeCorrect == Spec => []TypeOK
<1>1. Init => TypeOK
  BY RoutingAssumption DEF Init, TypeOK
<1> QED BY <1>1, RoutingTypeStep, PTL DEF Spec

-----------------------------------------------------------------------------
(* The answers are enough *)

\* The requests whose answers are still to be given, or lost.
Answers == inbox \cup Arrived \cup lost

\* Only a request that the worker has read has an answer.
ReadInv == \A r \in Answers : req[r] \notin {"idle", "writing"}

\* Both sides of the count are finite.
LEMMA Countable ==
  ASSUME TypeOK
  PROVE  /\ IsFiniteSet(Outstanding) /\ Cardinality(Outstanding) \in Nat
         /\ IsFiniteSet(Answers) /\ Cardinality(Answers) \in Nat
<1>1. Outstanding \in SUBSET Requests /\ Answers \in SUBSET Requests
  BY DEF TypeOK, Outstanding, Answers, Arrived
<1> QED BY <1>1, RoutingAssumption, FS_Subset, FS_CardinalityType

\* Taking the first frame out takes at most one answer out of the channel.
LEMMA ArrivedTaken ==
  ASSUME TypeOK, responseCh # <<>>, responseCh' = Tail(responseCh)
  PROVE  /\ Head(responseCh) \in Frames
         /\ Arrived' \subseteq Arrived
         /\ Arrived \ {Head(responseCh).of} \subseteq Arrived'
         /\ Head(responseCh).kind = "message" => Arrived' = Arrived
         /\ Head(responseCh).kind # "message" => Head(responseCh).of \in Arrived
<1>1. /\ Head(responseCh) = responseCh[1] /\ Len(responseCh) \in Nat \ {0}
      /\ Head(responseCh) \in Frames
      /\ Len(responseCh') = Len(responseCh) - 1
      /\ \A i \in 1..Len(responseCh') :
           responseCh'[i] = responseCh[i + 1] /\ i + 1 \in 1..Len(responseCh)
  BY Behead DEF TypeOK
<1>2. \A i \in 1..Len(responseCh) :
        i = 1 \/ (i - 1 \in 1..Len(responseCh') /\ responseCh'[i - 1] = responseCh[i])
  <2> TAKE i \in 1..Len(responseCh)
  <2> SUFFICES ASSUME i # 1
               PROVE  i - 1 \in 1..Len(responseCh') /\ responseCh'[i - 1] = responseCh[i]
    OBVIOUS
  <2>1. i - 1 \in 1..Len(responseCh') /\ (i - 1) + 1 = i
    BY <1>1
  <2> QED BY <1>1, <2>1
<1>3. Arrived' \subseteq Arrived
  BY <1>1 DEF Arrived
<1>4. ASSUME NEW r \in Arrived, r # Head(responseCh).of \/ Head(responseCh).kind = "message"
      PROVE  r \in Arrived'
  <2>1. PICK i \in 1..Len(responseCh) :
          responseCh[i].kind # "message" /\ responseCh[i].of = r
    BY DEF Arrived
  <2>2. i # 1
    BY <1>1, <1>4, <2>1
  <2>3. i - 1 \in 1..Len(responseCh') /\ responseCh'[i - 1] = responseCh[i]
    BY <1>2, <2>2
  <2> QED BY <2>1, <2>3 DEF Arrived
<1>5. Head(responseCh).kind # "message" => Head(responseCh).of \in Arrived
  <2>1. Head(responseCh).kind # "message" => Head(responseCh).of \in Requests
    BY <1>1, FrameKinds
  <2> QED BY <1>1, <2>1 DEF Arrived
<1> QED BY <1>1, <1>3, <1>4, <1>5

\* What the pump puts into the channel is an answer there, or is dropped.
LEMMA ArrivedPumped ==
  ASSUME TypeOK, NEW f \in Frames, Pump(f)
  PROVE  Arrived' = IF f.kind # "message" /\ Len(responseCh) < Cap
                    THEN Arrived \cup {f.of} ELSE Arrived
<1>1. Len(responseCh) \in Nat /\ (f.kind # "message" => f.of \in Requests)
  BY FrameKinds DEF TypeOK
<1>2. CASE ~(Len(responseCh) < Cap)
  BY <1>2 DEF Pump, Arrived
<1>3. CASE Len(responseCh) < Cap
  <2>1. /\ Len(responseCh') = Len(responseCh) + 1
        /\ responseCh'[Len(responseCh) + 1] = f
        /\ \A i \in 1..Len(responseCh) : responseCh'[i] = responseCh[i]
    BY <1>3 DEF Pump, TypeOK
  <2>2. \A i \in 1..Len(responseCh') : i \in 1..Len(responseCh) \/ i = Len(responseCh) + 1
    BY <1>1, <2>1
  <2>3. 1..Len(responseCh) \subseteq 1..Len(responseCh')
        /\ Len(responseCh) + 1 \in 1..Len(responseCh')
    BY <1>1, <2>1
  <2> QED BY <1>1, <1>3, <2>1, <2>2, <2>3 DEF Arrived
<1> QED BY <1>2, <1>3

\* A dispatch that stops waiting takes one answer with it, or none.
LEMMA OneLess ==
  ASSUME TypeOK, TypeOK', EnoughAnswers, NEW r \in Outstanding, NEW q,
         Outstanding' = Outstanding \ {r}, Answers \ {q} \subseteq Answers'
  PROVE  EnoughAnswers'
<1>1. Cardinality(Outstanding') = Cardinality(Outstanding) - 1
  BY Countable, FS_RemoveElement
<1>2. Cardinality(Answers \ {q}) >= Cardinality(Answers) - 1
  <2>1. CASE q \in Answers
    <3>1. Cardinality(Answers \ {q}) = Cardinality(Answers) - 1
      BY <2>1, Countable, FS_RemoveElement
    <3> QED BY <3>1, Countable
  <2>2. CASE q \notin Answers
    <3>1. Answers \ {q} = Answers
      BY <2>2
    <3> QED BY <3>1, Countable
  <2> QED BY <2>1, <2>2
<1>3. /\ IsFiniteSet(Answers') /\ Cardinality(Answers') \in Nat
      /\ IsFiniteSet(Outstanding') /\ Cardinality(Outstanding') \in Nat
  <2>1. Outstanding' \in SUBSET Requests /\ Answers' \in SUBSET Requests
    BY DEF TypeOK, Outstanding, Answers, Arrived
  <2> QED BY <2>1, RoutingAssumption, FS_Subset, FS_CardinalityType
<1>4. Cardinality(Answers \ {q}) <= Cardinality(Answers')
      /\ Cardinality(Answers \ {q}) \in Nat
  BY <1>3, FS_Subset, FS_CardinalityType
<1>5. Cardinality(Outstanding) <= Cardinality(Answers)
  BY DEF EnoughAnswers, Answers
<1>6. Cardinality(Outstanding') <= Cardinality(Answers')
  BY <1>1, <1>2, <1>3, <1>4, <1>5, Countable
<1> QED BY <1>6 DEF EnoughAnswers, Answers

\* Every step keeps the count.
LEMMA EnoughStep ==
  ASSUME TypeOK, TypeOK', ReadInv, EnoughAnswers, [Next]_vars
  PROVE  ReadInv' /\ EnoughAnswers'
<1> DEFINE Goal == ReadInv' /\ EnoughAnswers'
<1>1. ASSUME NEW r \in Requests, Send(r) \/ WriteError(r) PROVE Goal
  <2>1. UNCHANGED <<Answers, Outstanding>> /\ r \notin Answers
    BY <1>1 DEF Send, WriteError, Answers, Arrived, Outstanding, TypeOK, ReadInv
  <2>2. \A q \in Requests \ {r} : req'[q] = req[q]
    BY <1>1 DEF Send, WriteError, TypeOK
  <2>3. Answers \subseteq Requests
    BY DEF Answers, Arrived, TypeOK
  <2> QED BY <2>1, <2>2, <2>3 DEF ReadInv, EnoughAnswers, Answers
<1>2. ASSUME NEW r \in Requests, Written(r) PROVE Goal
  <2>1. /\ Answers' = Answers \cup {r} /\ r \notin Answers
        /\ Outstanding' = Outstanding \cup {r} /\ r \notin Outstanding
    BY <1>2 DEF Written, Answers, Arrived, Outstanding, TypeOK, ReadInv
  <2>2. Cardinality(Answers') = Cardinality(Answers) + 1
        /\ Cardinality(Outstanding') = Cardinality(Outstanding) + 1
    BY <2>1, Countable, FS_AddElement
  <2>3. ReadInv'
    BY <1>2, <2>1 DEF Written, ReadInv, TypeOK
  <2> QED BY <2>2, <2>3, Countable DEF EnoughAnswers, Answers
<1>3. ASSUME NEW r \in Requests, ReceiveResponse(r) PROVE Goal
  <2>1. Outstanding' = Outstanding \ {r} /\ r \in Outstanding
    BY <1>3 DEF ReceiveResponse, Outstanding, StatusOf, TypeOK
  <2>2. Arrived' \subseteq Arrived /\ Arrived \ {Head(responseCh).of} \subseteq Arrived'
    BY <1>3, ArrivedTaken DEF ReceiveResponse
  <2>3. Answers' \subseteq Answers /\ Answers \ {Head(responseCh).of} \subseteq Answers'
    BY <1>3, <2>2 DEF ReceiveResponse, Answers
  <2>4. EnoughAnswers'
    BY <2>1, <2>3, OneLess
  <2>5. ReadInv'
    BY <1>3, <2>3 DEF ReceiveResponse, ReadInv, StatusOf, TypeOK
  <2> QED BY <2>4, <2>5
<1>4. ASSUME NEW r \in Requests, ReceiveClosed(r) \/ ReceiveTimeout(r) PROVE Goal
  <2>1. Outstanding' = Outstanding \ {r} /\ r \in Outstanding /\ Answers' = Answers
    BY <1>4 DEF ReceiveClosed, ReceiveTimeout, Outstanding, Answers, Arrived, TypeOK
  <2>2. EnoughAnswers'
    BY <2>1, OneLess
  <2>3. ReadInv'
    <3>1. \A q \in Requests : req'[q] = req[q] \/ req'[q] \in {"502", "504"}
      BY <1>4 DEF ReceiveClosed, ReceiveTimeout, TypeOK
    <3>2. Answers \subseteq Requests
      BY DEF Answers, Arrived, TypeOK
    <3> QED BY <2>1, <3>1, <3>2 DEF ReadInv
  <2> QED BY <2>2, <2>3
<1>5. ASSUME UNCHANGED <<req, Answers>> PROVE Goal
  BY <1>5 DEF ReadInv, EnoughAnswers, Answers, Outstanding
<1>6. ASSUME NEW r \in Requests, Answer(r) PROVE Goal
  <2> PICK k \in {"response", "error"} : Pump([kind |-> k, of |-> r])
    BY <1>6 DEF Answer
  <2>1. Arrived' = IF Len(responseCh) < Cap THEN Arrived \cup {r} ELSE Arrived
    <3> DEFINE f == [kind |-> k, of |-> r]
    <3>1. f \in Frames /\ f.kind # "message" /\ f.of = r
      BY FrameKinds
    <3> QED BY <3>1, ArrivedPumped
  <2>2. Answers' = Answers
    BY <1>6, <2>1 DEF Answer, Answers
  <2> QED BY <1>5, <1>6, <2>2 DEF Answer
<1>7. ASSUME NEW s \in Sessions, SendMessage(s) PROVE Goal
  <2> DEFINE f == [kind |-> "message", of |-> s, n |-> sent[s] + 1]
  <2>1. sent[s] + 1 \in 1..MaxMessages
    BY <1>7, RoutingAssumption DEF TypeOK, SendMessage
  <2>2. f \in Frames /\ f.kind = "message" /\ Pump(f)
    BY <1>7, <2>1, FrameKinds DEF SendMessage
  <2>3. Arrived' = Arrived
    BY <2>2, ArrivedPumped
  <2> QED BY <1>5, <1>7, <2>3 DEF SendMessage, Answers
<1>8. ASSUME NEW s \in Sessions, PumpWorkerToClient(s) PROVE Goal
  <2>1. /\ Arrived' \subseteq Arrived /\ Arrived \ {Head(responseCh).of} \subseteq Arrived'
        /\ Head(responseCh).kind = "message" => Arrived' = Arrived
        /\ Head(responseCh).kind # "message" => Head(responseCh).of \in Arrived
    BY <1>8, ArrivedTaken DEF PumpWorkerToClient
  <2>2. /\ UNCHANGED <<req, inbox>>
        /\ lost' = IF Head(responseCh).kind = "message" THEN lost
                   ELSE lost \cup {Head(responseCh).of}
    BY <1>8 DEF PumpWorkerToClient
  <2>3. Answers' = Answers
    BY <2>1, <2>2 DEF Answers
  <2> QED BY <1>5, <2>2, <2>3
<1>9. ASSUME UNCHANGED <<req, inbox, responseCh, lost>> PROVE Goal
  BY <1>5, <1>9 DEF Answers, Arrived
<1> QED BY <1>1, <1>2, <1>3, <1>4, <1>6, <1>7, <1>8, <1>9
        DEF Next, Dispatch, Serve, OpenSession, SessionOpened, CloseSession, PumpEnds,
            Disconnect, vars

\* However many dispatches time out and sessions take frames, and whoever is
\* given whose answer: dispatches that wait are not more than the answers with
\* the worker, in the channel or lost.
THEOREM AnswersAreEnough == Spec => []EnoughAnswers
<1>1. Init => ReadInv /\ EnoughAnswers
  <2> SUFFICES ASSUME Init PROVE ReadInv /\ EnoughAnswers
    OBVIOUS
  <2>1. Answers = {} /\ Outstanding = {}
    BY DEF Init, Answers, Arrived, Outstanding
  <2>2. Cardinality({}) = 0
    BY FS_EmptySet
  <2>3. ReadInv /\ Cardinality(Answers) = 0 /\ Cardinality(Outstanding) = 0
    BY <2>1, <2>2 DEF ReadInv
  <2> QED BY <2>3 DEF EnoughAnswers, Answers
<1>2. TypeOK /\ TypeOK' /\ ReadInv /\ EnoughAnswers /\ [Next]_vars => ReadInv' /\ EnoughAnswers'
  BY EnoughStep
<1> QED BY <1>1, <1>2, RoutingTypeCorrect, PTL DEF Spec

-----------------------------------------------------------------------------
(* The messages of a session *)

\* Taking a frame out, whoever takes it, leaves the rest in order.
LEMMA OrderTaken ==
  ASSUME TypeOK, responseCh # <<>>, responseCh' = Tail(responseCh), sent' = sent,
         NEW s \in Sessions, Ordered(s),
         \/ got'[s] = got[s]
         \/ got'[s] = got[s] \cup {Head(responseCh)} /\ IsMessage(Head(responseCh), s)
  PROVE  Ordered(s)'
<1>1. /\ Head(responseCh) = responseCh[1] /\ Len(responseCh) \in Nat \ {0}
      /\ Len(responseCh') = Len(responseCh) - 1
      /\ \A i \in 1..Len(responseCh') :
           responseCh'[i] = responseCh[i + 1] /\ i + 1 \in 2..Len(responseCh)
  BY Behead DEF TypeOK
<1>2. ASSUME NEW i \in 1..Len(responseCh'), IsMessage(responseCh'[i], s)
      PROVE  /\ responseCh'[i].n \in 1..sent'[s]
             /\ \A j \in 1..(i - 1) :
                  IsMessage(responseCh'[j], s) => responseCh'[j].n < responseCh'[i].n
             /\ \A g \in got'[s] : g.n < responseCh'[i].n
  <2>1. i + 1 \in 1..Len(responseCh) /\ 1 \in 1..((i + 1) - 1)
        /\ \A j \in 1..(i - 1) : j + 1 \in 1..((i + 1) - 1) /\ j \in 1..Len(responseCh')
    BY <1>1, <1>2
  <2>2. IsMessage(responseCh[i + 1], s) /\ responseCh'[i] = responseCh[i + 1]
    BY <1>1, <1>2
  <2>3. responseCh'[i].n \in 1..sent'[s]
    BY <2>1, <2>2 DEF Ordered
  <2>4. \A j \in 1..(i - 1) :
          IsMessage(responseCh'[j], s) => responseCh'[j].n < responseCh'[i].n
    BY <1>1, <2>1, <2>2 DEF Ordered
  <2>5. \A g \in got'[s] : g.n < responseCh'[i].n
    BY <1>1, <2>1, <2>2 DEF Ordered
  <2> QED BY <2>3, <2>4, <2>5
<1>3. \A g \in got'[s] : g.n \in 1..sent'[s]
  BY <1>1 DEF Ordered
<1> QED BY <1>2, <1>3 DEF Ordered, IsMessage

\* Putting a frame at the end keeps the order, if a message in it is the next.
LEMMA OrderPumped ==
  ASSUME TypeOK, NEW f \in Frames, Pump(f), got' = got, NEW s \in Sessions, Ordered(s),
         sent'[s] \in Nat, sent[s] <= sent'[s],
         IsMessage(f, s) => f.n = sent[s] + 1 /\ sent'[s] = sent[s] + 1
  PROVE  Ordered(s)'
<1>1. sent[s] \in Nat /\ Len(responseCh) \in Nat
  BY DEF TypeOK
<1>2. CASE responseCh' = responseCh
  BY <1>1, <1>2 DEF Ordered, IsMessage
<1>3. CASE /\ Len(responseCh') = Len(responseCh) + 1
           /\ responseCh'[Len(responseCh) + 1] = f
           /\ \A i \in 1..Len(responseCh) : responseCh'[i] = responseCh[i]
  <2>1. ASSUME NEW i \in 1..Len(responseCh'), IsMessage(responseCh'[i], s)
        PROVE  /\ responseCh'[i].n \in 1..sent'[s]
               /\ \A j \in 1..(i - 1) :
                    IsMessage(responseCh'[j], s) => responseCh'[j].n < responseCh'[i].n
               /\ \A g \in got'[s] : g.n < responseCh'[i].n
    <3>1. \A j \in 1..(i - 1) : j \in 1..Len(responseCh)
      BY <1>1, <1>3
    <3>2. \A j \in 1..(i - 1) : responseCh'[j] = responseCh[j]
      BY <1>3, <3>1
    <3>3. CASE i \in 1..Len(responseCh)
      <4>1. responseCh'[i] = responseCh[i] /\ IsMessage(responseCh[i], s)
        BY <1>3, <2>1, <3>3
      <4>2. responseCh[i].n \in 1..sent[s]
        BY <3>3, <4>1 DEF Ordered
      <4>3. responseCh'[i].n \in 1..sent'[s]
        BY <1>1, <4>1, <4>2
      <4>4. \A j \in 1..(i - 1) :
              IsMessage(responseCh'[j], s) => responseCh'[j].n < responseCh'[i].n
        BY <3>2, <3>3, <4>1 DEF Ordered
      <4>5. \A g \in got'[s] : g.n < responseCh'[i].n
        BY <3>3, <4>1 DEF Ordered
      <4> QED BY <4>3, <4>4, <4>5
    <3>4. CASE i = Len(responseCh) + 1
      <4>1. responseCh'[i].n = sent[s] + 1 /\ sent'[s] = sent[s] + 1
        BY <1>3, <2>1, <3>4
      <4>2. \A j \in 1..(i - 1) :
              IsMessage(responseCh'[j], s) => responseCh'[j].n \in 1..sent[s]
        BY <3>1, <3>2 DEF Ordered
      <4>3. \A g \in got'[s] : g.n \in 1..sent[s]
        BY DEF Ordered
      <4> QED BY <1>1, <4>1, <4>2, <4>3
    <3> QED BY <1>1, <1>3, <3>3, <3>4
  <2>2. \A g \in got'[s] : g.n \in 1..sent'[s]
    BY <1>1 DEF Ordered
  <2> QED BY <2>1, <2>2 DEF Ordered, IsMessage
<1> QED BY <1>2, <1>3, PumpAppends

\* Every step keeps the messages of every session in order, and gives a session
\* only what is newer than all it was given.
LEMMA OrderStep ==
  ASSUME TypeOK, [Next]_vars, NEW s \in Sessions, Ordered(s)
  PROVE  Ordered(s)' /\ \A f \in got'[s] \ got[s], g \in got[s] : g.n < f.n
<1> DEFINE Goal == Ordered(s)' /\ \A f \in got'[s] \ got[s], g \in got[s] : g.n < f.n
<1> USE RoutingAssumption
<1>1. ASSUME UNCHANGED <<got, responseCh, sent>> PROVE Goal
  BY <1>1 DEF Ordered, IsMessage
<1>2. ASSUME NEW r \in Requests, ReceiveResponse(r) PROVE Goal
  <2>1. got'[s] = got[s]
    BY <1>2 DEF TypeOK, ReceiveResponse
  <2> QED BY <1>2, <2>1, OrderTaken DEF ReceiveResponse
<1>3. ASSUME NEW r \in Requests, Answer(r) PROVE Goal
  <2> PICK k \in {"response", "error"} : Pump([kind |-> k, of |-> r])
    BY <1>3 DEF Answer
  <2>1. [kind |-> k, of |-> r] \in Frames /\ ~IsMessage([kind |-> k, of |-> r], s)
    BY FrameKinds DEF IsMessage
  <2>2. got' = got /\ sent' = sent /\ sent[s] \in Nat
    BY <1>3 DEF Answer, TypeOK
  <2> QED BY <2>1, <2>2, OrderPumped
<1>4. ASSUME NEW t \in Sessions, PumpWorkerToClient(t) PROVE Goal
  <2>1. \/ got'[s] = got[s]
        \/ got'[s] = got[s] \cup {Head(responseCh)} /\ IsMessage(Head(responseCh), s)
    BY <1>4 DEF TypeOK, PumpWorkerToClient, IsMessage
  <2>2. responseCh # <<>> /\ responseCh' = Tail(responseCh) /\ sent' = sent
    BY <1>4 DEF PumpWorkerToClient
  <2>3. Ordered(s)'
    BY <2>1, <2>2, OrderTaken
  <2>4. Head(responseCh) = responseCh[1] /\ 1 \in 1..Len(responseCh)
    BY <2>2, Behead DEF TypeOK
  <2> QED BY <2>1, <2>3, <2>4 DEF Ordered
<1>5. ASSUME NEW t \in Sessions, SendMessage(t) PROVE Goal
  <2> DEFINE f == [kind |-> "message", of |-> t, n |-> sent[t] + 1]
  <2>1. sent[t] + 1 \in 1..MaxMessages /\ sent[s] \in Nat /\ sent'[s] \in Nat
        /\ sent[s] <= sent'[s]
    BY <1>5 DEF TypeOK, SendMessage
  <2>2. f \in Frames
    BY <2>1, FrameKinds
  <2>3. IsMessage(f, s) => f.n = sent[s] + 1 /\ sent'[s] = sent[s] + 1
    BY <1>5 DEF IsMessage, TypeOK, SendMessage
  <2>4. Pump(f) /\ got' = got
    BY <1>5 DEF SendMessage
  <2>5. Ordered(s)'
    BY <2>1, <2>2, <2>3, <2>4, OrderPumped
  <2> QED BY <2>4, <2>5
<1> QED BY <1>1, <1>2, <1>3, <1>4, <1>5
        DEF Next, Dispatch, Serve, Send, Written, WriteError, ReceiveClosed, ReceiveTimeout,
            OpenSession, SessionOpened, CloseSession, PumpEnds, Disconnect, vars

\* A session is given its messages in the order the worker sent them, whatever
\* the full channel drops and other receivers take.
THEOREM SessionsInOrder == Spec => SessionInOrder
<1> DEFINE Inv == \A s \in Sessions : Ordered(s)
<1>1. Init => Inv
  BY DEF Init, Ordered
<1>2. TypeOK /\ Inv /\ [Next]_vars => Inv'
  BY OrderStep
<1>3. TypeOK /\ Inv /\ [Next]_vars =>
        [\A s \in Sessions : \A f \in got'[s] \ got[s], g \in got[s] : g.n < f.n]_vars
  BY OrderStep
<1> QED BY <1>1, <1>2, <1>3, RoutingTypeCorrect, PTL DEF Spec, SessionInOrder
=============================================================================
