---------------------------- MODULE RelayProofs ----------------------------
(***************************************************************************)
(* Proofs about Relay.tla for any number of sessions, any pool size and    *)
(* any bounds: types, delivery in order and exactly once, the drained      *)
(* hand-over between requests, ownership of the executor's threads, and    *)
(* that a pool that is large enough always serves a waiting request.       *)
(***************************************************************************)
EXTENDS Relay, FiniteSetTheorems, SequenceTheorems, TLAPS

(***************************************************************************)
(* The inductive invariant.  Got counts the events that left the queue;    *)
(* the queue holds the events yielded since, in order, and behind them the *)
(* sentinel once the agent has ended and until the handler takes it.       *)
(***************************************************************************)
Got(s) == Len(sent[s]) + (IF held[s] > None THEN 1 ELSE 0)

\* What was sent, then the event in hand, then the queue: 1, 2, .., made.
Delivery(s) ==
  /\ Got(s) <= made[s]
  /\ \A i \in 1..Len(sent[s]) : sent[s][i] = i
  /\ held[s] > None => held[s] = Len(sent[s]) + 1
  /\ Len(queue[s]) \in {made[s] - Got(s), made[s] - Got(s) + 1}
  /\ \A i \in 1..Len(queue[s]) :
       queue[s][i] = IF i <= made[s] - Got(s) THEN Got(s) + i ELSE None

\* Where the sentinel is, given where the handler and the agent are.
Sentinel(s) ==
  /\ Len(queue[s]) = made[s] - Got(s) + 1 => wpc[s] = "done"
  /\ wpc[s] = "done" /\ (hpc[s] = "waiting" \/ (hpc[s] = "resumed" /\ held[s] # None))
       => Len(queue[s]) = made[s] - Got(s) + 1
  /\ held[s] = None => wpc[s] = "done" /\ Len(sent[s]) = made[s] /\ queue[s] = << >>
  /\ hpc[s] = "receive" /\ begun[s] > 0 =>
       wpc[s] = "done" /\ Len(sent[s]) = made[s] /\ queue[s] = << >>

\* The handler's place, the item it holds and the life of the agent agree.
Control(s) ==
  /\ held[s] # NoItem => hpc[s] \in {"resumed", "closed"}
  /\ hpc[s] = "resumed" => held[s] # NoItem
  /\ hpc[s] \in {"waiting", "resumed"} => begun[s] > 0
  /\ hpc[s] \in {"new", "ensuring"} => begun[s] = 0
  /\ begun[s] = 0 <=> wpc[s] = "none"

SessionInv(s) == Delivery(s) /\ Sentinel(s) /\ Control(s)

IInv == TypeOK /\ PoolOwnership /\ \A s \in Sessions : SessionInv(s)

USE DEF None, NoItem

(***************************************************************************)
(* Types.                                                                  *)
(***************************************************************************)
\* The initial state is well typed.
LEMMA TypeInit == Init => TypeOK
BY NoSessionAssumption DEF Init, TypeOK, HandlerStates

\* Connecting, sending and leaving keep the types.
LEMMA TypeClient ==
  ASSUME TypeOK, NEW s \in Sessions, ClientStep(s)
  PROVE  TypeOK'
<1>1. CASE Connect(s) \/ ClientLeave(s)
  BY <1>1 DEF TypeOK, Connect, ClientLeave, stream, pool, HandlerStates
<1>2. CASE \E m \in Messages : ClientSend(s, m)
  <2>1. PICK m \in Messages : ClientSend(s, m)
    BY <1>2
  <2>2. Append(inbox[s], m) \in Seq(Messages) /\ asked[s] + 1 \in Nat
    BY DEF TypeOK
  <2>3. inbox' \in [Sessions -> Seq(Messages)] /\ asked' \in [Sessions -> Nat]
    BY <2>1, <2>2 DEF TypeOK, ClientSend
  <2> QED BY <2>1, <2>3 DEF TypeOK, ClientSend, stream, pool
<1> QED BY <1>1, <1>2 DEF ClientStep

\* Every step of a handler keeps the types.
LEMMA TypeHandler ==
  ASSUME TypeOK, NEW s \in Sessions, HandlerStep(s)
  PROVE  TypeOK'
<1> USE DEF TypeOK, HandlerStates, client, stream, pool
<1>1. CASE Accept(s) \/ EnsureReturns(s) \/ EnsureRaises(s)
  BY <1>1 DEF Accept, EnsureReturns, EnsureRaises
<1>2. CASE StartRequest(s)
  <2>1. Tail(inbox[s]) \in Seq(Messages) /\ Append(jobs, s) \in Seq(Sessions)
    BY <1>2, HeadTailProperties DEF StartRequest, Reading
  <2>2. << >> \in Seq(Nat) /\ << >> \in Seq(Int)
    OBVIOUS
  <2>3. queue' \in [Sessions -> Seq(Nat)] /\ sent' \in [Sessions -> Seq(Int)]
    BY <1>2, <2>2 DEF StartRequest
  <2>4. inbox' \in [Sessions -> Seq(Messages)] /\ begun' \in [Sessions -> Nat]
    BY <1>2, <2>1 DEF StartRequest, Reading
  <2> QED BY <1>2, <2>1, <2>3, <2>4 DEF StartRequest, Reading
<1>3. CASE RejectRequest(s) \/ IgnoreRequest(s) \/ RaiseOnRequest(s)
  <2>1. Tail(inbox[s]) \in Seq(Messages)
    BY <1>3, HeadTailProperties DEF RejectRequest, IgnoreRequest, RaiseOnRequest, Reading
  <2>2. inbox' \in [Sessions -> Seq(Messages)]
    BY <1>3, <2>1 DEF RejectRequest, IgnoreRequest, RaiseOnRequest, Reading
  <2> QED BY <1>3, <2>2 DEF RejectRequest, IgnoreRequest, RaiseOnRequest, Reading
<1>4. CASE ReceiveDisconnect(s) \/ SendFails(s) \/ EndOfStream(s)
  BY <1>4 DEF ReceiveDisconnect, SendFails, EndOfStream
<1>5. CASE SendEvent(s)
  <2>1. Append(jobs, s) \in Seq(Sessions)
    BY <1>5
  <2>2. Append(sent[s], held[s]) \in Seq(Int)
    <3>1. held[s] \in Int
      OBVIOUS
    <3> QED BY <3>1
  <2>3. sent' \in [Sessions -> Seq(Int)]
    BY <1>5, <2>2 DEF SendEvent
  <2> QED BY <1>5, <2>1, <2>3 DEF SendEvent
<1> QED BY <1>1, <1>2, <1>3, <1>4, <1>5 DEF HandlerStep

\* Running a job and handing over an item keep the types.
LEMMA TypePool ==
  ASSUME TypeOK, RunJob \/ \E s \in Sessions : GetItem(s)
  PROVE  TypeOK'
<1>1. CASE RunJob
  <2>1. Head(jobs) \in Sessions /\ Tail(jobs) \in Seq(Sessions)
    BY <1>1, HeadTailProperties DEF TypeOK, RunJob
  <2> QED BY <1>1, <2>1 DEF TypeOK, RunJob, client, stream
<1>2. CASE \E s \in Sessions : GetItem(s)
  <2>1. PICK s \in Sessions : GetItem(s)
    BY <1>2
  <2>2. Head(queue[s]) \in Nat /\ Tail(queue[s]) \in Seq(Nat)
    BY <2>1, HeadTailProperties DEF TypeOK, GetItem
  <2>3. queue' \in [Sessions -> Seq(Nat)] /\ held' \in [Sessions -> Nat \cup {NoItem}]
    BY <2>1, <2>2 DEF TypeOK, GetItem
  <2> QED BY <2>1, <2>3 DEF TypeOK, GetItem, client, HandlerStates
<1> QED BY <1>1, <1>2

\* The agent's thread keeps the types.
LEMMA TypeWorker ==
  ASSUME TypeOK, NEW s \in Sessions, WorkerStep(s)
  PROVE  TypeOK'
<1>1. CASE WorkerPut(s)
  <2>1. made[s] + 1 \in Nat /\ Append(queue[s], made[s] + 1) \in Seq(Nat)
    BY DEF TypeOK
  <2>2. made' \in [Sessions -> Nat] /\ queue' \in [Sessions -> Seq(Nat)]
    BY <1>1, <2>1 DEF TypeOK, WorkerPut
  <2> QED BY <1>1, <2>2 DEF TypeOK, WorkerPut, client, pool
<1>2. CASE WorkerEnd(s)
  <2>1. Append(queue[s], None) \in Seq(Nat)
    BY DEF TypeOK
  <2>2. queue' \in [Sessions -> Seq(Nat)]
    BY <1>2, <2>1 DEF TypeOK, WorkerEnd
  <2> QED BY <1>2, <2>2 DEF TypeOK, WorkerEnd, client, pool
<1>3. CASE WorkerRaise(s)
  BY <1>3 DEF TypeOK, WorkerRaise, client, stream, pool
<1> QED BY <1>1, <1>2, <1>3 DEF WorkerStep

\* Every step keeps the types.
LEMMA TypeStep ==
  ASSUME TypeOK, [Next]_vars
  PROVE  TypeOK'
<1>1. CASE UNCHANGED vars
  BY <1>1 DEF TypeOK, vars
<1>2. CASE Next
  BY <1>2, TypePool, TypeClient, TypeHandler, TypeWorker DEF Next
<1> QED BY <1>1, <1>2

\* Every variable of the relay keeps the values TypeOK names, whatever the
\* number of sessions and the size of the pool.
THEOREM TypeCorrect == Spec => []TypeOK
<1>1. Init => TypeOK
  BY TypeInit
<1>2. TypeOK /\ [Next]_vars => TypeOK'
  BY TypeStep
<1> QED BY <1>1, <1>2, PTL DEF Spec

(***************************************************************************)
(* The session invariant.  A step of session s leaves the others alone;    *)
(* for s itself there is one lemma per kind of step.                       *)
(***************************************************************************)
Untouched(t) ==
  /\ hpc'[t] = hpc[t] /\ wpc'[t] = wpc[t] /\ held'[t] = held[t]
  /\ queue'[t] = queue[t] /\ made'[t] = made[t]
  /\ sent'[t] = sent[t] /\ begun'[t] = begun[t]

\* A session whose variables do not change keeps its invariant.
LEMMA UntouchedKeeps ==
  ASSUME NEW t \in Sessions, SessionInv(t), Untouched(t)
  PROVE  SessionInv(t)'
BY DEF SessionInv, Delivery, Sentinel, Control, Got, Untouched

\* A step of one session changes nothing of another.
LEMMA OthersUntouched ==
  ASSUME TypeOK, NEW s \in Sessions, NEW t \in Sessions, t # s,
         HandlerStep(s) \/ GetItem(s) \/ WorkerStep(s)
  PROVE  Untouched(t)
<1> USE DEF Untouched, TypeOK, client, stream, pool
<1>1. CASE GetItem(s)
  BY <1>1 DEF GetItem
<1>2. CASE WorkerStep(s)
  BY <1>2 DEF WorkerStep, WorkerPut, WorkerEnd, WorkerRaise
<1>3. CASE Accept(s) \/ EnsureReturns(s) \/ EnsureRaises(s)
  BY <1>3 DEF Accept, EnsureReturns, EnsureRaises
<1>4. CASE StartRequest(s)
  BY <1>4 DEF StartRequest, Reading
<1>5. CASE RejectRequest(s) \/ IgnoreRequest(s) \/ RaiseOnRequest(s)
  BY <1>5 DEF RejectRequest, IgnoreRequest, RaiseOnRequest, Reading
<1>6. CASE ReceiveDisconnect(s) \/ SendEvent(s) \/ SendFails(s) \/ EndOfStream(s)
  BY <1>6 DEF ReceiveDisconnect, SendEvent, SendFails, EndOfStream
<1> QED BY <1>1, <1>2, <1>3, <1>4, <1>5, <1>6 DEF HandlerStep

\* Steps that move the handler between places where it holds no item and
\* awaits none.
LEMMA HandlerMovesKeep ==
  ASSUME TypeOK, NEW s \in Sessions, SessionInv(s),
         \/ Accept(s) \/ EnsureReturns(s) \/ EnsureRaises(s)
         \/ RejectRequest(s) \/ IgnoreRequest(s) \/ RaiseOnRequest(s)
         \/ ReceiveDisconnect(s) \/ SendFails(s)
  PROVE  SessionInv(s)'
<1>1. /\ wpc'[s] = wpc[s] /\ held'[s] = held[s] /\ queue'[s] = queue[s]
      /\ made'[s] = made[s] /\ sent'[s] = sent[s] /\ begun'[s] = begun[s]
      /\ \/ hpc'[s] = hpc[s]
         \/ hpc'[s] = "closed"
         \/ hpc[s] \in {"new", "ensuring"} /\ hpc'[s] \in {"ensuring", "receive"}
  BY DEF TypeOK, Accept, EnsureReturns, EnsureRaises, RejectRequest, IgnoreRequest,
         RaiseOnRequest, Reading, ReceiveDisconnect, SendFails, client, stream, pool
<1>2. Delivery(s)'
  BY <1>1 DEF SessionInv, Delivery, Got
<1>3. Sentinel(s)'
  BY <1>1 DEF SessionInv, Sentinel, Control, Got, TypeOK
<1>4. Control(s)'
  BY <1>1 DEF SessionInv, Control, TypeOK
<1> QED BY <1>2, <1>3, <1>4 DEF SessionInv

\* A new request starts with a new queue and nothing sent.
LEMMA StartRequestKeeps ==
  ASSUME TypeOK, NEW s \in Sessions, SessionInv(s), StartRequest(s)
  PROVE  SessionInv(s)'
<1>1. /\ hpc'[s] = "waiting" /\ wpc'[s] = "running" /\ held'[s] = held[s]
      /\ queue'[s] = << >> /\ made'[s] = 0 /\ sent'[s] = << >>
      /\ begun'[s] = begun[s] + 1 /\ hpc[s] = "receive" /\ begun[s] \in Nat
  BY DEF TypeOK, StartRequest, Reading
<1>2. held[s] = NoItem
  BY <1>1 DEF SessionInv, Control
<1>3. Got(s)' = 0 /\ Len(sent'[s]) = 0 /\ Len(queue'[s]) = 0
  BY <1>1, <1>2 DEF Got
<1>4. Delivery(s)'
  BY <1>1, <1>2, <1>3 DEF Delivery
<1>5. Sentinel(s)' /\ Control(s)'
  BY <1>1, <1>2, <1>3 DEF Sentinel, Control
<1> QED BY <1>4, <1>5 DEF SessionInv

\* The event in hand becomes the last event sent.
LEMMA SendEventKeeps ==
  ASSUME TypeOK, NEW s \in Sessions, SessionInv(s), SendEvent(s)
  PROVE  SessionInv(s)'
<1>1. /\ hpc'[s] = "waiting" /\ wpc'[s] = wpc[s] /\ held'[s] = NoItem
      /\ queue'[s] = queue[s] /\ made'[s] = made[s] /\ begun'[s] = begun[s]
      /\ sent'[s] = Append(sent[s], held[s]) /\ hpc[s] = "resumed" /\ held[s] # None
  BY DEF TypeOK, SendEvent, client
<1>2. held[s] > None /\ held[s] = Len(sent[s]) + 1
  BY <1>1 DEF SessionInv, Control, Delivery, TypeOK
<1>3. /\ sent[s] \in Seq(Int) /\ Len(sent[s]) \in Nat /\ Len(sent'[s]) = Len(sent[s]) + 1
      /\ \A i \in 1..Len(sent'[s]) : sent'[s][i] = i
  <2>1. sent[s] \in Seq(Int) /\ Len(sent[s]) \in Nat /\ held[s] \in Int
    BY DEF TypeOK
  <2> QED BY <1>1, <1>2, <2>1 DEF SessionInv, Delivery
<1>4. Got(s)' = Got(s)
  <2>1. Got(s) = Len(sent[s]) + 1
    BY <1>2 DEF Got
  <2>2. Got(s)' = Len(sent'[s])
    BY <1>1, <1>3 DEF Got
  <2> QED BY <1>3, <2>1, <2>2
<1>5. Delivery(s)'
  BY <1>1, <1>3, <1>4 DEF SessionInv, Delivery
<1>6. Sentinel(s)' /\ Control(s)'
  BY <1>1, <1>2, <1>4 DEF SessionInv, Sentinel, Control
<1> QED BY <1>5, <1>6 DEF SessionInv

\* The sentinel is taken only when everything was sent.
LEMMA EndOfStreamKeeps ==
  ASSUME TypeOK, NEW s \in Sessions, SessionInv(s), EndOfStream(s)
  PROVE  SessionInv(s)'
<1>1. /\ hpc'[s] = "receive" /\ wpc'[s] = wpc[s] /\ held'[s] = NoItem
      /\ queue'[s] = queue[s] /\ made'[s] = made[s] /\ begun'[s] = begun[s]
      /\ sent'[s] = sent[s] /\ hpc[s] = "resumed" /\ held[s] = None
  BY DEF TypeOK, EndOfStream, client, stream
<1>2. wpc[s] = "done" /\ Len(sent[s]) = made[s] /\ queue[s] = << >> /\ made[s] \in Nat
  BY <1>1 DEF SessionInv, Sentinel, TypeOK
<1>3. Got(s)' = Len(sent[s]) /\ Len(sent[s]) \in Nat
  BY <1>1 DEF Got, TypeOK
<1>4. Delivery(s)'
  BY <1>1, <1>2, <1>3 DEF SessionInv, Delivery
<1>5. Sentinel(s)' /\ Control(s)'
  BY <1>1, <1>2, <1>3 DEF SessionInv, Sentinel, Control
<1> QED BY <1>4, <1>5 DEF SessionInv

\* Taking one item off the queue moves both bounds of its length by one.
LEMMA OneTaken ==
  ASSUME NEW m \in Int, NEW g \in Int, NEW n \in {m - g, m - g + 1}
  PROVE  n - 1 \in {m - (g + 1), m - (g + 1) + 1}
OBVIOUS

\* The head of the queue is the next event, or the sentinel behind the last one.
LEMMA GetItemKeeps ==
  ASSUME TypeOK, NEW s \in Sessions, SessionInv(s), hpc[s] = "waiting", GetItem(s)
  PROVE  SessionInv(s)'
<1>1. /\ hpc'[s] = "resumed" /\ wpc'[s] = wpc[s] /\ held'[s] = Head(queue[s])
      /\ queue'[s] = Tail(queue[s]) /\ made'[s] = made[s] /\ begun'[s] = begun[s]
      /\ sent'[s] = sent[s] /\ queue[s] # << >>
  BY DEF TypeOK, GetItem, client
<1>2. held[s] = NoItem /\ begun[s] > 0
  BY DEF SessionInv, Control
<1>3. made[s] \in Nat /\ Len(sent[s]) \in Nat /\ Got(s) = Len(sent[s])
  BY <1>2 DEF TypeOK, Got
<1>4. /\ Len(queue[s]) \in Nat \ {0} /\ Head(queue[s]) = queue[s][1]
      /\ Tail(queue[s]) \in Seq(Nat) /\ Len(Tail(queue[s])) = Len(queue[s]) - 1
      /\ \A i \in 1..Len(Tail(queue[s])) : Tail(queue[s])[i] = queue[s][i + 1]
  <2>1. queue[s] \in Seq(Nat) /\ queue[s] # << >>
    BY <1>1 DEF TypeOK
  <2> QED BY <2>1, HeadTailProperties, EmptySeq, LenProperties
<1>5. Got(s)' = Len(sent[s]) + (IF held'[s] > None THEN 1 ELSE 0)
  BY <1>1 DEF Got
<1>6. CASE made[s] > Got(s)
  <2>1. held'[s] = Got(s) + 1 /\ Got(s)' = Got(s) + 1
    <3>1. held'[s] = Got(s) + 1
      BY <1>1, <1>3, <1>4, <1>6 DEF SessionInv, Delivery
    <3>2. held'[s] > None
      BY <1>3, <3>1
    <3>3. Got(s)' = Len(sent[s]) + 1
      BY <1>5, <3>2
    <3> QED BY <1>3, <3>1, <3>3
  <2>2. Delivery(s)'
    <3>1. Got(s) \in Nat /\ Got(s)' <= made'[s]
      BY <1>1, <1>3, <1>6, <2>1
    <3>2. \A i \in 1..Len(sent'[s]) : sent'[s][i] = i
      BY <1>1 DEF SessionInv, Delivery
    <3>3. held'[s] = Len(sent'[s]) + 1
      BY <1>1, <1>3, <2>1
    <3>4. Len(queue'[s]) \in {made'[s] - Got(s)', made'[s] - Got(s)' + 1}
      <4>1. Len(queue[s]) \in {made[s] - Got(s), made[s] - Got(s) + 1}
        BY DEF SessionInv, Delivery
      <4>2. Len(queue'[s]) = Len(queue[s]) - 1 /\ Len(queue[s]) \in Nat
        BY <1>1, <1>4
      <4>3. made'[s] = made[s] /\ Got(s)' = Got(s) + 1 /\ made[s] \in Int /\ Got(s) \in Int
        BY <1>1, <1>3, <2>1
      <4>4. Len(queue[s]) - 1 \in {made[s] - (Got(s) + 1), made[s] - (Got(s) + 1) + 1}
        BY <4>1, <4>3, OneTaken
      <4> QED BY <4>2, <4>3, <4>4
    <3>5. ASSUME NEW i \in 1..Len(queue'[s])
          PROVE  queue'[s][i] = IF i <= made'[s] - Got(s)' THEN Got(s)' + i ELSE None
      <4>1. i + 1 \in 1..Len(queue[s]) /\ queue'[s][i] = queue[s][i + 1]
        BY <1>1, <1>4
      <4>2. queue[s][i + 1] = IF i + 1 <= made[s] - Got(s) THEN Got(s) + (i + 1) ELSE None
        BY <4>1 DEF SessionInv, Delivery
      <4>3. (i + 1 <= made[s] - Got(s) <=> i <= made[s] - (Got(s) + 1))
            /\ Got(s) + (i + 1) = (Got(s) + 1) + i
        BY <1>3, <3>1
      <4> QED BY <1>1, <2>1, <4>1, <4>2, <4>3
    <3> QED BY <3>1, <3>2, <3>3, <3>4, <3>5 DEF Delivery
  <2>3. Sentinel(s)'
    <3>1. held'[s] # None /\ held'[s] # NoItem /\ Got(s) \in Nat
      BY <1>3, <2>1
    <3>2. Len(queue[s]) = made[s] - Got(s) + 1 <=> Len(queue'[s]) = made'[s] - Got(s)' + 1
      <4>1. Len(queue'[s]) = Len(queue[s]) - 1 /\ Len(queue[s]) \in Nat
        BY <1>1, <1>4
      <4>2. made'[s] = made[s] /\ Got(s)' = Got(s) + 1 /\ made[s] \in Nat
        BY <1>1, <1>3, <2>1
      <4> QED BY <3>1, <4>1, <4>2
    <3> QED BY <1>1, <3>1, <3>2 DEF SessionInv, Sentinel
  <2>4. Control(s)'
    <3>1. held'[s] # NoItem
      BY <1>3, <2>1
    <3> QED BY <1>1, <1>2, <3>1 DEF SessionInv, Control
  <2> QED BY <2>2, <2>3, <2>4 DEF SessionInv
<1>7. CASE made[s] = Got(s)
  <2>1. Len(queue[s]) = 1 /\ held'[s] = None /\ wpc[s] = "done"
    BY <1>1, <1>3, <1>4, <1>7 DEF SessionInv, Delivery, Sentinel
  <2>2. queue'[s] = << >> /\ Got(s)' = Got(s)
    <3>1. queue'[s] = << >>
      <4>1. Len(Tail(queue[s])) = 0
        BY <1>4, <2>1
      <4> QED BY <1>1, <1>4, <4>1, EmptySeq
    <3>2. ~ (held'[s] > None)
      BY <2>1
    <3>3. Got(s)' = Len(sent[s]) + 0
      BY <1>5, <3>2
    <3> QED BY <1>3, <3>1, <3>3
  <2>3. Delivery(s)'
    BY <1>1, <1>3, <1>7, <2>1, <2>2 DEF SessionInv, Delivery
  <2>4. Sentinel(s)' /\ Control(s)'
    BY <1>1, <1>2, <1>3, <1>7, <2>1, <2>2 DEF SessionInv, Sentinel, Control
  <2> QED BY <2>3, <2>4 DEF SessionInv
<1> QED BY <1>3, <1>6, <1>7 DEF SessionInv, Delivery

\* The agent appends the next event, then the sentinel.
LEMMA WorkerKeeps ==
  ASSUME TypeOK, NEW s \in Sessions, SessionInv(s), WorkerStep(s)
  PROVE  SessionInv(s)'
<1>1. /\ hpc'[s] = hpc[s] /\ held'[s] = held[s] /\ sent'[s] = sent[s]
      /\ begun'[s] = begun[s] /\ wpc[s] = "running"
  BY DEF TypeOK, WorkerStep, WorkerPut, WorkerEnd, WorkerRaise, client, stream, pool
<1>2. /\ made[s] \in Nat /\ Len(sent[s]) \in Nat /\ queue[s] \in Seq(Nat) /\ begun[s] \in Nat
      /\ Got(s) \in Nat /\ Got(s)' = Got(s) /\ Got(s) <= made[s]
  BY <1>1 DEF TypeOK, Got, SessionInv, Delivery
<1>3. /\ Len(queue[s]) = made[s] - Got(s) /\ held[s] # None
      /\ ~ (hpc[s] = "receive" /\ begun[s] > 0)
  BY <1>1, <1>2 DEF SessionInv, Delivery, Sentinel
<1>4. CASE WorkerPut(s)
  <2>1. made'[s] = made[s] + 1 /\ queue'[s] = Append(queue[s], made[s] + 1) /\ wpc'[s] = wpc[s]
    BY <1>4 DEF TypeOK, WorkerPut
  <2>2. /\ Len(queue'[s]) = Len(queue[s]) + 1 /\ Len(queue[s]) \in Nat
        /\ \A i \in 1..Len(queue'[s]) :
             queue'[s][i] = IF i = Len(queue'[s]) THEN made[s] + 1 ELSE queue[s][i]
    BY <1>2, <2>1, AppendProperties
  <2>3. Delivery(s)'
    <3>1. /\ Got(s)' <= made'[s]
          /\ Len(queue'[s]) = made'[s] - Got(s)'
          /\ \A i \in 1..Len(sent'[s]) : sent'[s][i] = i
          /\ held'[s] > None => held'[s] = Len(sent'[s]) + 1
      BY <1>1, <1>2, <1>3, <2>1, <2>2 DEF SessionInv, Delivery
    <3>2. ASSUME NEW i \in 1..Len(queue'[s])
          PROVE  queue'[s][i] = Got(s)' + i /\ i <= made'[s] - Got(s)'
      <4>1. CASE i = Len(queue'[s])
        BY <1>2, <1>3, <2>1, <2>2, <4>1
      <4>2. CASE i # Len(queue'[s])
        <5>1. i \in 1..Len(queue[s]) /\ i <= made[s] - Got(s)
          BY <1>2, <1>3, <2>2, <4>2
        <5>2. queue'[s][i] = queue[s][i]
          BY <2>2, <4>2
        <5>3. queue[s][i] = Got(s) + i
          BY <5>1 DEF SessionInv, Delivery
        <5> QED BY <1>2, <2>1, <5>1, <5>2, <5>3
      <4> QED BY <4>1, <4>2
    <3> QED BY <3>1, <3>2 DEF Delivery
  <2>4. Sentinel(s)' /\ Control(s)'
    BY <1>1, <1>2, <1>3, <2>1, <2>2 DEF SessionInv, Sentinel, Control
  <2> QED BY <2>3, <2>4 DEF SessionInv
<1>5. CASE WorkerEnd(s)
  <2>1. made'[s] = made[s] /\ queue'[s] = Append(queue[s], None) /\ wpc'[s] = "done"
    BY <1>5 DEF TypeOK, WorkerEnd
  <2>2. /\ Len(queue'[s]) = Len(queue[s]) + 1 /\ Len(queue[s]) \in Nat
        /\ \A i \in 1..Len(queue'[s]) :
             queue'[s][i] = IF i = Len(queue'[s]) THEN None ELSE queue[s][i]
    BY <1>2, <2>1, AppendProperties
  <2>3. Delivery(s)'
    BY <1>1, <1>2, <1>3, <2>1, <2>2 DEF SessionInv, Delivery
  <2>4. Sentinel(s)' /\ Control(s)'
    BY <1>1, <1>2, <1>3, <2>1, <2>2 DEF SessionInv, Sentinel, Control
  <2> QED BY <2>3, <2>4 DEF SessionInv
<1>6. CASE WorkerRaise(s)
  <2>1. made'[s] = made[s] /\ queue'[s] = queue[s] /\ wpc'[s] = "dead"
    BY <1>6 DEF TypeOK, WorkerRaise, stream
  <2> QED BY <1>1, <1>2, <1>3, <2>1 DEF SessionInv, Delivery, Sentinel, Control
<1> QED BY <1>4, <1>5, <1>6 DEF WorkerStep

(***************************************************************************)
(* The executor's threads.                                                 *)
(***************************************************************************)
\* Steps that leave the pool and the set of awaiting handlers alone.
LEMMA PoolUnchanged ==
  ASSUME PoolOwnership, jobs' = jobs, busy' = busy,
         \A s \in Sessions : hpc'[s] = "waiting" <=> hpc[s] = "waiting"
  PROVE  PoolOwnership'
BY DEF PoolOwnership

\* A handler that starts to await an item submits its job.
LEMMA PoolSubmit ==
  ASSUME TypeOK, PoolOwnership, NEW s \in Sessions, hpc[s] # "waiting",
         jobs' = Append(jobs, s), busy' = busy, hpc'[s] = "waiting",
         \A t \in Sessions \ {s} : hpc'[t] = hpc[t]
  PROVE  PoolOwnership'
<1>1. /\ jobs \in Seq(Sessions) /\ Len(jobs) \in Nat /\ Len(jobs') = Len(jobs) + 1
      /\ \A i \in 1..Len(jobs) : jobs'[i] = jobs[i]
      /\ jobs'[Len(jobs) + 1] = s
  BY AppendProperties DEF TypeOK
<1>2. s \notin busy /\ \A i \in 1..Len(jobs) : jobs[i] # s
  BY DEF PoolOwnership
<1>3. \A i \in 1..Len(jobs') : i \in 1..Len(jobs) \/ i = Len(jobs) + 1
  BY <1>1
<1>4. 1..Len(jobs) \subseteq 1..Len(jobs') /\ Len(jobs) + 1 \in 1..Len(jobs')
  BY <1>1
<1>5. \A t \in Sessions :
        hpc'[t] = "waiting" <=> t \in busy' \/ \E i \in 1..Len(jobs') : jobs'[i] = t
  <2>1. ASSUME NEW t \in Sessions \ {s}
        PROVE  (\E i \in 1..Len(jobs') : jobs'[i] = t) <=> (\E i \in 1..Len(jobs) : jobs[i] = t)
    BY <1>1, <1>3, <1>4
  <2> QED BY <1>1, <1>4, <2>1 DEF PoolOwnership
<1>6. ASSUME NEW i \in 1..Len(jobs')
      PROVE  jobs'[i] \notin busy' /\ \A j \in 1..Len(jobs') : jobs'[i] = jobs'[j] => i = j
  BY <1>1, <1>2, <1>3 DEF PoolOwnership
<1> QED BY <1>5, <1>6 DEF PoolOwnership

\* A free thread takes the first job.
LEMMA PoolRunJob ==
  ASSUME TypeOK, PoolOwnership, RunJob
  PROVE  PoolOwnership'
<1>1. /\ jobs \in Seq(Sessions) /\ jobs # << >> /\ jobs' = Tail(jobs)
      /\ busy' = busy \cup {Head(jobs)} /\ hpc' = hpc /\ Cardinality(busy) < PoolSize
  BY DEF RunJob, TypeOK
<1>2. /\ Len(jobs) \in Nat \ {0} /\ Len(jobs') = Len(jobs) - 1 /\ Head(jobs) = jobs[1]
      /\ \A i \in 1..Len(jobs') : jobs'[i] = jobs[i + 1]
  BY <1>1, HeadTailProperties, EmptySeq
<1>3. \A i \in 1..Len(jobs') : i + 1 \in 1..Len(jobs) /\ i + 1 # 1
  BY <1>2
<1>4. 1 \in 1..Len(jobs) /\ jobs[1] \notin busy
  BY <1>2 DEF PoolOwnership
<1>5. IsFiniteSet(busy') /\ Cardinality(busy') <= PoolSize
  <2>1. IsFiniteSet(busy) /\ Cardinality(busy) \in Nat
    BY FS_CardinalityType DEF PoolOwnership
  <2>2. IsFiniteSet(busy') /\ Cardinality(busy') = Cardinality(busy) + 1
    BY <1>1, <1>2, <1>4, <2>1, FS_AddElement
  <2> QED BY <1>1, <2>1, <2>2, PoolAssumption
<1>6. ASSUME NEW t \in Sessions
      PROVE  hpc'[t] = "waiting" <=> t \in busy' \/ \E i \in 1..Len(jobs') : jobs'[i] = t
  <2>1. (\E i \in 1..Len(jobs') : jobs'[i] = t) => \E i \in 1..Len(jobs) : jobs[i] = t
    BY <1>2, <1>3
  <2>2. ASSUME NEW i \in 1..Len(jobs), jobs[i] = t
        PROVE  t = jobs[1] \/ \E k \in 1..Len(jobs') : jobs'[k] = t
    <3>1. CASE i = 1
      BY <2>2, <3>1
    <3>2. CASE i # 1
      <4>1. i - 1 \in 1..Len(jobs') /\ jobs'[i - 1] = jobs[(i - 1) + 1] /\ (i - 1) + 1 = i
        BY <1>2, <3>2
      <4> QED BY <2>2, <4>1
    <3> QED BY <3>1, <3>2
  <2> QED BY <1>1, <1>2, <1>4, <2>1, <2>2 DEF PoolOwnership
<1>7. ASSUME NEW i \in 1..Len(jobs')
      PROVE  jobs'[i] \notin busy' /\ \A j \in 1..Len(jobs') : jobs'[i] = jobs'[j] => i = j
  <2>1. jobs'[i] \notin busy'
    BY <1>1, <1>2, <1>3, <1>4 DEF PoolOwnership
  <2>2. ASSUME NEW j \in 1..Len(jobs'), jobs'[i] = jobs'[j]
        PROVE  i = j
    <3>1. i + 1 = j + 1
      BY <1>2, <1>3, <2>2 DEF PoolOwnership
    <3> QED BY <1>2, <3>1
  <2> QED BY <2>1, <2>2
<1> QED BY <1>5, <1>6, <1>7 DEF PoolOwnership

\* A thread that got its item is free again.
LEMMA PoolGetItem ==
  ASSUME TypeOK, PoolOwnership, NEW s \in Sessions, GetItem(s)
  PROVE  PoolOwnership'
<1>1. /\ s \in busy /\ busy' = busy \ {s} /\ jobs' = jobs /\ hpc'[s] = "resumed"
      /\ \A t \in Sessions \ {s} : hpc'[t] = hpc[t]
  BY DEF GetItem, TypeOK
<1>2. IsFiniteSet(busy') /\ Cardinality(busy') <= PoolSize
  <2>1. IsFiniteSet(busy) /\ Cardinality(busy) \in Nat
    BY FS_CardinalityType DEF PoolOwnership
  <2>2. IsFiniteSet(busy') /\ Cardinality(busy') = Cardinality(busy) - 1
    BY <1>1, <2>1, FS_RemoveElement
  <2> QED BY <2>1, <2>2, PoolAssumption DEF PoolOwnership
<1>3. ASSUME NEW i \in 1..Len(jobs)
      PROVE  jobs[i] # s
  BY <1>1 DEF PoolOwnership
<1> QED BY <1>1, <1>2, <1>3 DEF PoolOwnership

(***************************************************************************)
(* The invariant as a whole.                                               *)
(***************************************************************************)
\* The invariant holds initially.
LEMMA IInvInit == Init => IInv
<1> SUFFICES ASSUME Init PROVE IInv
  OBVIOUS
<1>1. TypeOK
  BY TypeInit
<1>2. PoolOwnership
  <2>1. IsFiniteSet({}) /\ Cardinality({}) = 0
    BY FS_EmptySet
  <2> QED BY <2>1, PoolAssumption DEF Init, PoolOwnership
<1>3. ASSUME NEW s \in Sessions PROVE SessionInv(s)
  BY DEF Init, SessionInv, Delivery, Sentinel, Control, Got
<1> QED BY <1>1, <1>2, <1>3 DEF IInv

\* Every step keeps the ownership of the threads.
LEMMA PoolStep ==
  ASSUME IInv, [Next]_vars
  PROVE  PoolOwnership'
<1> USE DEF IInv, client, stream, pool
<1>1. CASE UNCHANGED vars
  BY <1>1, PoolUnchanged DEF vars
<1>2. CASE RunJob
  BY <1>2, PoolRunJob
<1>3. ASSUME NEW s \in Sessions, ClientStep(s) \/ WorkerStep(s)
      PROVE  PoolOwnership'
  BY <1>3, PoolUnchanged DEF ClientStep, Connect, ClientSend, ClientLeave,
                             WorkerStep, WorkerPut, WorkerEnd, WorkerRaise
<1>4. ASSUME NEW s \in Sessions, GetItem(s)
      PROVE  PoolOwnership'
  BY <1>4, PoolGetItem
<1>5. ASSUME NEW s \in Sessions, StartRequest(s) \/ SendEvent(s)
      PROVE  PoolOwnership'
  BY <1>5, PoolSubmit DEF StartRequest, SendEvent, Reading, TypeOK
<1>6. ASSUME NEW s \in Sessions,
             \/ Accept(s) \/ EnsureReturns(s) \/ EnsureRaises(s)
             \/ RejectRequest(s) \/ IgnoreRequest(s) \/ RaiseOnRequest(s)
             \/ ReceiveDisconnect(s) \/ SendFails(s) \/ EndOfStream(s)
      PROVE  PoolOwnership'
  <2>1. jobs' = jobs /\ busy' = busy
    BY <1>6 DEF Accept, EnsureReturns, EnsureRaises, RejectRequest, IgnoreRequest,
                RaiseOnRequest, ReceiveDisconnect, SendFails, EndOfStream
  <2>2. \A t \in Sessions : hpc'[t] = "waiting" <=> hpc[t] = "waiting"
    BY <1>6 DEF Accept, EnsureReturns, EnsureRaises, RejectRequest, IgnoreRequest,
                RaiseOnRequest, ReceiveDisconnect, SendFails, EndOfStream, Reading, TypeOK
  <2> QED BY <2>1, <2>2, PoolUnchanged
<1> QED BY <1>1, <1>2, <1>3, <1>4, <1>5, <1>6 DEF Next, HandlerStep

\* Every step keeps every session's invariant.
LEMMA SessionStep ==
  ASSUME IInv, [Next]_vars, NEW t \in Sessions
  PROVE  SessionInv(t)'
<1>0. TypeOK /\ SessionInv(t) /\ PoolOwnership
  BY DEF IInv
<1>1. CASE UNCHANGED vars \/ RunJob \/ \E s \in Sessions : ClientStep(s)
  <2>1. Untouched(t)
    BY <1>1 DEF vars, RunJob, ClientStep, Connect, ClientSend, ClientLeave, stream, Untouched
  <2> QED BY <1>0, <2>1, UntouchedKeeps
<1>2. ASSUME NEW s \in Sessions, HandlerStep(s) \/ GetItem(s) \/ WorkerStep(s)
      PROVE  SessionInv(t)'
  <2>1. CASE s # t
    <3>1. Untouched(t)
      BY <1>0, <1>2, <2>1, OthersUntouched
    <3> QED BY <1>0, <3>1, UntouchedKeeps
  <2>2. CASE s = t /\ HandlerStep(s)
    BY <1>0, <2>2, HandlerMovesKeep, StartRequestKeeps, SendEventKeeps, EndOfStreamKeeps
       DEF HandlerStep
  <2>3. CASE s = t /\ GetItem(s)
    <3>1. hpc[t] = "waiting"
      BY <1>0, <2>3 DEF GetItem, PoolOwnership
    <3> QED BY <1>0, <2>3, <3>1, GetItemKeeps
  <2>4. CASE s = t /\ WorkerStep(s)
    BY <1>0, <2>4, WorkerKeeps
  <2> QED BY <1>2, <2>1, <2>2, <2>3, <2>4
<1> QED BY <1>1, <1>2 DEF Next

\* The inductive invariant holds in every reachable state: what was sent, what
\* is held and what is queued always make up the events yielded, and pool,
\* handler and agent agree on who awaits whom.
THEOREM Invariance == Spec => []IInv
<1>1. IInv /\ [Next]_vars => IInv'
  <2> SUFFICES ASSUME IInv, [Next]_vars PROVE IInv'
    OBVIOUS
  <2>1. TypeOK'
    BY TypeStep DEF IInv
  <2> QED BY <2>1, PoolStep, SessionStep DEF IInv
<1> QED BY IInvInit, <1>1, PTL DEF Spec

\* What a client has seen of a request is the agent's events 1, 2, 3.. in the
\* order the generator yielded them (queue.Queue between worker and handler).
THEOREM DeliveredInOrder == Spec => []InOrderExactlyOnce
<1>1. IInv => InOrderExactlyOnce
  <2> SUFFICES ASSUME IInv, NEW s \in Sessions
               PROVE  Len(sent[s]) <= made[s] /\ \A i \in 1..Len(sent[s]) : sent[s][i] = i
    BY DEF InOrderExactlyOnce
  <2>1. Len(sent[s]) \in Nat /\ made[s] \in Nat /\ Delivery(s)
    BY DEF IInv, TypeOK, SessionInv
  <2>2. Len(sent[s]) <= Got(s) /\ Got(s) \in Nat
    <3>1. CASE held[s] > None
      <4>1. Got(s) = Len(sent[s]) + 1
        BY <3>1 DEF Got
      <4> QED BY <2>1, <4>1
    <3>2. CASE ~ (held[s] > None)
      <4>1. Got(s) = Len(sent[s]) + 0
        BY <3>2 DEF Got
      <4> QED BY <2>1, <4>1
    <3> QED BY <3>1, <3>2
  <2> QED BY <2>1, <2>2 DEF Delivery
<1> QED BY Invariance, <1>1, PTL

\* A handler is back at receive only after the agent ended and everything it
\* yielded was sent.
THEOREM DrainedHandOver == Spec => []ReadyOnlyWhenDrained
<1>1. IInv => ReadyOnlyWhenDrained
  BY DEF IInv, SessionInv, Sentinel, ReadyOnlyWhenDrained
<1> QED BY Invariance, <1>1, PTL

\* Exactly the awaiting handlers hold a thread of the executor or a place in
\* its queue, one each, for a pool of any size.
THEOREM PoolOwned == Spec => []PoolOwnership
<1>1. IInv => PoolOwnership
  BY DEF IInv
<1> QED BY Invariance, <1>1, PTL

(***************************************************************************)
(* Refinement: every step of the relay is a step or a stutter of every     *)
(* session's abstract event stream.                                        *)
(***************************************************************************)
Same(t) ==
  /\ Phase(t)' = Phase(t) /\ wpc'[t] = wpc[t] /\ made'[t] = made[t]
  /\ sent'[t] = sent[t] /\ begun'[t] = begun[t]

\* A step that changes nothing the stream sees is a stutter.
LEMMA SameStutters ==
  ASSUME NEW t \in Sessions, Same(t)
  PROVE  UNCHANGED Stream(t)!vars
BY DEF Same, Stream!vars

\* The initial state is an idle stream.
LEMMA RefinesInit ==
  ASSUME Init, NEW t \in Sessions
  PROVE  Stream(t)!Init
BY DEF Init, Stream!Init, Phase

\* The steps that do change what the abstract stream of t sees.
LEMMA RefinesHandler ==
  ASSUME IInv, NEW t \in Sessions, HandlerStep(t)
  PROVE  [Stream(t)!Next]_(Stream(t)!vars)
<1>0. TypeOK /\ Delivery(t) /\ Sentinel(t) /\ Control(t)
  BY DEF IInv, SessionInv
<1> USE DEF Phase, client, stream, pool
<1>1. CASE Accept(t) \/ EnsureReturns(t) \/ IgnoreRequest(t)
  <2>1. Same(t)
    BY <1>0, <1>1 DEF Same, Accept, EnsureReturns, IgnoreRequest, Reading, TypeOK
  <2> QED BY <2>1, SameStutters
<1>2. CASE EnsureRaises(t) \/ RaiseOnRequest(t) \/ ReceiveDisconnect(t) \/ SendFails(t)
  <2>1. Stream(t)!HangUp
    BY <1>0, <1>2 DEF Stream!HangUp, EnsureRaises, RaiseOnRequest, Reading,
                      ReceiveDisconnect, SendFails, TypeOK
  <2> QED BY <2>1 DEF Stream!Next
<1>3. CASE RejectRequest(t)
  <2>1. CASE conn[t] = "gone"
    <3>1. Stream(t)!HangUp
      BY <1>0, <1>3, <2>1 DEF Stream!HangUp, RejectRequest, Reading, TypeOK
    <3> QED BY <3>1 DEF Stream!Next
  <2>2. CASE conn[t] # "gone"
    <3>1. Same(t)
      BY <1>0, <1>3, <2>2 DEF Same, RejectRequest, Reading, TypeOK
    <3> QED BY <3>1, SameStutters
  <2> QED BY <2>1, <2>2
<1>4. CASE StartRequest(t)
  <2>1. Stream(t)!Begin
    BY <1>0, <1>4 DEF Stream!Begin, StartRequest, Reading, TypeOK
  <2> QED BY <2>1 DEF Stream!Next
<1>5. CASE SendEvent(t)
  <2>1. held[t] > None /\ Len(sent[t]) \in Nat /\ made[t] \in Nat /\ sent[t] \in Seq(Int)
    BY <1>0, <1>5 DEF SendEvent, Control, TypeOK
  <2>2. Len(sent[t]) < made[t]
    <3>1. Got(t) = Len(sent[t]) + 1
      BY <2>1 DEF Got
    <3> QED BY <1>0, <2>1, <3>1 DEF Delivery
  <2>3. Len(sent'[t]) = Len(sent[t]) + 1
    BY <1>0, <1>5, <2>1 DEF SendEvent, TypeOK
  <2>4. Stream(t)!Deliver
    BY <1>0, <1>5, <2>2, <2>3 DEF Stream!Deliver, SendEvent, TypeOK
  <2> QED BY <2>4 DEF Stream!Next
<1>6. CASE EndOfStream(t)
  <2>1. wpc[t] = "done" /\ Len(sent[t]) = made[t]
    BY <1>0, <1>6 DEF EndOfStream, Sentinel
  <2>2. Stream(t)!Finish
    BY <1>0, <1>6, <2>1 DEF Stream!Finish, EndOfStream, TypeOK
  <2> QED BY <2>2 DEF Stream!Next
<1> QED BY <1>1, <1>2, <1>3, <1>4, <1>5, <1>6 DEF HandlerStep

\* The agent's steps are Produce, AgentEnds or a stutter.
LEMMA RefinesWorker ==
  ASSUME TypeOK, NEW t \in Sessions, WorkerStep(t)
  PROVE  [Stream(t)!Next]_(Stream(t)!vars)
<1> USE DEF Phase, client, stream, pool
<1>1. CASE WorkerPut(t)
  <2>1. Stream(t)!Produce
    BY <1>1 DEF Stream!Produce, WorkerPut, TypeOK
  <2> QED BY <2>1 DEF Stream!Next
<1>2. CASE WorkerEnd(t)
  <2>1. Stream(t)!AgentEnds
    BY <1>2 DEF Stream!AgentEnds, WorkerEnd, TypeOK
  <2> QED BY <2>1 DEF Stream!Next
<1>3. CASE WorkerRaise(t)
  BY <1>3 DEF Stream!vars, WorkerRaise, TypeOK
<1> QED BY <1>1, <1>2, <1>3 DEF WorkerStep

\* Every step of the relay is a step or a stutter of every stream.
LEMMA RefinesStep ==
  ASSUME IInv, [Next]_vars, NEW t \in Sessions
  PROVE  [Stream(t)!Next]_(Stream(t)!vars)
<1>0. TypeOK /\ PoolOwnership
  BY DEF IInv
<1>1. CASE UNCHANGED vars \/ RunJob \/ \E s \in Sessions : ClientStep(s)
  <2>1. Same(t)
    BY <1>1 DEF vars, RunJob, ClientStep, Connect, ClientSend, ClientLeave, stream, Same, Phase
  <2> QED BY <2>1, SameStutters
<1>2. ASSUME NEW s \in Sessions, HandlerStep(s) \/ GetItem(s) \/ WorkerStep(s)
      PROVE  [Stream(t)!Next]_(Stream(t)!vars)
  <2>1. CASE s # t
    <3>1. Untouched(t)
      BY <1>0, <1>2, <2>1, OthersUntouched
    <3>2. Same(t)
      BY <3>1 DEF Untouched, Same, Phase
    <3> QED BY <3>2, SameStutters
  <2>2. CASE s = t /\ HandlerStep(s)
    BY <2>2, RefinesHandler
  <2>3. CASE s = t /\ GetItem(s)
    <3>1. hpc[t] = "waiting"
      BY <1>0, <2>3 DEF GetItem, PoolOwnership
    <3>2. Same(t)
      BY <1>0, <2>3, <3>1 DEF GetItem, Same, Phase, TypeOK
    <3> QED BY <3>2, SameStutters
  <2>4. CASE s = t /\ WorkerStep(s)
    BY <1>0, <2>4, RefinesWorker
  <2> QED BY <1>2, <2>1, <2>2, <2>3, <2>4
<1> QED BY <1>1, <1>2 DEF Next

\* Each session of the relay implements the abstract event stream.
THEOREM Refinement == Spec => SessionIsEventStream
<1>1. Init => \A s \in Sessions : Stream(s)!Init
  BY RefinesInit
<1>2. IInv /\ [Next]_vars => [\A s \in Sessions : [Stream(s)!Next]_(Stream(s)!vars)]_vars
  BY RefinesStep
<1> QED BY Invariance, <1>1, <1>2, PTL DEF Spec, SessionIsEventStream

(***************************************************************************)
(* That streams finish: nothing the provers can say about fairness, but    *)
(* that a request that waits never waits for a pool all of whose threads   *)
(* are lost, as long as it has more threads than agents that may raise.    *)
(***************************************************************************)
EnoughThreads == IsFiniteSet(MayRaise) /\ Cardinality(MayRaise) < PoolSize

\* The executor's thread is given an item, or will be by an agent that runs.
Served(s) == queue[s] # << >> \/ wpc[s] = "running"
\* Its agent is dead, and has left nothing: queue.get blocks for ever.
Lost(s) == wpc[s] = "dead" /\ queue[s] = << >>

Proceeds ==
  \A s \in Sessions : hpc[s] = "waiting" /\ ~ Lost(s) =>
    \/ s \in busy /\ Served(s)
    \/ jobs # << >> /\ (Cardinality(busy) < PoolSize \/ \E t \in busy : Served(t))

\* Only agents that may raise die.
DeathInv == \A s \in Sessions : wpc[s] = "dead" => s \in MayRaise

LEMMA DeathStep == TypeOK /\ DeathInv /\ [Next]_vars => DeathInv'
<1> SUFFICES ASSUME TypeOK, DeathInv, [Next]_vars PROVE DeathInv'
  OBVIOUS
<1> USE DEF DeathInv, TypeOK, client, stream, pool
<1>1. CASE UNCHANGED vars
  BY <1>1 DEF vars
<1>2. CASE RunJob
  BY <1>2 DEF RunJob
<1>3. ASSUME NEW s \in Sessions, ClientStep(s) \/ GetItem(s) PROVE DeathInv'
  BY <1>3 DEF ClientStep, Connect, ClientLeave, ClientSend, GetItem
<1>4. ASSUME NEW s \in Sessions, HandlerStep(s) PROVE DeathInv'
  BY <1>4 DEF HandlerStep, Accept, EnsureReturns, EnsureRaises, StartRequest, RejectRequest,
    IgnoreRequest, RaiseOnRequest, ReceiveDisconnect, SendEvent, SendFails, EndOfStream
<1>5. ASSUME NEW s \in Sessions, WorkerStep(s) PROVE DeathInv'
  BY <1>5 DEF WorkerStep, WorkerPut, WorkerEnd, WorkerRaise
<1> QED BY <1>1, <1>2, <1>3, <1>4, <1>5 DEF Next

\* A handler that waits has an agent that runs, an item on its way, or an agent
\* that died.
LEMMA WaitingIsServed ==
  ASSUME IInv, NEW s \in Sessions, hpc[s] = "waiting", wpc[s] # "dead"
  PROVE  Served(s)
<1>1. SessionInv(s) /\ TypeOK
  BY DEF IInv
<1>2. CASE wpc[s] = "running"
  BY <1>2 DEF Served
<1>3. CASE wpc[s] = "done"
  <2>1. Len(queue[s]) = made[s] - Got(s) + 1 /\ Got(s) <= made[s]
    BY <1>1, <1>3 DEF SessionInv, Sentinel, Delivery
  <2>2. made[s] \in Nat /\ Len(sent[s]) \in Nat /\ queue[s] \in Seq(Nat)
    BY <1>1 DEF TypeOK
  <2>3. Got(s) \in Nat
    BY <1>1 DEF TypeOK, Got
  <2>4. Len(queue[s]) > 0
    BY <2>1, <2>2, <2>3
  <2> QED BY <2>2, <2>4 DEF Served
<1>4. wpc[s] # "none" /\ wpc[s] \in {"none", "running", "done", "dead"}
  BY <1>1 DEF SessionInv, Control, TypeOK
<1> QED BY <1>2, <1>3, <1>4

\* With more threads than agents that may raise, a waiting request is served, or
\* a thread is free for it, or one of those taken comes back.
THEOREM PoolProceeds == EnoughThreads => (Spec => []Proceeds)
<1>1. ASSUME EnoughThreads, IInv, DeathInv PROVE Proceeds
  <2> SUFFICES ASSUME NEW s \in Sessions, hpc[s] = "waiting", ~ Lost(s)
               PROVE  \/ s \in busy /\ Served(s)
                      \/ jobs # << >> /\ (Cardinality(busy) < PoolSize \/ \E t \in busy : Served(t))
    BY DEF Proceeds
  <2>1. PoolOwnership /\ busy \subseteq Sessions /\ jobs \in Seq(Sessions)
    BY <1>1 DEF IInv, TypeOK
  <2>2. CASE s \in busy
    <3>1. wpc[s] # "dead" => Served(s)
      BY <1>1, WaitingIsServed
    <3> QED BY <2>2, <3>1 DEF Lost, Served
  <2>3. CASE s \notin busy
    <3>1. jobs # << >>
      BY <2>1, <2>3 DEF PoolOwnership
    <3>2. CASE busy \subseteq MayRaise
      <4>1. Cardinality(busy) <= Cardinality(MayRaise)
        BY <1>1, <3>2, FS_Subset DEF EnoughThreads
      <4>2. Cardinality(busy) \in Nat /\ Cardinality(MayRaise) \in Nat
        BY <1>1, <2>1, FS_CardinalityType DEF EnoughThreads, PoolOwnership
      <4> QED BY <1>1, <3>1, <4>1, <4>2, PoolAssumption DEF EnoughThreads
    <3>3. CASE ~ (busy \subseteq MayRaise)
      <4>1. PICK t \in busy : t \notin MayRaise
        BY <3>3
      <4>2. t \in Sessions /\ hpc[t] = "waiting" /\ wpc[t] # "dead"
        BY <1>1, <2>1, <4>1 DEF PoolOwnership, DeathInv
      <4> QED BY <1>1, <3>1, <4>1, <4>2, WaitingIsServed
    <3> QED BY <3>2, <3>3
  <2> QED BY <2>2, <2>3
<1>2. Init => DeathInv
  BY DEF Init, DeathInv
<1>3. CASE EnoughThreads
  <2>1. IInv /\ DeathInv => Proceeds
    BY <1>1, <1>3
  <2> QED BY <1>2, <2>1, DeathStep, TypeCorrect, Invariance, PTL DEF Spec
<1> QED BY <1>3
=============================================================================
