------------------------- MODULE WorkerRuntimeProofs -------------------------
(***************************************************************************)
(* The threads of a worker and its data engine, for all messages the       *)
(* coordinator may send, any number of tensors and any arena: an arrival   *)
(* is seen whatever the order of the fetching thread and the getter, and   *)
(* the engine is drained when its backend goes.                            *)
(*                                                                         *)
(* A tensor is followed from its announcement, or the call that fetches    *)
(* it, through socket, queues and fetching thread to the getter: it is in  *)
(* one place at a time, so that the getter, which takes the tensor and     *)
(* then its event, never takes the event of another arrival.               *)
(***************************************************************************)
EXTENDS WorkerRuntime, Integers, SequenceTheorems, TLAPS

Getting == {"getEvent", "wait", "popTensor", "popEvent"}

InCall == {"putFree", "putFetch", "create"} \cup Getting

EngineTypeOK ==
    /\ engineRunning \in BOOLEAN /\ backendUp \in BOOLEAN
    /\ freeQueue \in Nat /\ fetchQueue \in Seq(Key)
    /\ received \subseteq Key /\ event \in [Key -> {"none", "clear", "set"}]
    /\ allocated \in Int /\ gil \in {"none", "fetching", "process"}
    /\ freeing \in {"check", "get", "free", "done"}
    /\ fetching \in {"check", "get", "fetch", "store", "signal", "done"}
    /\ fetching \in {"fetch", "store", "signal"} => fetched \in Key

\* A thread inside a call has one, and the main thread handles an arrival.
RuntimeTypeOK ==
    /\ unsent \in Seq(Message) /\ inbox \in Seq(Message) /\ handlers \in Seq(Key)
    /\ taskQueue \in Seq(Seq(Call)) /\ running \in BOOLEAN
    /\ main \in {"poll", "handle", "stop", "joinEngine", "cleanup", "joinProcess", "stopped"}
    /\ main = "handle" => handlers # <<>>
    /\ process \in {"check", "get", "task", "done", "dead"} \cup InCall
    /\ calls \in Seq(Call)
    /\ process \in InCall => calls # <<>>
    /\ process = "putFree" => Head(calls).op = "free"
    /\ process = "putFetch" => Head(calls).op = "fetch"

TypeOK == EngineTypeOK /\ RuntimeTypeOK

LEMMA CallFields ==
    ASSUME NEW s \in Seq(Call), s # <<>>
    PROVE  /\ Head(s) \in Call /\ Tail(s) \in Seq(Call)
           /\ Head(s).key \in Key /\ Head(s).op \in {"free", "fetch", "lazy", "create"}
  <1>1. Head(s) \in Call /\ Tail(s) \in Seq(Call)
    OBVIOUS
  <1> QED
    BY <1>1 DEF Call

LEMMA NextStep ==
    ASSUME calls \in Seq(Call), calls # <<>>, NextCall
    PROVE  \/ Head(calls).op = "free" /\ engineRunning /\ process' = "putFree"
           \/ Head(calls).op = "fetch" /\ engineRunning /\ process' = "putFetch"
           \/ Head(calls).op = "lazy" /\ process' = "getEvent"
           \/ Head(calls).op = "create" /\ backendUp /\ process' = "create"
           \/ ~(engineRunning /\ backendUp) /\ process' = "dead"
  <1>1. Head(calls).op \in {"free", "fetch", "lazy", "create"}
    BY CallFields
  <1>2. CASE Head(calls).op = "free"
    BY <1>2 DEF NextCall
  <1>3. CASE Head(calls).op = "fetch"
    BY <1>3 DEF NextCall
  <1>4. CASE Head(calls).op = "lazy"
    BY <1>4 DEF NextCall
  <1>5. CASE Head(calls).op = "create"
    BY <1>5 DEF NextCall
  <1> QED
    BY <1>1, <1>2, <1>3, <1>4, <1>5

LEMMA MessageFields ==
    ASSUME NEW m \in Message
    PROVE  /\ m.type \in {"task", "lazy_arrival", "stop"}
           /\ m.type = "task" => m.calls \in Seq(Call)
           /\ m.type = "lazy_arrival" => m.key \in Key
  BY DEF Message

LEMMA InitType ==
    ASSUME Init
    PROVE  TypeOK
  <1>1. unsent \in Seq(Message)
    BY WorkerRuntimeAssumption DEF Init
  <1> QED
    BY <1>1 DEF Init, EngineInit, TypeOK, EngineTypeOK, RuntimeTypeOK, InCall, Getting

LEMMA MainType ==
    ASSUME TypeOK, Deliver \/ MainThread
    PROVE  TypeOK'
  <1> USE DEF TypeOK, EngineTypeOK, RuntimeTypeOK, engineVars
  <1>1. CASE Deliver
    BY <1>1 DEF Deliver
  <1>2. CASE Receive
    <2> DEFINE m == Head(inbox)
    <2>1. inbox # <<>> /\ m \in Message /\ inbox' \in Seq(Message)
      BY <1>2 DEF Receive
    <2>2. /\ m.type = "task" => m.calls \in Seq(Call)
          /\ m.type = "lazy_arrival" => m.key \in Key
      BY <2>1, MessageFields
    <2>3. taskQueue' \in Seq(Seq(Call)) /\ handlers' \in Seq(Key) /\ main' \in {"poll", "stop"}
      <3>1. CASE m.type = "task" /\ taskQueue' = Append(taskQueue, m.calls) /\ UNCHANGED <<handlers, main>>
        BY <1>2, <2>2, <3>1 DEF Receive
      <3>2. CASE m.type = "lazy_arrival" /\ handlers' = Append(handlers, m.key) /\ UNCHANGED <<taskQueue, main>>
        BY <1>2, <2>2, <3>2 DEF Receive
      <3>3. CASE main' = "stop" /\ UNCHANGED <<taskQueue, handlers>>
        BY <3>3
      <3> QED
        BY <1>2, <3>1, <3>2, <3>3 DEF Receive
    <2> QED
      BY <1>2, <2>1, <2>3 DEF Receive
  <1>3. CASE Await
    BY <1>3 DEF Await
  <1>4. CASE HandleLazyArrival
    <2>1. handlers \in Seq(Key) /\ handlers # <<>>
      BY <1>4 DEF HandleLazyArrival
    <2>2. /\ Head(handlers) \in Key /\ Tail(handlers) \in Seq(Key)
          /\ Len(Tail(handlers)) = Len(handlers) - 1
      BY <2>1, HeadTailProperties
    <2>3. Len(handlers) # 1 => Tail(handlers) # <<>>
      <3>1. Len(handlers) \in Nat \ {0}
        BY <2>1, EmptySeq
      <3>2. ASSUME Tail(handlers) = <<>>
            PROVE  Len(Tail(handlers)) = 0
        BY <3>2, EmptySeq
      <3> QED
        BY <2>2, <3>1, <3>2
    <2>4. fetchQueue' \in Seq(Key) /\ handlers' \in Seq(Key) /\ (main' = "handle" => handlers' # <<>>)
      BY <1>4, <2>2, <2>3 DEF HandleLazyArrival
    <2> QED
      BY <1>4, <2>4 DEF HandleLazyArrival
  <1>5. CASE StopEngine \/ ReleaseBackend \/ Cleanup \/ FinishCleanup
    BY <1>5 DEF StopEngine, ReleaseBackend, Cleanup, FinishCleanup
  <1> QED
    BY <1>1, <1>2, <1>3, <1>4, <1>5 DEF MainThread

LEMMA ProcessType ==
    ASSUME TypeOK, ProcessThread
    PROVE  TypeOK'
  <1> USE DEF TypeOK, EngineTypeOK, RuntimeTypeOK, engineVars
  <1>1. CASE ProcessCheck
    BY <1>1 DEF ProcessCheck, InCall, Getting
  <1>2. CASE ProcessGet
    <2>1. Head(taskQueue) \in Seq(Call) /\ Tail(taskQueue) \in Seq(Seq(Call))
      BY <1>2 DEF ProcessGet
    <2> QED
      BY <1>2, <2>1 DEF ProcessGet, InCall, Getting
  <1>3. CASE NextCall
    <2>1. CASE calls = <<>>
      BY <1>3, <2>1 DEF NextCall, InCall, Getting
    <2>2. CASE calls # <<>>
      <3>1. /\ process' \in {"putFree", "putFetch", "getEvent", "create", "dead"}
            /\ process' = "putFree" => Head(calls).op = "free"
            /\ process' = "putFetch" => Head(calls).op = "fetch"
        BY <1>3, <2>2, NextStep
      <3>2. EngineTypeOK' /\ UNCHANGED <<unsent, inbox, handlers, taskQueue, running, main, calls>>
        BY <1>3 DEF NextCall
      <3> QED
        BY <2>2, <3>1, <3>2 DEF InCall, Getting
    <2> QED
      BY <2>1, <2>2
  <1>4. CASE PutFree
    BY <1>4, CallFields DEF PutFree, EndCall, InCall, Getting
  <1>5. CASE PutFetch
    <2>1. Key1 \in Key
      BY <1>5, CallFields DEF PutFetch, Key1, InCall
    <2> QED
      BY <1>5, <2>1 DEF PutFetch, InCall, Getting
  <1>6. CASE CreateTensor
    <2>1. CASE Allocate("process") /\ EndCall
      BY <1>6, <2>1, CallFields DEF CreateTensor, Allocate, AfterAllocation, EndCall, InCall, Getting
    <2>2. CASE WaitForRoom("process") /\ UNCHANGED <<process, calls, allocated>>
      BY <1>6, <2>2 DEF CreateTensor, WaitForRoom, InCall, Getting
    <2> QED
      BY <1>6, <2>1, <2>2 DEF CreateTensor
  <1>7. CASE GetEvent
    BY <1>7, CallFields DEF GetEvent, Key1, InCall, Getting
  <1>8. CASE WaitArrival
    BY <1>8 DEF WaitArrival, InCall, Getting
  <1>9. CASE PopTensor
    BY <1>9 DEF PopTensor, InCall, Getting
  <1>10. CASE PopEvent
    BY <1>10, CallFields DEF PopEvent, EventAfterGet, EndCall, Key1, InCall, Getting
  <1> QED
    BY <1>1, <1>2, <1>3, <1>4, <1>5, <1>6, <1>7, <1>8, <1>9, <1>10 DEF ProcessThread

LEMMA EngineType ==
    ASSUME TypeOK, EngineThread
    PROVE  TypeOK'
  <1> USE DEF TypeOK, EngineTypeOK
  <1>1. RuntimeTypeOK'
    BY DEF EngineThread, RuntimeTypeOK, runtimeVars
  <1>2. CASE FreeingThread
    BY <1>1, <1>2 DEF FreeingThread, FreeingCheck, FreeingGet, FreeTensor
  <1>3. CASE FetchingThread
    <2>1. CASE FetchingCheck \/ FetchingGet
      BY <1>1, <2>1 DEF FetchingCheck, FetchingGet
    <2>2. CASE FetchTensor
      BY <1>1, <2>2 DEF FetchTensor, Allocate, AfterAllocation, WaitForRoom
    <2>3. CASE ArriveStore \/ ArriveSignal
      BY <1>1, <2>3 DEF ArriveStore, StoreArrival, ArriveSignal, SignalArrival
    <2> QED
      BY <1>3, <2>1, <2>2, <2>3 DEF FetchingThread
  <1> QED
    BY <1>2, <1>3 DEF EngineThread

LEMMA StepType ==
    ASSUME TypeOK, [Next]_vars
    PROVE  TypeOK'
  <1>1. CASE UNCHANGED vars
    BY <1>1 DEF vars, engineVars, runtimeVars, TypeOK, EngineTypeOK, RuntimeTypeOK
  <1> QED
    BY <1>1, MainType, ProcessType, EngineType DEF Next

(***************************************************************************)
(* The threads of a worker stay within their steps, and each finds in its  *)
(* queue and its call what its next step takes.                            *)
(***************************************************************************)
THEOREM TypeCorrect == Spec => []TypeOK
  <1>1. Init => TypeOK
    BY InitType
  <1>2. TypeOK /\ [Next]_vars => TypeOK'
    BY StepType
  <1> QED
    BY <1>1, <1>2, PTL DEF Spec

-----------------------------------------------------------------------------
(* Where a tensor is on its way to the getter *)

Place == {"unsent", "inbox", "handlers", "queue", "thread", "received", "getter"}

\* The announcement or fetch of k, or k itself, is the i-th in the place l.
Holds(l, i, k) ==
    \/ l = "unsent" /\ i \in DOMAIN unsent /\ Announces(unsent[i], k)
    \/ l = "inbox" /\ i \in DOMAIN inbox /\ Announces(inbox[i], k)
    \/ l = "handlers" /\ i \in DOMAIN handlers /\ handlers[i] = k
    \/ l = "queue" /\ i \in DOMAIN fetchQueue /\ fetchQueue[i] = k
    \/ l = "thread" /\ i = 1 /\ fetching \in {"fetch", "store"} /\ fetched = k
    \/ l = "received" /\ i = 1 /\ k \in received
    \/ l = "getter" /\ i = 1 /\ process = "popEvent" /\ Key1 = k

Alone(k) ==
    \A l, m \in Place : \A i, j \in Nat : Holds(l, i, k) /\ Holds(m, j, k) => l = m /\ i = j

OnePlace == \A k \in Key : Alone(k)

Makes(s, C) == \E i \in DOMAIN s : s[i] \in C

\* One of the calls C is still to be made.
ToMake(C) ==
    \/ \E i \in DOMAIN unsent : unsent[i].type = "task" /\ Makes(unsent[i].calls, C)
    \/ \E i \in DOMAIN inbox : inbox[i].type = "task" /\ Makes(inbox[i].calls, C)
    \/ \E i \in DOMAIN taskQueue : Makes(taskQueue[i], C)
    \/ IF process \in {"task", "putFree", "putFetch"} THEN Makes(calls, C)
       ELSE calls # <<>> /\ Makes(Tail(calls), C)

ToFetch(k) == ToMake({ c \in Call : c.op = "fetch" /\ c.key = k })

\* The process thread waits for the fetch of k it has submitted.
Fetching(k) == process \in Getting /\ Key1 = k /\ Head(calls).op = "fetch"

\* A tensor to be fetched is not on its way, unless an earlier fetch is.
FetchesFollow ==
    \A k \in Key : ToFetch(k) => Fetching(k) \/ \A l \in Place : \A i \in Nat : ~Holds(l, i, k)

\* The events between the two steps of arrive, and of get.
EventsRight ==
    /\ \A k \in received : event[k] = "set" \/ (fetching = "signal" /\ fetched = k)
    /\ \A k \in Key : event[k] = "set" => k \in received \/ (process = "popEvent" /\ Key1 = k)
    /\ fetching = "signal" => fetched \in received /\ event[fetched] # "set"
    /\ process = "popTensor" => Key1 \in received /\ event[Key1] = "set"
    /\ engineRunning => process # "dead"

\* The engine runs until the main thread has stopped it.
EngineFollows ==
    /\ engineRunning <=> main \in {"poll", "handle", "stop"}
    /\ ~backendUp => main \in {"cleanup", "joinProcess", "stopped"}

ArrivalInv == OnePlace /\ FetchesFollow /\ EventsRight /\ EngineFollows

-----------------------------------------------------------------------------
(* How tensors move *)

\* What is not the head of the place a stays behind it; what is becomes the
\* last of the place b, which had n.
PlaceBefore(l, i, a, b, n) == IF l = b /\ i = n + 1 THEN a ELSE l

IndexBefore(l, i, a, b, n) ==
    IF l = a THEN i + 1 ELSE IF l = b /\ i = n + 1 THEN 1 ELSE i

MovesHead(k, a, b, n) ==
    \A l \in Place : \A i \in Nat : Holds(l, i, k)' =>
        i > 0 /\ Holds(PlaceBefore(l, i, a, b, n), IndexBefore(l, i, a, b, n), k)

Stays(k) == \A l \in Place : \A i \in Nat : Holds(l, i, k)' => Holds(l, i, k)

Moves(k) == \E a, b \in Place : \E n \in Nat : a # b /\ MovesHead(k, a, b, n)

LEMMA MovedAlone ==
    ASSUME NEW k, Alone(k), Moves(k) \/ Stays(k)
    PROVE  Alone(k)'
  <1>1. CASE Stays(k)
    BY <1>1 DEF Stays, Alone
  <1>2. CASE Moves(k)
    <2>1. PICK a \in Place : \E b \in Place : \E n \in Nat : a # b /\ MovesHead(k, a, b, n)
      BY <1>2 DEF Moves
    <2>2. PICK b \in Place : \E n \in Nat : a # b /\ MovesHead(k, a, b, n)
      BY <2>1
    <2>3. PICK n \in Nat : a # b /\ MovesHead(k, a, b, n)
      BY <2>2
    <2> SUFFICES ASSUME NEW l \in Place, NEW m \in Place, NEW i \in Nat, NEW j \in Nat,
                        Holds(l, i, k)', Holds(m, j, k)'
                 PROVE  l = m /\ i = j
      BY DEF Alone
    <2> DEFINE P(p, x) == PlaceBefore(p, x, a, b, n)
               I(p, x) == IndexBefore(p, x, a, b, n)
    <2>4. i > 0 /\ j > 0 /\ Holds(P(l, i), I(l, i), k) /\ Holds(P(m, j), I(m, j), k)
      BY <2>3 DEF MovesHead
    <2>5. /\ P(l, i) \in Place /\ P(m, j) \in Place /\ I(l, i) \in Nat /\ I(m, j) \in Nat
      BY DEF PlaceBefore, IndexBefore
    <2>6. P(l, i) = P(m, j) /\ I(l, i) = I(m, j)
      BY <2>4, <2>5 DEF Alone
    <2> QED
      BY <2>3, <2>4, <2>6 DEF PlaceBefore, IndexBefore
  <1> QED
    BY <1>1, <1>2

\* What is held after a step was held before it.
LEMMA HeldBefore ==
    ASSUME NEW k, Moves(k) \/ Stays(k), NEW l \in Place, NEW i \in Nat, Holds(l, i, k)'
    PROVE  \E m \in Place : \E j \in Nat : Holds(m, j, k)
  <1>1. CASE Stays(k)
    BY <1>1 DEF Stays
  <1>2. CASE Moves(k)
    <2>1. PICK a \in Place : \E b \in Place : \E n \in Nat : a # b /\ MovesHead(k, a, b, n)
      BY <1>2 DEF Moves
    <2>2. PICK b \in Place : \E n \in Nat : a # b /\ MovesHead(k, a, b, n)
      BY <2>1
    <2>3. PICK n \in Nat : a # b /\ MovesHead(k, a, b, n)
      BY <2>2
    <2>4. /\ Holds(PlaceBefore(l, i, a, b, n), IndexBefore(l, i, a, b, n), k)
          /\ PlaceBefore(l, i, a, b, n) \in Place /\ IndexBefore(l, i, a, b, n) \in Nat
      BY <2>3 DEF MovesHead, PlaceBefore, IndexBefore
    <2> QED
      BY <2>4
  <1> QED
    BY <1>1, <1>2

\* The elements of the tail of a sequence, and of one that got a new last element.
LEMMA TailIndex ==
    ASSUME NEW S, NEW s \in Seq(S), s # <<>>
    PROVE  /\ 1 \in DOMAIN s /\ Head(s) = s[1] /\ Head(s) \in S
           /\ Tail(s) \in Seq(S)
           /\ \A i \in DOMAIN Tail(s) : /\ i \in Nat /\ i > 0 /\ i + 1 \in DOMAIN s
                                        /\ Tail(s)[i] = s[i + 1]
  <1>1. Len(s) \in Nat \ {0} /\ DOMAIN s = 1 .. Len(s)
    BY EmptySeq, LenProperties
  <1>2. /\ Tail(s) \in Seq(S) /\ Len(Tail(s)) = Len(s) - 1 /\ Head(s) \in S
        /\ \A i \in 1 .. Len(Tail(s)) : Tail(s)[i] = s[i + 1]
    BY HeadTailProperties
  <1>3. DOMAIN Tail(s) = 1 .. Len(Tail(s))
    BY <1>2, LenProperties
  <1> QED
    BY <1>1, <1>2, <1>3

LEMMA AppendIndex ==
    ASSUME NEW S, NEW s \in Seq(S), NEW e \in S
    PROVE  /\ Len(s) \in Nat /\ Append(s, e) \in Seq(S)
           /\ \A i \in DOMAIN Append(s, e) :
                /\ i \in Nat /\ i > 0
                /\ i = Len(s) + 1 => Append(s, e)[i] = e
                /\ i # Len(s) + 1 => i \in DOMAIN s /\ Append(s, e)[i] = s[i]
  <1>1. Len(s) \in Nat /\ DOMAIN s = 1 .. Len(s)
    BY LenProperties
  <1>2. /\ Append(s, e) \in Seq(S) /\ Len(Append(s, e)) = Len(s) + 1
        /\ \A i \in 1 .. Len(s) : Append(s, e)[i] = s[i]
        /\ Append(s, e)[Len(s) + 1] = e
    BY AppendProperties
  <1>3. DOMAIN Append(s, e) = 1 .. Len(Append(s, e))
    BY <1>2, LenProperties
  <1> QED
    BY <1>1, <1>2, <1>3

LEMMA Indices ==
    ASSUME TypeOK, NEW k, NEW l, NEW i, Holds(l, i, k)
    PROVE  i \in Nat /\ i > 0
  <1>1. /\ DOMAIN unsent = 1 .. Len(unsent) /\ DOMAIN inbox = 1 .. Len(inbox)
        /\ DOMAIN handlers = 1 .. Len(handlers) /\ DOMAIN fetchQueue = 1 .. Len(fetchQueue)
    BY LenProperties DEF TypeOK, EngineTypeOK, RuntimeTypeOK
  <1> QED
    BY <1>1 DEF Holds

LEMMA IndicesAfter ==
    ASSUME TypeOK', NEW k, NEW l, NEW i, Holds(l, i, k)'
    PROVE  i \in Nat /\ i > 0
  <1>1. /\ DOMAIN unsent' = 1 .. Len(unsent') /\ DOMAIN inbox' = 1 .. Len(inbox')
        /\ DOMAIN handlers' = 1 .. Len(handlers') /\ DOMAIN fetchQueue' = 1 .. Len(fetchQueue')
    BY LenProperties DEF TypeOK, EngineTypeOK, RuntimeTypeOK
  <1> QED
    BY <1>1 DEF Holds

\* The process thread puts no tensor on its way but by a fetch.
LEMMA ProcessMoves ==
    ASSUME TypeOK, ProcessThread, NEW k \in Key, ~(PutFetch /\ k = Key1)
    PROVE  Moves(k) \/ Stays(k)
  <1> USE DEF engineVars
  <1>1. CASE ProcessCheck \/ ProcessGet \/ PutFree \/ CreateTensor \/ GetEvent \/ WaitArrival
    BY <1>1 DEF Stays, Holds, ProcessCheck, ProcessGet, PutFree, CreateTensor, GetEvent,
         WaitArrival, EndCall
  <1>2. CASE NextCall
    <2>1. process' # "popEvent"
      <3>1. CASE calls = <<>>
        BY <1>2, <3>1 DEF NextCall
      <3>2. CASE calls # <<>>
        BY <1>2, <3>2, NextStep DEF TypeOK, RuntimeTypeOK
      <3> QED
        BY <3>1, <3>2
    <2> QED
      BY <1>2, <2>1 DEF Stays, Holds, NextCall
  <1>3. CASE PutFetch
    <2>1. fetchQueue \in Seq(Key) /\ Key1 \in Key
      BY <1>3, CallFields DEF PutFetch, TypeOK, EngineTypeOK, RuntimeTypeOK, InCall, Key1
    <2>2. /\ fetchQueue' = Append(fetchQueue, Key1) /\ k # Key1 /\ process' = "getEvent"
          /\ UNCHANGED <<unsent, inbox, handlers, received, fetching, fetched>>
      BY <1>3 DEF PutFetch
    <2>3. ASSUME NEW i \in DOMAIN fetchQueue', fetchQueue'[i] = k
          PROVE  i \in DOMAIN fetchQueue /\ fetchQueue[i] = k
      BY <2>1, <2>2, <2>3, AppendIndex
    <2> QED
      BY <2>2, <2>3 DEF Stays, Holds
  <1>4. CASE PopTensor
    <2>1. /\ process = "popTensor" /\ received' = received \ {Key1} /\ Key1' = Key1
          /\ process' = IF Key1 \in received THEN "popEvent" ELSE "dead"
          /\ UNCHANGED <<unsent, inbox, handlers, fetchQueue, fetching, fetched>>
      BY <1>4 DEF PopTensor, Key1
    <2>2. CASE k = Key1 /\ k \in received
      <3>1. MovesHead(k, "received", "getter", 0)
        <4> SUFFICES ASSUME NEW l \in Place, NEW i \in Nat, Holds(l, i, k)'
                     PROVE  i > 0 /\ Holds(PlaceBefore(l, i, "received", "getter", 0),
                                           IndexBefore(l, i, "received", "getter", 0), k)
          BY DEF MovesHead
        <4>1. CASE l \in {"received", "getter"}
          BY <2>1, <2>2, <4>1 DEF Holds, PlaceBefore, IndexBefore
        <4>2. CASE l \notin {"received", "getter"}
          <5>1. Holds(l, i, k)
            BY <2>1, <4>2 DEF Holds
          <5> QED
            BY <4>2, <5>1, Indices DEF PlaceBefore, IndexBefore
        <4> QED
          BY <4>1, <4>2
      <3> QED
        BY <3>1 DEF Moves, Place
    <2>3. CASE ~(k = Key1 /\ k \in received)
      BY <2>1, <2>3 DEF Stays, Holds
    <2> QED
      BY <2>2, <2>3
  <1>5. CASE PopEvent
    BY <1>5 DEF Stays, Holds, PopEvent, EndCall
  <1> QED
    BY <1>1, <1>2, <1>3, <1>4, <1>5 DEF ProcessThread

LEMMA MainMoves ==
    ASSUME TypeOK, Deliver \/ MainThread, NEW k \in Key
    PROVE  Moves(k) \/ Stays(k)
  <1> USE DEF engineVars
  <1>0. ASSUME NEW l, NEW i, Holds(l, i, k)'
        PROVE  i > 0
    BY <1>0, MainType, IndicesAfter
  <1>1. CASE Deliver
    <2>1. /\ unsent \in Seq(Message) /\ unsent # <<>> /\ inbox \in Seq(Message)
          /\ Head(unsent) \in Message
      BY <1>1, TailIndex DEF Deliver, TypeOK, RuntimeTypeOK
    <2>2. /\ inbox' = Append(inbox, Head(unsent)) /\ unsent' = Tail(unsent)
          /\ Key1' = Key1
          /\ UNCHANGED <<handlers, fetchQueue, received, fetching, fetched, process>>
      BY <1>1 DEF Deliver, Key1
    <2>3. MovesHead(k, "unsent", "inbox", Len(inbox))
      <3> SUFFICES ASSUME NEW l \in Place, NEW i \in Nat, Holds(l, i, k)'
                   PROVE  Holds(PlaceBefore(l, i, "unsent", "inbox", Len(inbox)),
                                IndexBefore(l, i, "unsent", "inbox", Len(inbox)), k)
        BY <1>0 DEF MovesHead
      <3>1. CASE l = "unsent"
        BY <2>1, <2>2, <3>1, TailIndex DEF Holds, PlaceBefore, IndexBefore
      <3>2. CASE l = "inbox"
        BY <2>1, <2>2, <3>2, TailIndex, AppendIndex DEF Holds, PlaceBefore, IndexBefore
      <3>3. CASE l \notin {"unsent", "inbox"}
        BY <2>2, <3>3 DEF Holds, PlaceBefore, IndexBefore
      <3> QED
        BY <3>1, <3>2, <3>3
    <2>4. Len(inbox) \in Nat
      BY <2>1, LenProperties
    <2> QED
      BY <2>3, <2>4 DEF Moves, Place
  <1>2. CASE Receive
    <2> DEFINE m == Head(inbox)
    <2>1. inbox \in Seq(Message) /\ inbox # <<>> /\ handlers \in Seq(Key) /\ m \in Message
      BY <1>2, TailIndex DEF Receive, TypeOK, RuntimeTypeOK
    <2>2. /\ inbox' = Tail(inbox) /\ Key1' = Key1
          /\ UNCHANGED <<unsent, fetchQueue, received, fetching, fetched, process>>
      BY <1>2 DEF Receive, Key1
    <2>3. \/ handlers' = handlers
          \/ m.type = "lazy_arrival" /\ m.key \in Key /\ handlers' = Append(handlers, m.key)
      BY <1>2, <2>1, MessageFields DEF Receive
    <2>4. MovesHead(k, "inbox", "handlers", Len(handlers))
      <3> SUFFICES ASSUME NEW l \in Place, NEW i \in Nat, Holds(l, i, k)'
                   PROVE  Holds(PlaceBefore(l, i, "inbox", "handlers", Len(handlers)),
                                IndexBefore(l, i, "inbox", "handlers", Len(handlers)), k)
        BY <1>0 DEF MovesHead
      <3>1. CASE l = "inbox"
        BY <2>1, <2>2, <3>1, TailIndex DEF Holds, PlaceBefore, IndexBefore
      <3>2. CASE l = "handlers" /\ handlers' = handlers
        <4>1. i # Len(handlers) + 1
          BY <2>1, <3>2, LenProperties DEF Holds
        <4> QED
          BY <3>2, <4>1 DEF Holds, PlaceBefore, IndexBefore
      <3>3. CASE /\ l = "handlers" /\ m.type = "lazy_arrival" /\ m.key \in Key
                 /\ handlers' = Append(handlers, m.key)
        BY <2>1, <3>3, TailIndex, AppendIndex DEF Holds, PlaceBefore, IndexBefore, Announces
      <3>4. CASE l \notin {"inbox", "handlers"}
        BY <2>2, <3>4 DEF Holds, PlaceBefore, IndexBefore
      <3> QED
        BY <2>3, <3>1, <3>2, <3>3, <3>4
    <2>5. Len(handlers) \in Nat
      BY <2>1, LenProperties
    <2> QED
      BY <2>4, <2>5 DEF Moves, Place
  <1>3. CASE HandleLazyArrival
    <2>1. fetchQueue \in Seq(Key) /\ handlers \in Seq(Key) /\ handlers # <<>> /\ Head(handlers) \in Key
      BY <1>3, TailIndex DEF HandleLazyArrival, TypeOK, RuntimeTypeOK, EngineTypeOK
    <2>2. /\ fetchQueue' = Append(fetchQueue, Head(handlers)) /\ handlers' = Tail(handlers)
          /\ Key1' = Key1
          /\ UNCHANGED <<unsent, inbox, received, fetching, fetched, process>>
      BY <1>3 DEF HandleLazyArrival, Key1
    <2>3. MovesHead(k, "handlers", "queue", Len(fetchQueue))
      <3> SUFFICES ASSUME NEW l \in Place, NEW i \in Nat, Holds(l, i, k)'
                   PROVE  Holds(PlaceBefore(l, i, "handlers", "queue", Len(fetchQueue)),
                                IndexBefore(l, i, "handlers", "queue", Len(fetchQueue)), k)
        BY <1>0 DEF MovesHead
      <3>1. CASE l = "handlers"
        BY <2>1, <2>2, <3>1, TailIndex DEF Holds, PlaceBefore, IndexBefore
      <3>2. CASE l = "queue"
        BY <2>1, <2>2, <3>2, TailIndex, AppendIndex DEF Holds, PlaceBefore, IndexBefore
      <3>3. CASE l \notin {"handlers", "queue"}
        BY <2>2, <3>3 DEF Holds, PlaceBefore, IndexBefore
      <3> QED
        BY <3>1, <3>2, <3>3
    <2>4. Len(fetchQueue) \in Nat
      BY <2>1, LenProperties
    <2> QED
      BY <2>3, <2>4 DEF Moves, Place
  <1>4. CASE Await \/ StopEngine \/ ReleaseBackend \/ Cleanup \/ FinishCleanup
    BY <1>4 DEF Stays, Holds, Key1, Await, StopEngine, ReleaseBackend, Cleanup, FinishCleanup
  <1> QED
    BY <1>1, <1>2, <1>3, <1>4 DEF MainThread

LEMMA EngineMoves ==
    ASSUME TypeOK, EngineThread, NEW k \in Key
    PROVE  Moves(k) \/ Stays(k)
  <1>1. Key1' = Key1 /\ UNCHANGED <<unsent, inbox, handlers, process>>
    BY DEF EngineThread, runtimeVars, Key1
  <1>2. CASE FreeingThread \/ FetchingCheck \/ FetchTensor \/ ArriveSignal
    BY <1>1, <1>2 DEF Stays, Holds, FreeingThread, FreeingCheck, FreeingGet, FreeTensor,
         FetchingCheck, FetchTensor, ArriveSignal, SignalArrival
  <1>3. CASE FetchingGet
    <2>1. CASE fetchQueue = <<>>
      BY <1>1, <1>3, <2>1 DEF Stays, Holds, FetchingGet
    <2>2. CASE fetchQueue # <<>>
      <3>1. /\ fetchQueue \in Seq(Key) /\ fetching = "get" /\ fetching' = "fetch"
            /\ fetched' = Head(fetchQueue) /\ fetchQueue' = Tail(fetchQueue)
            /\ UNCHANGED received
        BY <1>3, <2>2 DEF FetchingGet, TypeOK, EngineTypeOK
      <3>2. MovesHead(k, "queue", "thread", 0)
        <4> SUFFICES ASSUME NEW l \in Place, NEW i \in Nat, Holds(l, i, k)'
                     PROVE  i > 0 /\ Holds(PlaceBefore(l, i, "queue", "thread", 0),
                                           IndexBefore(l, i, "queue", "thread", 0), k)
          BY DEF MovesHead
        <4>1. CASE l = "queue"
          BY <2>2, <3>1, <4>1, TailIndex DEF Holds, PlaceBefore, IndexBefore
        <4>2. CASE l = "thread"
          BY <2>2, <3>1, <4>2, TailIndex DEF Holds, PlaceBefore, IndexBefore
        <4>3. CASE l \notin {"queue", "thread"}
          <5>1. Holds(l, i, k)
            BY <1>1, <3>1, <4>3 DEF Holds
          <5> QED
            BY <4>3, <5>1, Indices DEF PlaceBefore, IndexBefore
        <4> QED
          BY <4>1, <4>2, <4>3
      <3> QED
        BY <3>2 DEF Moves, Place
    <2> QED
      BY <2>1, <2>2
  <1>4. CASE ArriveStore
    <2>1. /\ fetching = "store" /\ received' = received \cup {fetched} /\ fetching' = "signal"
          /\ UNCHANGED <<fetchQueue, fetched>>
      BY <1>4 DEF ArriveStore, StoreArrival
    <2>2. CASE k = fetched
      <3>1. MovesHead(k, "thread", "received", 0)
        <4> SUFFICES ASSUME NEW l \in Place, NEW i \in Nat, Holds(l, i, k)'
                     PROVE  i > 0 /\ Holds(PlaceBefore(l, i, "thread", "received", 0),
                                           IndexBefore(l, i, "thread", "received", 0), k)
          BY DEF MovesHead
        <4>1. CASE l \in {"thread", "received"}
          BY <2>1, <2>2, <4>1 DEF Holds, PlaceBefore, IndexBefore
        <4>2. CASE l \notin {"thread", "received"}
          <5>1. Holds(l, i, k)
            BY <1>1, <2>1, <4>2 DEF Holds
          <5> QED
            BY <4>2, <5>1, Indices DEF PlaceBefore, IndexBefore
        <4> QED
          BY <4>1, <4>2
      <3> QED
        BY <3>1 DEF Moves, Place
    <2>3. CASE k # fetched
      BY <1>1, <2>1, <2>3 DEF Stays, Holds
    <2> QED
      BY <2>2, <2>3
  <1> QED
    BY <1>2, <1>3, <1>4 DEF EngineThread, FetchingThread

LEMMA StepMoves ==
    ASSUME TypeOK, [Next]_vars, NEW k \in Key, ~(PutFetch /\ k = Key1)
    PROVE  Moves(k) \/ Stays(k)
  <1>1. CASE UNCHANGED vars
    BY <1>1 DEF Stays, Holds, Key1, vars, engineVars, runtimeVars
  <1> QED
    BY <1>1, ProcessMoves, MainMoves, EngineMoves DEF Next

-----------------------------------------------------------------------------
(* The invariant of arrivals *)

LEMMA MakesTail ==
    ASSUME NEW s \in Seq(Call), s # <<>>, NEW C, Makes(Tail(s), C)
    PROVE  Makes(s, C)
  BY TailIndex DEF Makes

\* No step brings a new call.
LEMMA CallsDiminish ==
    ASSUME TypeOK, [Next]_vars, NEW C, ToMake(C)'
    PROVE  ToMake(C)
  <1> DEFINE Sent(s) == \E i \in DOMAIN s : s[i].type = "task" /\ Makes(s[i].calls, C)
             Queued(s) == \E i \in DOMAIN s : Makes(s[i], C)
             Doing(p, c) == IF p \in {"task", "putFree", "putFetch"} THEN Makes(c, C)
                            ELSE c # <<>> /\ Makes(Tail(c), C)
  <1>1. /\ ToMake(C) <=> Sent(unsent) \/ Sent(inbox) \/ Queued(taskQueue) \/ Doing(process, calls)
        /\ ToMake(C)' <=> \/ Sent(unsent') \/ Sent(inbox') \/ Queued(taskQueue')
                           \/ Doing(process', calls')
    BY DEF ToMake, Makes
  <1>2. /\ unsent \in Seq(Message) /\ inbox \in Seq(Message) /\ taskQueue \in Seq(Seq(Call))
        /\ calls \in Seq(Call)
    BY DEF TypeOK, RuntimeTypeOK
  <1> HIDE DEF Doing
  <1>3. CASE UNCHANGED <<unsent, inbox, taskQueue, process, calls>>
    BY <1>1, <1>3
  <1>4. CASE Deliver
    <2>1. /\ unsent # <<>> /\ inbox' = Append(inbox, Head(unsent)) /\ unsent' = Tail(unsent)
          /\ UNCHANGED <<taskQueue, process, calls>>
      BY <1>4 DEF Deliver
    <2>2. Sent(unsent') => Sent(unsent)
      BY <1>2, <2>1, TailIndex
    <2>3. Sent(inbox') => Sent(inbox) \/ Sent(unsent)
      <3>1. Head(unsent) \in Message /\ 1 \in DOMAIN unsent /\ Head(unsent) = unsent[1]
        BY <1>2, <2>1, TailIndex
      <3>2. \A i \in DOMAIN inbox' : inbox'[i] = unsent[1] \/ (i \in DOMAIN inbox /\ inbox'[i] = inbox[i])
        BY <1>2, <2>1, <3>1, AppendIndex
      <3> QED
        BY <3>1, <3>2
    <2> QED
      BY <1>1, <2>1, <2>2, <2>3
  <1>5. CASE Receive
    <2> DEFINE m == Head(inbox)
    <2>1. /\ inbox # <<>> /\ inbox' = Tail(inbox) /\ UNCHANGED <<unsent, process, calls>>
          /\ \/ m.type = "task" /\ taskQueue' = Append(taskQueue, m.calls)
             \/ taskQueue' = taskQueue
      BY <1>5 DEF Receive
    <2>2. Sent(inbox') => Sent(inbox)
      BY <1>2, <2>1, TailIndex
    <2>3. Queued(taskQueue') => Queued(taskQueue) \/ Sent(inbox)
      <3>1. m \in Message /\ 1 \in DOMAIN inbox /\ m = inbox[1]
        BY <1>2, <2>1, TailIndex
      <3>2. CASE m.type = "task" /\ taskQueue' = Append(taskQueue, m.calls)
        <4>1. m.calls \in Seq(Call)
          BY <3>1, <3>2, MessageFields
        <4>2. \A i \in DOMAIN taskQueue' :
                taskQueue'[i] = m.calls \/ (i \in DOMAIN taskQueue /\ taskQueue'[i] = taskQueue[i])
          BY <1>2, <3>2, <4>1, AppendIndex
        <4> QED
          BY <3>1, <3>2, <4>2
      <3> QED
        BY <2>1, <3>2
    <2> QED
      BY <1>1, <2>1, <2>2, <2>3
  <1>6. CASE ProcessGet
    <2>1. /\ taskQueue # <<>> /\ calls' = Head(taskQueue) /\ taskQueue' = Tail(taskQueue)
          /\ process' = "task" /\ UNCHANGED <<unsent, inbox>>
      BY <1>6 DEF ProcessGet
    <2>2. Queued(taskQueue') => Queued(taskQueue)
      BY <1>2, <2>1, TailIndex
    <2>3. Doing(process', calls') => Queued(taskQueue)
      BY <1>2, <2>1, TailIndex DEF Doing
    <2> QED
      BY <1>1, <2>1, <2>2, <2>3
  <1>7. CASE ProcessCheck
    BY <1>1, <1>7 DEF ProcessCheck, Doing
  <1>8. CASE NextCall
    <2>1. process = "task" /\ UNCHANGED <<unsent, inbox, taskQueue, calls>>
      BY <1>8 DEF NextCall
    <2> QED
      BY <1>1, <1>2, <2>1, MakesTail DEF Doing
  <1>9. CASE PutFetch
    <2>1. /\ process = "putFetch" /\ process' = "getEvent" /\ calls # <<>>
          /\ UNCHANGED <<unsent, inbox, taskQueue, calls>>
      BY <1>9 DEF PutFetch, TypeOK, RuntimeTypeOK, InCall
    <2> QED
      BY <1>1, <1>2, <2>1, MakesTail DEF Doing
  <1>10. CASE PutFree \/ PopEvent \/ (CreateTensor /\ EndCall)
    <2>1. /\ process \in {"putFree", "popEvent", "create"} /\ calls # <<>>
          /\ process' = "task" /\ calls' = Tail(calls) /\ UNCHANGED <<unsent, inbox, taskQueue>>
      BY <1>10 DEF PutFree, PopEvent, CreateTensor, EndCall, TypeOK, RuntimeTypeOK, InCall, Getting
    <2> QED
      BY <1>1, <1>2, <2>1, MakesTail DEF Doing
  <1>11. CASE GetEvent \/ WaitArrival \/ PopTensor
    <2>1. /\ process \notin {"task", "putFree", "putFetch"} /\ process' \notin {"task", "putFree", "putFetch"}
          /\ UNCHANGED <<unsent, inbox, taskQueue, calls>>
      BY <1>11 DEF GetEvent, WaitArrival, PopTensor
    <2> QED
      BY <1>1, <2>1 DEF Doing
  <1>12. CASE \/ Await \/ HandleLazyArrival \/ StopEngine \/ ReleaseBackend \/ Cleanup
              \/ FinishCleanup \/ EngineThread \/ UNCHANGED vars
              \/ CreateTensor /\ UNCHANGED <<process, calls, allocated>>
    BY <1>3, <1>12 DEF Await, HandleLazyArrival, StopEngine, ReleaseBackend, Cleanup, FinishCleanup,
         EngineThread, CreateTensor, vars, runtimeVars
  <1>13. CreateTensor => EndCall \/ UNCHANGED <<process, calls, allocated>>
    BY DEF CreateTensor
  <1> QED
    BY <1>4, <1>5, <1>6, <1>7, <1>8, <1>9, <1>10, <1>11, <1>12, <1>13
       DEF Next, MainThread, ProcessThread

LEMMA NoFetchYet ==
    ASSUME TypeOK, FetchesFollow, PutFetch, NEW l \in Place, NEW i \in Nat
    PROVE  ~Holds(l, i, Key1)
  <1>1. calls \in Seq(Call) /\ calls # <<>> /\ Head(calls).op = "fetch" /\ process = "putFetch"
    BY DEF PutFetch, TypeOK, RuntimeTypeOK, InCall
  <1>2. Key1 \in Key /\ Makes(calls, { c \in Call : c.op = "fetch" /\ c.key = Key1 })
    BY <1>1, CallFields, TailIndex DEF Makes, Key1
  <1>3. ToFetch(Key1) /\ ~Fetching(Key1)
    BY <1>1, <1>2 DEF ToFetch, ToMake, Fetching, Getting
  <1> QED
    BY <1>2, <1>3 DEF FetchesFollow

LEMMA StepOnePlace ==
    ASSUME TypeOK, OnePlace, FetchesFollow, [Next]_vars
    PROVE  OnePlace'
  <1> SUFFICES ASSUME NEW k \in Key
               PROVE  Alone(k)'
    BY DEF OnePlace
  <1>1. CASE ~(PutFetch /\ k = Key1)
    BY <1>1, StepMoves, MovedAlone DEF OnePlace
  <1>2. CASE PutFetch /\ k = Key1
    <2>1. fetchQueue \in Seq(Key)
      BY DEF TypeOK, EngineTypeOK
    <2>2. /\ fetchQueue' = Append(fetchQueue, k) /\ process' = "getEvent"
          /\ UNCHANGED <<unsent, inbox, handlers, received, fetching, fetched>>
      BY <1>2 DEF PutFetch
    <2>3. \A l \in Place : \A i \in Nat : ~Holds(l, i, k)
      BY <1>2, NoFetchYet
    <2>4. ASSUME NEW l \in Place, NEW i \in Nat, Holds(l, i, k)'
          PROVE  l = "queue" /\ i = Len(fetchQueue) + 1
      <3>1. CASE l = "queue"
        BY <2>1, <2>2, <2>3, <2>4, <3>1, AppendIndex DEF Holds
      <3>2. CASE l # "queue"
        BY <2>2, <2>3, <2>4, <3>2 DEF Holds
      <3> QED
        BY <3>1, <3>2
    <2> QED
      BY <2>4 DEF Alone
  <1> QED
    BY <1>1, <1>2

\* A fetch that is waited for ends when its tensor is taken.
LEMMA FetchingKept ==
    ASSUME TypeOK, OnePlace, EventsRight, [Next]_vars, NEW k \in Key, Fetching(k), Stays(k) \/ Moves(k),
           NEW l \in Place, NEW i \in Nat, Holds(l, i, k)'
    PROVE  Fetching(k)'
  <1>1. process \in Getting /\ Key1 = k /\ Head(calls).op = "fetch"
    BY DEF Fetching
  <1>2. CASE process' \in Getting /\ calls' = calls
    BY <1>1, <1>2 DEF Fetching, Key1
  <1>3. CASE GetEvent \/ WaitArrival
    BY <1>2, <1>3 DEF GetEvent, WaitArrival, Getting
  <1>4. CASE PopTensor
    <2>1. Key1 \in received
      BY <1>4 DEF PopTensor, EventsRight
    <2> QED
      BY <1>2, <1>4, <2>1 DEF PopTensor, Getting
  <1>5. CASE PopEvent
    <2>1. /\ process = "popEvent" /\ process' = "task" /\ "getter" \in Place /\ 1 \in Nat
          /\ UNCHANGED <<unsent, inbox, handlers, fetchQueue, received, fetching, fetched>>
      BY <1>5 DEF PopEvent, EndCall, Place
    <2>2. Holds("getter", 1, k)
      BY <1>1, <2>1 DEF Holds
    <2>3. Holds(l, i, k) /\ l # "getter"
      BY <2>1 DEF Holds
    <2> QED
      BY <2>1, <2>2, <2>3 DEF OnePlace, Alone
  <1>6. CASE \/ ProcessCheck \/ ProcessGet \/ NextCall \/ PutFree \/ PutFetch \/ CreateTensor
    BY <1>1, <1>6 DEF ProcessCheck, ProcessGet, NextCall, PutFree, PutFetch, CreateTensor, Getting
  <1>7. CASE Deliver \/ MainThread \/ EngineThread \/ UNCHANGED vars
    <2>1. UNCHANGED <<process, calls>>
      BY <1>7 DEF Deliver, MainThread, EngineThread, vars, runtimeVars, Receive, Await, StopEngine,
         HandleLazyArrival, ReleaseBackend, Cleanup, FinishCleanup
    <2> QED
      BY <1>1, <1>2, <2>1
  <1> QED
    BY <1>3, <1>4, <1>5, <1>6, <1>7 DEF Next, ProcessThread

LEMMA StepFetchesFollow ==
    ASSUME TypeOK, OnePlace, FetchesFollow, EventsRight, [Next]_vars
    PROVE  FetchesFollow'
  <1> SUFFICES ASSUME NEW k \in Key, ToFetch(k)', NEW l \in Place, NEW i \in Nat, Holds(l, i, k)'
               PROVE  Fetching(k)'
    BY DEF FetchesFollow
  <1>1. ToFetch(k)
    BY CallsDiminish DEF ToFetch
  <1>2. CASE PutFetch /\ k = Key1
    BY <1>2 DEF PutFetch, Fetching, Getting, Key1, TypeOK, RuntimeTypeOK
  <1>3. CASE ~(PutFetch /\ k = Key1)
    <2>1. Moves(k) \/ Stays(k)
      BY <1>3, StepMoves
    <2>2. \E m \in Place : \E j \in Nat : Holds(m, j, k)
      BY <2>1, HeldBefore
    <2>3. Fetching(k)
      BY <1>1, <2>2 DEF FetchesFollow
    <2> QED
      BY <2>1, <2>3, FetchingKept
  <1> QED
    BY <1>2, <1>3

LEMMA StepEngineFollows ==
    ASSUME TypeOK, EngineFollows, [Next]_vars
    PROVE  EngineFollows'
  <1> USE DEF EngineFollows
  <1>1. CASE UNCHANGED vars \/ ProcessThread \/ EngineThread
    <2>1. UNCHANGED <<engineRunning, backendUp, main>>
      BY <1>1 DEF vars, engineVars, runtimeVars, EngineThread, FreeingThread, FreeingCheck, FreeingGet,
         FreeTensor, FetchingThread, FetchingCheck, FetchingGet, FetchTensor, ArriveStore,
         ArriveSignal, ProcessThread, ProcessCheck, ProcessGet, NextCall, PutFree, PutFetch,
         CreateTensor, GetEvent, WaitArrival, PopTensor, PopEvent
    <2> QED
      BY <2>1
  <1>2. CASE Deliver \/ Receive
    BY <1>2 DEF Deliver, Receive, engineVars
  <1>3. CASE Await \/ HandleLazyArrival
    BY <1>3 DEF Await, HandleLazyArrival, engineVars
  <1>4. CASE StopEngine \/ ReleaseBackend \/ Cleanup \/ FinishCleanup
    BY <1>4 DEF StopEngine, ReleaseBackend, Cleanup, FinishCleanup, engineVars
  <1> QED
    BY <1>1, <1>2, <1>3, <1>4 DEF Next, MainThread

LEMMA StepEvents ==
    ASSUME TypeOK, OnePlace, EventsRight, EngineFollows, [Next]_vars
    PROVE  EventsRight'
  <1>1. /\ event \in [Key -> {"none", "clear", "set"}] /\ received \subseteq Key
        /\ fetching \in {"fetch", "store", "signal"} => fetched \in Key
        /\ calls \in Seq(Call) /\ (process \in InCall => calls # <<>>)
    BY DEF TypeOK, EngineTypeOK, RuntimeTypeOK
  <1>2. process \in InCall => Key1 \in Key
    BY <1>1, CallFields DEF Key1
  <1>3. \A k \in Key : ~(k \in received /\ process = "popEvent" /\ Key1 = k)
    <2> SUFFICES ASSUME NEW k \in Key, k \in received, process = "popEvent", Key1 = k
                 PROVE  FALSE
      OBVIOUS
    <2>1. Holds("received", 1, k) /\ Holds("getter", 1, k) /\ {"received", "getter"} \subseteq Place
      BY DEF Holds, Place
    <2> QED
      BY <2>1 DEF OnePlace, Alone
  <1>4. fetching = "store" => fetched \notin received /\ ~(process = "popEvent" /\ Key1 = fetched)
    <2> SUFFICES ASSUME fetching = "store",
                        fetched \in received \/ (process = "popEvent" /\ Key1 = fetched)
                 PROVE  FALSE
      OBVIOUS
    <2>1. /\ Holds("thread", 1, fetched) /\ fetched \in Key
          /\ Holds("received", 1, fetched) \/ Holds("getter", 1, fetched)
          /\ {"received", "getter", "thread"} \subseteq Place
      BY <1>1 DEF Holds, Place
    <2> QED
      BY <2>1 DEF OnePlace, Alone
  <1>5. CASE /\ UNCHANGED <<received, event, fetched, calls>>
             /\ fetching = "signal" <=> fetching' = "signal"
             /\ process' = process \/ {process, process'} \cap {"popTensor", "popEvent", "dead"} = {}
             /\ engineRunning' => engineRunning
    BY <1>5 DEF EventsRight, Key1
  <1>6. CASE Deliver \/ MainThread \/ UNCHANGED vars
    BY <1>5, <1>6 DEF Deliver, MainThread, Receive, Await, HandleLazyArrival, StopEngine, ReleaseBackend,
       Cleanup, FinishCleanup, vars, engineVars, runtimeVars
  <1>7. CASE EngineThread /\ ~ArriveStore /\ ~ArriveSignal
    BY <1>5, <1>7 DEF EngineThread, FreeingThread, FreeingCheck, FreeingGet, FreeTensor, FetchingThread,
       FetchingCheck, FetchingGet, FetchTensor, runtimeVars, EventsRight, Key1
  <1>8. CASE EngineThread /\ ArriveStore
    BY <1>1, <1>4, <1>8 DEF EngineThread, ArriveStore, StoreArrival, runtimeVars, EventsRight, Key1
  <1>9. CASE EngineThread /\ ArriveSignal
    BY <1>1, <1>9 DEF EngineThread, ArriveSignal, SignalArrival, runtimeVars, EventsRight, Key1
  <1>10. CASE ProcessCheck \/ ProcessGet
    BY <1>10 DEF ProcessCheck, ProcessGet, EventsRight, engineVars
  <1>11. CASE NextCall
    <2>1. process = "task" /\ UNCHANGED <<received, event, fetched, calls, fetching, engineRunning>>
      BY <1>11 DEF NextCall, engineVars
    <2>2. process' \in {"popTensor", "popEvent"} => FALSE
      BY <1>1, <1>11, NextStep DEF NextCall
    <2>3. process' = "dead" => ~(engineRunning /\ backendUp)
      BY <1>1, <1>11, NextStep DEF NextCall
    <2> QED
      BY <2>1, <2>2, <2>3 DEF EventsRight, EngineFollows
  <1>12. CASE PutFree \/ PutFetch \/ CreateTensor
    BY <1>12 DEF PutFree, PutFetch, CreateTensor, EndCall, EventsRight
  <1>13. CASE GetEvent
    BY <1>1, <1>13 DEF GetEvent, EventsRight, Key1
  <1>14. CASE WaitArrival
    BY <1>1, <1>2, <1>14 DEF WaitArrival, EventsRight, Key1, engineVars, InCall, Getting
  <1>15. CASE PopTensor
    BY <1>1, <1>2, <1>15 DEF PopTensor, EventsRight, Key1, InCall, Getting
  <1>16. CASE PopEvent
    BY <1>1, <1>2, <1>3, <1>16 DEF PopEvent, EventAfterGet, EndCall, EventsRight, Key1, InCall, Getting
  <1> QED
    BY <1>6, <1>7, <1>8, <1>9, <1>10, <1>11, <1>12, <1>13, <1>14, <1>15, <1>16 DEF Next, ProcessThread

LEMMA InitArrivals ==
    ASSUME Init
    PROVE  ArrivalInv
  <1>1. /\ unsent \in Inboxes /\ inbox = <<>> /\ handlers = <<>> /\ fetchQueue = <<>>
        /\ taskQueue = <<>> /\ calls = <<>> /\ process = "check" /\ fetching = "check"
        /\ received = {} /\ event = [k \in Key |-> "none"]
        /\ engineRunning = TRUE /\ backendUp = TRUE /\ main = "poll"
    BY DEF Init, EngineInit
  <1>2. ASSUME NEW l, NEW i, NEW k, Holds(l, i, k)
        PROVE  l = "unsent" /\ i \in DOMAIN unsent /\ Announces(unsent[i], k)
    BY <1>1, <1>2 DEF Holds
  <1>3. OnePlace
    BY <1>1, <1>2, AnnouncedOnce DEF OnePlace, Alone
  <1>4. FetchesFollow
    <2> SUFFICES ASSUME NEW k \in Key, ToFetch(k), NEW l \in Place, NEW i \in Nat, Holds(l, i, k)
                 PROVE  FALSE
      BY DEF FetchesFollow
    <2>1. \E j \in DOMAIN unsent : unsent[j].type = "task" /\ Fetches(unsent[j].calls, k)
      BY <1>1 DEF ToFetch, ToMake, Makes, Fetches
    <2> QED
      BY <1>1, <1>2, <2>1, AnnouncedOnce
  <1>5. EventsRight /\ EngineFollows
    BY <1>1 DEF EventsRight, EngineFollows
  <1> QED
    BY <1>3, <1>4, <1>5 DEF ArrivalInv

(***************************************************************************)
(* An arrival is seen, whichever of the fetching thread and the getter     *)
(* comes first, before and after any number of gets of the same tensor;    *)
(* and no task ends its thread by an exception while the engine runs.      *)
(***************************************************************************)
THEOREM ArrivalAlwaysSeen == Spec => []ArrivalSeen
  <1>1. Init => TypeOK /\ ArrivalInv
    BY InitType, InitArrivals
  <1>2. TypeOK /\ ArrivalInv /\ [Next]_vars => (TypeOK /\ ArrivalInv)'
    <2> SUFFICES ASSUME TypeOK, ArrivalInv, [Next]_vars
                 PROVE  (TypeOK /\ ArrivalInv)'
      OBVIOUS
    <2>1. OnePlace /\ FetchesFollow /\ EventsRight /\ EngineFollows
      BY DEF ArrivalInv
    <2>2. TypeOK' /\ OnePlace' /\ FetchesFollow' /\ EventsRight' /\ EngineFollows'
      BY <2>1, StepType, StepOnePlace, StepFetchesFollow, StepEvents, StepEngineFollows
    <2> QED
      BY <2>2 DEF ArrivalInv
  <1>3. TypeOK /\ ArrivalInv => ArrivalSeen
    BY DEF ArrivalInv, EventsRight, ArrivalSeen, TypeOK, EngineTypeOK
  <1> QED
    BY <1>1, <1>2, <1>3, PTL DEF Spec

-----------------------------------------------------------------------------
(* What is left in the queues of a stopped engine *)

\* A call was queued behind the end of its thread.
LateFree == freeing = "done" /\ freeQueue # 0
LateFetch == fetching = "done" /\ Len(fetchQueue) # 0

\* The process thread has found the engine running and has yet to queue its call.
Submitting == process \in {"putFree", "putFetch"}

EndInv ==
    /\ EngineFollows
    /\ freeing = "done" \/ fetching = "done" => ~engineRunning
    /\ LateFree => freeQueue = 1 /\ ~LateFetch /\ ~Submitting
    /\ LateFetch => Len(fetchQueue) = 1 /\ ~Submitting
    /\ ~backendUp => freeing = "done" /\ fetching = "done"

\* The effect of every step on the engine and on what is submitted.
LEMMA SubmitSteps ==
    ASSUME TypeOK, EngineFollows, [Next]_vars
    PROVE  \/ /\ UNCHANGED <<freeQueue, fetchQueue, freeing, fetching, engineRunning>>
              /\ Submitting' => Submitting \/ engineRunning
           \/ /\ engineRunning /\ ~engineRunning'
              /\ UNCHANGED <<freeQueue, fetchQueue, freeing, fetching, process>>
           \/ /\ HandleLazyArrival /\ engineRunning
              /\ UNCHANGED <<freeQueue, freeing, fetching, engineRunning, process>>
           \/ /\ Submitting /\ ~Submitting' /\ UNCHANGED <<freeing, fetching, engineRunning>>
              /\ freeQueue' + Len(fetchQueue') = freeQueue + Len(fetchQueue) + 1
              /\ freeQueue' >= freeQueue /\ Len(fetchQueue') >= Len(fetchQueue)
           \/ /\ UNCHANGED <<fetchQueue, fetching, engineRunning, process>> /\ freeing # "done"
              /\ freeing' = "done" => ~engineRunning /\ freeQueue' = 0
           \/ /\ UNCHANGED <<freeQueue, freeing, engineRunning, process>> /\ fetching # "done"
              /\ fetching' = "done" => ~engineRunning /\ fetchQueue' = <<>>
  <1>1. CASE UNCHANGED vars \/ Deliver \/ Receive \/ Await \/ ReleaseBackend \/ Cleanup \/ FinishCleanup
    BY <1>1 DEF vars, engineVars, runtimeVars, Deliver, Receive, Await, ReleaseBackend, Cleanup,
       FinishCleanup, Submitting
  <1>2. CASE StopEngine
    BY <1>2 DEF StopEngine, EngineFollows
  <1>3. CASE HandleLazyArrival
    BY <1>3 DEF HandleLazyArrival, EngineFollows
  <1>4. CASE ProcessCheck \/ ProcessGet \/ CreateTensor \/ GetEvent \/ WaitArrival \/ PopTensor \/ PopEvent
    BY <1>4 DEF ProcessCheck, ProcessGet, CreateTensor, GetEvent, WaitArrival, PopTensor, PopEvent,
       EndCall, engineVars, Submitting
  <1>5. CASE NextCall
    <2>1. Submitting' => engineRunning
      BY <1>5, NextStep DEF Submitting, NextCall, TypeOK, RuntimeTypeOK
    <2> QED
      BY <1>5, <2>1 DEF NextCall, engineVars
  <1>6. CASE PutFree
    <2>1. freeQueue \in Nat /\ Len(fetchQueue) \in Nat
      BY LenProperties DEF TypeOK, EngineTypeOK
    <2> QED
      BY <1>6, <2>1 DEF PutFree, EndCall, Submitting
  <1>7. CASE PutFetch
    <2>1. freeQueue \in Nat /\ fetchQueue \in Seq(Key) /\ Key1 \in Key
      BY <1>7, CallFields DEF PutFetch, TypeOK, EngineTypeOK, RuntimeTypeOK, InCall, Key1
    <2>2. Len(fetchQueue) \in Nat /\ Len(Append(fetchQueue, Key1)) = Len(fetchQueue) + 1
      BY <2>1, LenProperties, AppendProperties
    <2> QED
      BY <1>7, <2>1, <2>2 DEF PutFetch, Submitting
  <1>8. CASE EngineThread
    <2>1. UNCHANGED <<engineRunning, process>>
      BY <1>8 DEF EngineThread, runtimeVars, FreeingThread, FreeingCheck, FreeingGet, FreeTensor,
         FetchingThread, FetchingCheck, FetchingGet, FetchTensor, ArriveStore, ArriveSignal
    <2>2. CASE FreeingThread
      BY <2>1, <2>2 DEF FreeingThread, FreeingCheck, FreeingGet, FreeTensor, TypeOK, EngineTypeOK
    <2>3. CASE FetchingThread
      BY <2>1, <2>3 DEF FetchingThread, FetchingCheck, FetchingContinues, FetchingGet, FetchTensor,
         ArriveStore, ArriveSignal, TypeOK, EngineTypeOK
    <2> QED
      BY <1>8, <2>2, <2>3 DEF EngineThread
  <1> QED
    BY <1>1, <1>2, <1>3, <1>4, <1>5, <1>6, <1>7, <1>8 DEF Next, MainThread, ProcessThread

LEMMA StepReleased ==
    ASSUME TypeOK, EndInv, [Next]_vars, ~backendUp'
    PROVE  freeing' = "done" /\ fetching' = "done"
  <1>1. CASE ReleaseBackend
    BY <1>1 DEF ReleaseBackend, EngineEnded
  <1>2. CASE ~ReleaseBackend
    <2>1. backendUp' = backendUp
      BY <1>2 DEF vars, engineVars, runtimeVars, Next, MainThread, Deliver, Receive, Await,
         HandleLazyArrival, StopEngine, Cleanup, FinishCleanup, EngineThread, FreeingThread,
         FreeingCheck, FreeingGet, FreeTensor, FetchingThread, FetchingCheck, FetchingGet,
         FetchTensor, ArriveStore, ArriveSignal, ProcessThread, ProcessCheck, ProcessGet, NextCall,
         PutFree, PutFetch, CreateTensor, GetEvent, WaitArrival, PopTensor, PopEvent
    <2>2. freeing = "done" /\ fetching = "done" /\ EngineFollows
      BY <2>1 DEF EndInv
    <2> QED
      BY <2>2, SubmitSteps DEF HandleLazyArrival
  <1> QED
    BY <1>1, <1>2

LEMMA StepEnd ==
    ASSUME TypeOK, EndInv, [Next]_vars
    PROVE  EndInv'
  <1>1. /\ freeQueue \in Nat /\ freeQueue' \in Nat
        /\ Len(fetchQueue) \in Nat /\ Len(fetchQueue') \in Nat
    BY StepType, LenProperties DEF TypeOK, EngineTypeOK
  <1>2. Len(<<>>) = 0
    BY EmptySeq
  <1>3. freeing' = "done" \/ fetching' = "done" => ~engineRunning'
    BY SubmitSteps DEF EndInv
  <1> DEFINE One == /\ LateFree => freeQueue = 1 /\ ~LateFetch /\ ~Submitting
                    /\ LateFetch => Len(fetchQueue) = 1 /\ ~Submitting
  <1>4. One
    BY DEF EndInv
  <1>5. engineRunning => ~LateFree /\ ~LateFetch
    BY DEF EndInv, LateFree, LateFetch
  <1>6. One'
    <2>1. CASE /\ UNCHANGED <<freeQueue, fetchQueue, freeing, fetching, engineRunning>>
               /\ Submitting' => Submitting \/ engineRunning
      BY <1>4, <1>5, <2>1 DEF LateFree, LateFetch
    <2>2. CASE /\ engineRunning /\ ~engineRunning'
               /\ UNCHANGED <<freeQueue, fetchQueue, freeing, fetching, process>>
      BY <1>5, <2>2 DEF LateFree, LateFetch
    <2>3. CASE /\ HandleLazyArrival /\ engineRunning
               /\ UNCHANGED <<freeQueue, freeing, fetching, engineRunning, process>>
      BY <2>3 DEF EndInv, LateFree, LateFetch
    <2>4. CASE /\ Submitting /\ ~Submitting' /\ UNCHANGED <<freeing, fetching, engineRunning>>
               /\ freeQueue' + Len(fetchQueue') = freeQueue + Len(fetchQueue) + 1
               /\ freeQueue' >= freeQueue /\ Len(fetchQueue') >= Len(fetchQueue)
      <3>1. ~LateFree /\ ~LateFetch
        BY <1>4, <2>4
      <3>2. \/ freeQueue' = freeQueue /\ Len(fetchQueue') = Len(fetchQueue) + 1
            \/ freeQueue' = freeQueue + 1 /\ Len(fetchQueue') = Len(fetchQueue)
        BY <1>1, <2>4
      <3>3. /\ freeing = "done" => freeQueue = 0
            /\ fetching = "done" => Len(fetchQueue) = 0
        BY <3>1 DEF LateFree, LateFetch
      <3>4. CASE freeQueue' = freeQueue /\ Len(fetchQueue') = Len(fetchQueue) + 1
        BY <1>1, <2>4, <3>3, <3>4 DEF LateFree, LateFetch
      <3>5. CASE freeQueue' = freeQueue + 1 /\ Len(fetchQueue') = Len(fetchQueue)
        BY <1>1, <2>4, <3>3, <3>5 DEF LateFree, LateFetch
      <3> QED
        BY <3>2, <3>4, <3>5
    <2>5. CASE /\ UNCHANGED <<fetchQueue, fetching, engineRunning, process>> /\ freeing # "done"
               /\ freeing' = "done" => ~engineRunning /\ freeQueue' = 0
      BY <1>4, <2>5 DEF LateFree, LateFetch, Submitting
    <2>6. CASE /\ UNCHANGED <<freeQueue, freeing, engineRunning, process>> /\ fetching # "done"
               /\ fetching' = "done" => ~engineRunning /\ fetchQueue' = <<>>
      BY <1>2, <1>4, <2>6 DEF LateFree, LateFetch, Submitting
    <2>7. EngineFollows
      BY DEF EndInv
    <2> QED
      BY <2>1, <2>2, <2>3, <2>4, <2>5, <2>6, <2>7, SubmitSteps
  <1> QED
    BY <1>3, <1>6, StepReleased, StepEngineFollows DEF EndInv

LEMMA InitEnd ==
    ASSUME Init
    PROVE  EndInv
  BY DEF Init, EngineInit, EndInv, EngineFollows, LateFree, LateFetch

(***************************************************************************)
(* Whatever the stop overtakes, at most one call is left in the queues of  *)
(* the engine when its backend goes: the one whose thread had found the    *)
(* engine running, and that nothing will serve.                            *)
(***************************************************************************)
AtMostOneLeft ==
    ~backendUp => /\ freeing = "done" /\ fetching = "done"
                  /\ freeQueue + Len(fetchQueue) <= 1

THEOREM OneCallLeft == Spec => []AtMostOneLeft
  <1>1. Init => TypeOK /\ EndInv
    BY InitType, InitEnd
  <1>2. TypeOK /\ EndInv /\ [Next]_vars => (TypeOK /\ EndInv)'
    BY StepType, StepEnd
  <1>3. TypeOK /\ EndInv => AtMostOneLeft
    <2> SUFFICES ASSUME TypeOK, EndInv, ~backendUp
                 PROVE  AtMostOneLeft
      BY DEF AtMostOneLeft
    <2>1. freeQueue \in Nat /\ Len(fetchQueue) \in Nat
      BY LenProperties DEF TypeOK, EngineTypeOK
    <2>2. freeing = "done" /\ fetching = "done"
      BY DEF EndInv
    <2>3. /\ freeQueue # 0 => freeQueue = 1 /\ Len(fetchQueue) = 0
          /\ Len(fetchQueue) # 0 => Len(fetchQueue) = 1
      BY <2>2 DEF EndInv, LateFree, LateFetch
    <2>4. freeQueue + Len(fetchQueue) <= 1
      <3>1. \A m, n \in Nat : (m # 0 => m = 1 /\ n = 0) /\ (n # 0 => n = 1) => m + n <= 1
        OBVIOUS
      <3> QED
        BY <2>1, <2>3, <3>1
    <2> QED
      BY <2>2, <2>4 DEF AtMostOneLeft
  <1> QED
    BY <1>1, <1>2, <1>3, PTL DEF Spec

Submission == { c \in Call : c.op \in {"free", "fetch"} }

\* A worker that is stopped has only tasks that submit nothing.
QuietStops ==
    \A s \in Inboxes : \A i, j \in DOMAIN s :
        s[i].type = "stop" /\ s[j].type = "task" => ~Makes(s[j].calls, Submission)

\* The stop is on its way, or has come.
Stopping ==
    \/ \E i \in DOMAIN unsent : unsent[i].type = "stop"
    \/ \E i \in DOMAIN inbox : inbox[i].type = "stop"
    \/ ~engineRunning \/ main = "stop"

QuietInv == /\ Stopping => ~ToMake(Submission)
            /\ ~LateFree /\ ~LateFetch

LEMMA StepStopping ==
    ASSUME TypeOK, EngineFollows, [Next]_vars, Stopping'
    PROVE  Stopping
  <1>1. unsent \in Seq(Message) /\ inbox \in Seq(Message)
    BY DEF TypeOK, RuntimeTypeOK
  <1>2. CASE Deliver
    <2>1. /\ unsent # <<>> /\ inbox' = Append(inbox, Head(unsent)) /\ unsent' = Tail(unsent)
          /\ UNCHANGED <<engineRunning, main>>
      BY <1>2 DEF Deliver, engineVars
    <2>2. \A i \in DOMAIN unsent' : i + 1 \in DOMAIN unsent /\ unsent'[i] = unsent[i + 1]
      BY <1>1, <2>1, TailIndex
    <2>3. Head(unsent) \in Message /\ 1 \in DOMAIN unsent /\ Head(unsent) = unsent[1]
      BY <1>1, <2>1, TailIndex
    <2>4. \A i \in DOMAIN inbox' : inbox'[i] = unsent[1] \/ (i \in DOMAIN inbox /\ inbox'[i] = inbox[i])
      BY <1>1, <2>1, <2>3, AppendIndex
    <2> QED
      BY <2>1, <2>2, <2>3, <2>4 DEF Stopping
  <1>3. CASE Receive
    <2>1. /\ inbox # <<>> /\ inbox' = Tail(inbox) /\ UNCHANGED <<unsent, engineRunning>>
          /\ main' = main \/ (main' = "stop" /\ Head(inbox).type = "stop")
      BY <1>3 DEF Receive, engineVars
    <2>2. \A i \in DOMAIN inbox' : i + 1 \in DOMAIN inbox /\ inbox'[i] = inbox[i + 1]
      BY <1>1, <2>1, TailIndex
    <2>3. 1 \in DOMAIN inbox /\ Head(inbox) = inbox[1]
      BY <1>1, <2>1, TailIndex
    <2> QED
      BY <2>1, <2>2, <2>3 DEF Stopping
  <1>4. CASE StopEngine \/ ReleaseBackend \/ Cleanup \/ FinishCleanup
    BY <1>4 DEF StopEngine, ReleaseBackend, Cleanup, FinishCleanup, Stopping, EngineFollows
  <1>5. CASE UNCHANGED vars \/ Await \/ HandleLazyArrival \/ ProcessThread \/ EngineThread
    <2>1. /\ UNCHANGED <<unsent, inbox, engineRunning>>
          /\ main' = "stop" => main = "stop"
      BY <1>5 DEF vars, engineVars, runtimeVars, Await, HandleLazyArrival, EngineThread, FreeingThread,
         FreeingCheck, FreeingGet, FreeTensor, FetchingThread, FetchingCheck, FetchingGet, FetchTensor,
         ArriveStore, ArriveSignal, ProcessThread, ProcessCheck, ProcessGet, NextCall, PutFree,
         PutFetch, CreateTensor, GetEvent, WaitArrival, PopTensor, PopEvent
    <2> QED
      BY <2>1 DEF Stopping
  <1> QED
    BY <1>2, <1>3, <1>4, <1>5 DEF Next, MainThread

LEMMA StepQuiet ==
    ASSUME TypeOK, EndInv, QuietInv, [Next]_vars
    PROVE  QuietInv'
  <1>1. EngineFollows
    BY DEF EndInv
  <1>2. Stopping' => ~ToMake(Submission)'
    BY <1>1, StepStopping, CallsDiminish DEF QuietInv
  <1>3. Submitting => ToMake(Submission)
    <2> SUFFICES ASSUME Submitting
                 PROVE  Makes(calls, Submission)
      BY DEF Submitting, ToMake
    <2>1. calls \in Seq(Call) /\ calls # <<>> /\ Head(calls).op \in {"free", "fetch"}
      BY DEF Submitting, TypeOK, RuntimeTypeOK, InCall
    <2> QED
      BY <2>1, TailIndex DEF Makes, Submission
  <1>4. Submitting => engineRunning
    BY <1>3 DEF QuietInv, Stopping
  <1>5. /\ freeQueue \in Nat /\ freeQueue' \in Nat
        /\ Len(fetchQueue) \in Nat /\ Len(fetchQueue') \in Nat
    BY StepType, LenProperties DEF TypeOK, EngineTypeOK
  <1>6. Len(<<>>) = 0
    BY EmptySeq
  <1>7. engineRunning => freeing # "done" /\ fetching # "done"
    BY DEF EndInv
  <1>8. ~LateFree' /\ ~LateFetch'
    BY <1>1, <1>4, <1>5, <1>6, <1>7, SubmitSteps DEF QuietInv, LateFree, LateFetch
  <1> QED
    BY <1>2, <1>8 DEF QuietInv

LEMMA InitQuiet ==
    ASSUME Init, QuietStops
    PROVE  QuietInv
  <1>1. /\ unsent \in Inboxes /\ inbox = <<>> /\ taskQueue = <<>> /\ calls = <<>>
        /\ process = "check" /\ engineRunning = TRUE /\ main = "poll"
        /\ freeing = "check" /\ fetching = "check"
    BY DEF Init, EngineInit
  <1>2. ~LateFree /\ ~LateFetch
    BY <1>1 DEF LateFree, LateFetch
  <1>3. ASSUME Stopping, ToMake(Submission)
        PROVE  FALSE
    <2>1. \E i \in DOMAIN unsent : unsent[i].type = "stop"
      BY <1>1, <1>3 DEF Stopping
    <2>2. \E j \in DOMAIN unsent : unsent[j].type = "task" /\ Makes(unsent[j].calls, Submission)
      BY <1>1, <1>3 DEF ToMake, Makes
    <2> QED
      BY <1>1, <2>1, <2>2 DEF QuietStops
  <1> QED
    BY <1>2, <1>3 DEF QuietInv

(***************************************************************************)
(* When the tasks of a stopped worker submit nothing, what the main thread *)
(* had submitted is all there was, and is done before the backend goes.    *)
(***************************************************************************)
THEOREM DrainedWhenReleased == QuietStops /\ Spec => []DrainedAtRelease
  <1> SUFFICES ASSUME QuietStops
               PROVE  Spec => []DrainedAtRelease
    OBVIOUS
  <1>1. Init => TypeOK /\ EndInv /\ QuietInv
    BY InitType, InitEnd, InitQuiet
  <1>2. TypeOK /\ EndInv /\ QuietInv /\ [Next]_vars => (TypeOK /\ EndInv /\ QuietInv)'
    BY StepType, StepEnd, StepQuiet
  <1>3. TypeOK /\ EndInv /\ QuietInv => DrainedAtRelease
    <2> SUFFICES ASSUME TypeOK, EndInv, QuietInv, ~backendUp
                 PROVE  fetchQueue = <<>> /\ freeQueue = 0 /\ freeing = "done" /\ fetching = "done"
      BY DEF DrainedAtRelease
    <2>1. freeQueue \in Nat /\ Len(fetchQueue) \in Nat /\ fetchQueue \in Seq(Key)
      BY LenProperties DEF TypeOK, EngineTypeOK
    <2>2. freeing = "done" /\ fetching = "done" /\ freeQueue + Len(fetchQueue) = 0
      BY <2>1 DEF EndInv, QuietInv, LateFree, LateFetch
    <2> QED
      BY <2>1, <2>2, EmptySeq
  <1> QED
    BY <1>1, <1>2, <1>3, PTL DEF Spec

=============================================================================
