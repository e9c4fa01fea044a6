--------------------------- MODULE FrontendProofs ---------------------------
(***************************************************************************)
(* The startup does what the serving relies on, for every number of        *)
(* workers, every list of models to prefetch and to preload, and every     *)
(* order in which workers come up, prefetch and answer.                    *)
(*                                                                         *)
(* Three inductive invariants: the handshake (at which worker the server   *)
(* is, and what the others still have to answer), the order of a worker's  *)
(* messages (no model to preload comes behind a task), and the two memories*)
(* of a worker once it has prefetched.                                     *)
(***************************************************************************)
EXTENDS Frontend, SequenceTheorems, FiniteSetTheorems, TLAPS

LoadTask == { LoadTasks[j] : j \in DOMAIN LoadTasks }
Loaded == { t.model : t \in LoadTask }

TaskMessage == [type : {"task"}, request : Request]

Message ==
    {Ping, Pong, Stop} \cup { ModelLoading(m) : m \in Loaded }
    \cup { ModelLoaded(m) : m \in Loaded }
    \cup [type : {"task", "task_complete"}, request : Request]

Waiter == [model : Loaded, done : BOOLEAN, late : BOOLEAN]

Serves == {"serving", "stopped"}

\* The types of what the three invariants speak about.
Typed ==
    /\ server \in {"ping", "receive", "preload", "serving", "stopped"} /\ next \in Worker
    /\ toSend \in Seq(LoadTask)
    /\ inbox \in [Worker -> Seq(Message)] /\ results \in [Worker -> Seq(Message)]
    /\ taskQueue \in [Worker -> Seq(TaskMessage)]
    /\ up \in [Worker -> {"off", "on", "stopping"}]
    /\ handlers \in [Worker -> Seq(Loaded)] /\ missed \in [Worker -> Seq(Loaded)]
    /\ waiters \in [Worker -> Seq(Waiter)] /\ eventSet \in [Worker -> BOOLEAN]
    /\ process \in [Worker -> {"off", "prefetch", "set", "iterate", "wake", "loop", "dead"}]
    /\ iterated \in [Worker -> Nat] /\ mutated \in [Worker -> BOOLEAN]
    /\ DOMAIN cpu = Worker /\ DOMAIN gpu = Worker

NoType(s, t) == \A j \in 1 .. Len(s) : s[j].type # t

\* The server waits for worker next; the ones before it have answered.
Asked(w) ==
    IF w < next THEN up[w] = "on" /\ inbox[w] = <<>> /\ results[w] = <<>>
    ELSE \/ inbox[w] = <<Ping>> /\ results[w] = <<>>
         \/ inbox[w] = <<>> /\ results[w] = <<Pong>> /\ up[w] = "on"

Untouched(w) ==
    handlers[w] = <<>> /\ missed[w] = <<>> /\ waiters[w] = <<>> /\ taskQueue[w] = <<>>

Handshake ==
    /\ server = "ping" => \A w \in Worker : inbox[w] = <<>> /\ results[w] = <<>>
    /\ server \in {"ping", "receive"} => toSend = <<>> /\ \A w \in Worker : Untouched(w)
    /\ server = "receive" => \A w \in Worker : Asked(w)
    /\ server \in {"preload", "serving", "stopped"} =>
         \A w \in Worker : up[w] # "off" /\ NoType(inbox[w], "ping") /\ NoType(results[w], "pong")

TasksBehindModels(s) ==
    \A i, j \in 1 .. Len(s) : i < j /\ s[i].type = "task" => s[j].type # "model_loading"

Order ==
    /\ server \notin Serves => \A w \in Worker : NoType(inbox[w], "task") /\ taskQueue[w] = <<>>
    /\ server \in Serves =>
         /\ toSend = <<>>
         /\ \A w \in Worker :
              /\ TasksBehindModels(inbox[w])
              /\ taskQueue[w] # <<>> => NoType(inbox[w], "model_loading")

MovedReports(w) ==
    \A j \in 1 .. Len(results[w]) :
        (results[w][j].type = "model_loading_complete" /\ results[w][j].model \in ToSet(Prefetch))
            => results[w][j].model \in gpu[w]

\* A future nobody has set.
Future == { v \in Waiter : ~v.done }

AfterSet == {"iterate", "wake", "loop", "dead"}

\* What a worker has prefetched it has in one of its memories, and a handler
\* only goes on when it has.
Memories(w) ==
    /\ eventSet[w] <=> process[w] \in AfterSet
    /\ up[w] = "off" => process[w] = "off"
    /\ process[w] \in AfterSet \cup {"set"} => ToSet(Prefetch) \subseteq cpu[w] \cup gpu[w]
    /\ ~eventSet[w] => waiters[w] \in Seq(Future)
    /\ MovedReports(w)

IInv == Typed /\ Handshake /\ Order /\ \A w \in Worker : Memories(w)

-----------------------------------------------------------------------------
(* Sequences of messages.                                                  *)

\* A message of another type leaves a socket without messages of this one.
LEMMA NoTypeAppend ==
    ASSUME NEW S, NEW s \in Seq(S), NEW e \in S, NEW t, NoType(s, t), e.type # t
    PROVE  NoType(Append(s, e), t)
  BY DEF NoType

\* And so does taking a message.
LEMMA NoTypeTail ==
    ASSUME NEW S, NEW s \in Seq(S), s # <<>>, NEW t, NoType(s, t)
    PROVE  NoType(Tail(s), t) /\ Head(s).type # t
  BY DEF NoType

\* A task may be put behind anything, and anything but a model behind a task.
LEMMA BehindAppend ==
    ASSUME NEW S, NEW s \in Seq(S), NEW e \in S, TasksBehindModels(s),
           e.type # "model_loading"
    PROVE  TasksBehindModels(Append(s, e))
  BY DEF TasksBehindModels

\* Taking a message keeps the tasks behind the models.
LEMMA BehindTail ==
    ASSUME NEW S, NEW s \in Seq(S), s # <<>>, TasksBehindModels(s)
    PROVE  /\ TasksBehindModels(Tail(s))
           /\ Head(s).type = "task" => NoType(Tail(s), "model_loading")
  BY DEF TasksBehindModels, NoType

\* Without tasks nothing is behind one.
LEMMA NoTaskBehind ==
    ASSUME NEW S, NEW s \in Seq(S), NoType(s, "task")
    PROVE  TasksBehindModels(s)
  BY DEF TasksBehindModels, NoType

\* A sequence without one of its elements.
LEMMA RemoveAtType ==
    ASSUME NEW S, NEW s \in Seq(S), NEW i \in DOMAIN s
    PROVE  RemoveAt(s, i) \in Seq(S)
  <1>1. SubSeq(s, 1, i - 1) \in Seq(S) /\ SubSeq(s, i + 1, Len(s)) \in Seq(S)
    BY SubSeqProperties, ElementOfSeq
  <1> QED
    BY <1>1, ConcatProperties DEF RemoveAt

\* The tasks that send the models form a sequence.
LEMMA LoadTasksType == LoadTasks \in Seq(LoadTask)
<1> DEFINE n == Cardinality(Worker)
<1>1. n \in Nat /\ Len(Preload) \in Nat
  BY StartupAssumption, FS_CardinalityType
<1>2. n * Len(Preload) \in Nat
  BY <1>1
<1>3. DOMAIN LoadTasks = 1 .. n * Len(Preload)
  BY DEF LoadTasks
<1>4. \A j \in DOMAIN LoadTasks : LoadTasks[j] \in LoadTask
  BY DEF LoadTask
<1>5. LoadTasks = [j \in 1 .. n * Len(Preload) |-> LoadTasks[j]]
  BY <1>3 DEF LoadTasks
<1> HIDE DEF n
<1> QED
  BY <1>2, <1>3, <1>4, <1>5

-----------------------------------------------------------------------------
\* The ranks count from 0, and only the last one has no successor.
LEMMA Ranks ==
    /\ 0 \in Worker
    /\ \A w \in Worker :
         /\ ~LastOf(w) => w + 1 \in Worker
         /\ \A v \in Worker : v < w + 1 <=> v < w \/ v = w
         /\ LastOf(w) => \A v \in Worker : v < w + 1
<1> DEFINE n == Cardinality(Worker)
<1>1. n \in Nat /\ Worker = 0 .. n - 1 /\ Worker # {}
  BY StartupAssumption, FS_CardinalityType
<1> HIDE DEF n
<1> QED
  BY <1>1 DEF LastOf, n

\* Nothing is sent and nobody is up in the beginning.
LEMMA InitIInv == Init => IInv
<1> SUFFICES ASSUME Init PROVE IInv
    OBVIOUS
<1>1. Typed
  <2>1. 0 \in Worker
    BY Ranks
  <2> QED
    BY <2>1 DEF Init, StartupInit, Each, Typed
<1>2. Handshake
  BY DEF Init, StartupInit, Each, Handshake, Untouched
<1>3. Order
  BY DEF Init, StartupInit, Each, Order, NoType, Serves
<1>4. \A w \in Worker : Memories(w)
  BY DEF Init, StartupInit, Each, Memories, MovedReports, AfterSet
<1> QED
  BY <1>1, <1>2, <1>3, <1>4 DEF IInv

\* The steps that concern the startup; an endpoint does not.
LEMMA NextSplit ==
    ASSUME [Next]_vars
    PROVE  \/ UNCHANGED startupVars \/ StartCoordinator \/ StopWorkers
           \/ \E w \in Worker :
                \/ BringUp(w) \/ MainThread(w) \/ ProcessThread(w)
                \/ ProcessTask(w) \/ GatherResult(w)
                \/ \E r \in Request : Dispatch(r, w)
<1>1. ASSUME NEW r \in Request, Endpoint(r) \/ Return(r)
      PROVE  UNCHANGED startupVars
  BY <1>1 DEF Endpoint, Refuse, Reject, FailToUnroll, Execute, Return
<1>2. ASSUME NEW name \in Name, NEW b \in Body, Register(name, b)
      PROVE  UNCHANGED startupVars
  BY <1>2 DEF Register
<1> QED
  BY <1>1, <1>2 DEF Next, Starting, Shutdown, StartsWorker, vars

\* Every step keeps the types.
LEMMA TypedStep == Typed /\ [Next]_vars => Typed'
<1> SUFFICES ASSUME Typed, [Next]_vars PROVE Typed'
    OBVIOUS
<1> USE DEF Typed, startupVars, coordinatorVars, mainVars, eventVars
<1>1. CASE UNCHANGED startupVars
  BY <1>1
<1>2. CASE SendPings
  <2>1. 0 \in Worker /\ Ping \in Message
    BY Ranks DEF Message
  <2>2. \A w \in Worker : Append(inbox[w], Ping) \in Seq(Message)
    BY <2>1
  <2> QED
    BY <1>2, <2>1, <2>2 DEF SendPings
<1>3. CASE ReceivePong
  <2>1. Tail(results[next]) \in Seq(Message)
    BY <1>3 DEF ReceivePong
  <2>2. 0 \in Worker /\ (~LastOf(next) => next + 1 \in Worker)
    BY Ranks
  <2> QED
    BY <1>3, <2>1, <2>2, LoadTasksType DEF ReceivePong
<1>4. CASE SendModelLoading
  <2>1. Head(toSend) \in LoadTask /\ Tail(toSend) \in Seq(LoadTask)
    BY <1>4 DEF SendModelLoading
  <2>2. ModelLoading(Head(toSend).model) \in Message
    BY <2>1 DEF Message, Loaded
  <2>3. \A w \in Worker : Append(inbox[w], ModelLoading(Head(toSend).model)) \in Seq(Message)
    BY <2>2
  <2> QED
    BY <1>4, <2>1, <2>3 DEF SendModelLoading
<1>5. CASE StartServing
  BY <1>5 DEF StartServing
<1>6. CASE StopWorkers
  <2>0. Stop \in Message
    BY DEF Message
  <2>1. \A w \in Worker : Append(inbox[w], Stop) \in Seq(Message)
    BY <2>0
  <2> QED
    BY <1>6, <2>1 DEF StopWorkers
<1>7. ASSUME NEW w \in Worker, BringUp(w)
      PROVE  Typed'
  BY <1>7 DEF BringUp
<1>8. ASSUME NEW w \in Worker, Receive(w)
      PROVE  Typed'
  <2>1. inbox[w] # <<>> /\ inbox' = [inbox EXCEPT ![w] = Tail(inbox[w])]
    BY <1>8 DEF Receive
  <2>2. Head(inbox[w]) \in Message /\ inbox' \in [Worker -> Seq(Message)]
    BY <2>1
  <2>3. UNCHANGED <<server, next, toSend, missed, waiters, eventSet, process, iterated,
                    mutated, cpu, gpu>>
    BY <1>8 DEF Receive
  <2>4. CASE Head(inbox[w]).type = "ping"
    <3>1. results' = [results EXCEPT ![w] = Append(results[w], Pong)]
             /\ UNCHANGED <<up, handlers, taskQueue>>
      BY <1>8, <2>4 DEF Receive
    <3>2. Pong \in Message
      BY DEF Message
    <3>3. Append(results[w], Pong) \in Seq(Message)
      BY <3>2
    <3> QED
      BY <2>2, <2>3, <3>1, <3>3
  <2>5. CASE Head(inbox[w]).type = "task"
    <3>1. /\ taskQueue' = [taskQueue EXCEPT ![w] = Append(taskQueue[w], Head(inbox[w]))]
          /\ UNCHANGED <<up, handlers, results>>
      BY <1>8, <2>5 DEF Receive
    <3>2. Head(inbox[w]) \in TaskMessage
      BY <2>2, <2>5 DEF Message, Ping, Pong, Stop, ModelLoading, ModelLoaded, TaskMessage
    <3>3. Append(taskQueue[w], Head(inbox[w])) \in Seq(TaskMessage)
      BY <3>2
    <3> QED
      BY <2>2, <2>3, <3>1, <3>3
  <2>6. CASE Head(inbox[w]).type = "model_loading"
    <3>1. /\ handlers' = [handlers EXCEPT ![w] = Append(handlers[w], Head(inbox[w]).model)]
          /\ UNCHANGED <<up, taskQueue, results>>
      BY <1>8, <2>6 DEF Receive
    <3>2. Head(inbox[w]).model \in Loaded
      BY <2>2, <2>6 DEF Message, Ping, Pong, Stop, ModelLoading, ModelLoaded
    <3>3. Append(handlers[w], Head(inbox[w]).model) \in Seq(Loaded)
      BY <3>2
    <3> QED
      BY <2>2, <2>3, <3>1, <3>3
  <2>7. CASE Head(inbox[w]).type = "stop"
    <3>1. up' = [up EXCEPT ![w] = "stopping"] /\ UNCHANGED <<results, handlers, taskQueue>>
      BY <1>8, <2>7 DEF Receive
    <3> QED
      BY <2>2, <2>3, <3>1
  <2> QED
    BY <1>8, <2>4, <2>5, <2>6, <2>7 DEF Receive
<1>9. ASSUME NEW w \in Worker, NEW m \in Loaded, MoveAndRespond(w, m)
      PROVE  /\ results' \in [Worker -> Seq(Message)]
             /\ DOMAIN cpu' = Worker /\ DOMAIN gpu' = Worker
  <2>0. ModelLoaded(m) \in Message
    BY DEF Message
  <2>1. Append(results[w], ModelLoaded(m)) \in Seq(Message)
    BY <2>0
  <2> QED
    BY <1>9, <2>1 DEF MoveAndRespond
<1>10. ASSUME NEW w \in Worker, Handle(w)
       PROVE  Typed'
  <2>1. Head(handlers[w]) \in Loaded /\ Tail(handlers[w]) \in Seq(Loaded)
    BY <1>10 DEF Handle
  <2>2. CASE NeedNotWait(w)
    <3>1. MoveAndRespond(w, Head(handlers[w])) /\ UNCHANGED missed
      BY <1>10, <2>2 DEF Handle
    <3> QED
      BY <1>9, <1>10, <2>1, <3>1 DEF Handle
  <2>3. CASE ~NeedNotWait(w)
    <3>1. <<Head(handlers[w])>> \in Seq(Loaded)
      BY <2>1
    <3> QED
      BY <1>10, <2>1, <2>3, <3>1 DEF Handle
  <2> QED
    BY <2>2, <2>3
<1>11. ASSUME NEW w \in Worker, HandlerWaits(w)
       PROVE  Typed'
  <2> DEFINE future == [model |-> Head(missed[w]), done |-> FALSE, late |-> eventSet[w]]
  <2>1. Head(missed[w]) \in Loaded /\ <<>> \in Seq(Loaded)
    BY <1>11 DEF HandlerWaits
  <2>2. future \in Waiter
    BY <2>1 DEF Waiter
  <2>3. Append(waiters[w], future) \in Seq(Waiter)
    BY <2>2
  <2>4. /\ waiters' = [waiters EXCEPT ![w] = Append(waiters[w], future)]
        /\ missed' = [missed EXCEPT ![w] = <<>>]
        /\ mutated' = [mutated EXCEPT ![w] = process[w] = "wake"]
        /\ UNCHANGED <<server, next, toSend, inbox, results, up, handlers, eventSet, process,
                       iterated, cpu, gpu, taskQueue>>
    BY <1>11 DEF HandlerWaits, Mutate
  <2> HIDE DEF future
  <2> QED
    BY <2>1, <2>3, <2>4
<1>12. ASSUME NEW w \in Worker, HandlerResumes(w)
       PROVE  Typed'
  <2>1. PICK j \in DOMAIN waiters[w] :
            /\ waiters' = [waiters EXCEPT ![w] = RemoveAt(waiters[w], j)]
            /\ MoveAndRespond(w, waiters[w][j].model)
    BY <1>12 DEF HandlerResumes
  <2>2. waiters[w][j] \in Waiter
    OBVIOUS
  <2>3. waiters[w][j].model \in Loaded /\ RemoveAt(waiters[w], j) \in Seq(Waiter)
    BY <2>2, RemoveAtType DEF Waiter
  <2>4. /\ mutated' = [mutated EXCEPT ![w] = process[w] = "wake"]
        /\ UNCHANGED <<server, next, toSend, inbox, up, handlers, missed, eventSet, process,
                       iterated, taskQueue>>
    BY <1>12 DEF HandlerResumes, Mutate
  <2> QED
    BY <1>9, <2>1, <2>3, <2>4
<1>13. ASSUME NEW w \in Worker,
              PrefetchModels(w) \/ SetEvent(w) \/ BeginIteration(w)
                  \/ IterationRaises(w) \/ EndIteration(w)
       PROVE  Typed'
  <2>1. CASE PrefetchModels(w)
    BY <2>1 DEF PrefetchModels
  <2>2. CASE SetEvent(w)
    BY <2>2 DEF SetEvent
  <2>3. CASE BeginIteration(w)
    BY <2>3 DEF BeginIteration
  <2>4. CASE IterationRaises(w)
    BY <2>4 DEF IterationRaises
  <2>5. CASE EndIteration(w)
    BY <2>5 DEF EndIteration
  <2> QED
    BY <1>13, <2>1, <2>2, <2>3, <2>4, <2>5
<1>14. ASSUME NEW w \in Worker, WakeWaiter(w)
       PROVE  Typed'
  <2>1. /\ waiters' = [waiters EXCEPT ![w][iterated[w] + 1].done = TRUE]
        /\ iterated' = [iterated EXCEPT ![w] = @ + 1]
        /\ iterated[w] + 1 \in 1 .. Len(waiters[w])
    BY <1>14 DEF WakeWaiter, WakeNext
  <2>2. waiters[w][iterated[w] + 1] \in Waiter
    BY <2>1
  <2>3. [waiters[w][iterated[w] + 1] EXCEPT !.done = TRUE] \in Waiter
    BY <2>2 DEF Waiter
  <2>4. waiters'[w] = [waiters[w] EXCEPT ![iterated[w] + 1]
                          = [waiters[w][iterated[w] + 1] EXCEPT !.done = TRUE]]
    BY <2>1
  <2>5. waiters'[w] \in Seq(Waiter)
    BY <2>1, <2>3, <2>4
  <2>6. waiters' \in [Worker -> Seq(Waiter)]
    BY <2>1, <2>5
  <2>7. iterated' \in [Worker -> Nat]
    BY <2>1
  <2>8. UNCHANGED <<server, next, toSend, inbox, results, up, handlers, missed, eventSet,
                    process, mutated, cpu, gpu, taskQueue>>
    BY <1>14 DEF WakeWaiter
  <2> QED
    BY <2>6, <2>7, <2>8
<1>15. ASSUME NEW w \in Worker, NEW r \in Request, Dispatch(r, w)
       PROVE  Typed'
  <2>0. [type |-> "task", request |-> r] \in Message
    BY DEF Message
  <2>1. Append(inbox[w], [type |-> "task", request |-> r]) \in Seq(Message)
    BY <2>0
  <2> QED
    BY <1>15, <2>1 DEF Dispatch
<1>16. ASSUME NEW w \in Worker, ProcessTask(w)
       PROVE  Typed'
  <2>1. Head(taskQueue[w]) \in TaskMessage /\ Tail(taskQueue[w]) \in Seq(TaskMessage)
    BY <1>16 DEF ProcessTask
  <2>2. [type |-> "task_complete", request |-> Head(taskQueue[w]).request] \in Message
    BY <2>1 DEF Message, TaskMessage
  <2>3. Append(results[w], [type |-> "task_complete", request |-> Head(taskQueue[w]).request])
            \in Seq(Message)
    BY <2>2
  <2> QED
    BY <1>16, <2>1, <2>3 DEF ProcessTask
<1>17. ASSUME NEW w \in Worker, GatherResult(w)
       PROVE  Typed'
  <2>1. results' = [results EXCEPT ![w] = Tail(results[w])] /\ results[w] # <<>>
    BY <1>17 DEF GatherResult
  <2>2. Tail(results[w]) \in Seq(Message)
    BY <2>1
  <2>3. UNCHANGED <<server, next, toSend, inbox, up, handlers, missed, waiters, eventSet,
                    process, iterated, mutated, cpu, gpu, taskQueue>>
    BY <1>17 DEF GatherResult
  <2> QED
    BY <2>1, <2>2, <2>3
<1> QED
  BY <1>1, <1>2, <1>3, <1>4, <1>5, <1>6, <1>7, <1>8, <1>10, <1>11, <1>12, <1>13, <1>14, <1>15,
     <1>16, <1>17, NextSplit
  DEF StartCoordinator, MainThread, ProcessThread

-----------------------------------------------------------------------------
(* The handshake.                                                          *)

\* A step that leaves the messages between the server and the workers alone.
LEMMA HandshakeKept ==
    ASSUME Handshake, server' = server, next' = next, toSend' = toSend, inbox' = inbox,
           results' = results, up' = up,
           server \in {"ping", "receive"} => \A w \in Worker : Untouched(w)'
    PROVE  Handshake'
  BY DEF Handshake, Asked

\* Every step keeps the handshake.
LEMMA HandshakeStep == Typed /\ Handshake /\ [Next]_vars => Handshake'
<1> SUFFICES ASSUME Typed, Handshake, [Next]_vars PROVE Handshake'
    OBVIOUS
<1> USE DEF startupVars, coordinatorVars, mainVars, eventVars
<1>1. CASE UNCHANGED startupVars
  BY <1>1, HandshakeKept DEF Untouched, Handshake
<1>2. CASE SendPings
  <2>1. \A w \in Worker : inbox[w] = <<>> /\ results[w] = <<>> /\ Untouched(w) /\ toSend = <<>>
    BY <1>2 DEF SendPings, Handshake
  <2>2. /\ server' = "receive" /\ next' = 0 /\ inbox' = [w \in Worker |-> Append(inbox[w], Ping)]
        /\ UNCHANGED <<toSend, results, up, handlers, missed, waiters, taskQueue>>
    BY <1>2 DEF SendPings
  <2>3. \A w \in Worker : inbox'[w] = <<Ping>> /\ results'[w] = <<>>
    <3> DEFINE ping == Ping
    <3>1. \A w \in Worker : inbox'[w] = Append(<<>>, ping) /\ results'[w] = <<>>
      BY <2>1, <2>2
    <3> HIDE DEF ping
    <3>2. Append(<<>>, ping) = <<ping>>
      OBVIOUS
    <3> QED
      BY <3>1, <3>2 DEF ping
  <2>4. \A w \in Worker : ~(w < 0) /\ toSend = <<>>
    BY <2>1, StartupAssumption, FS_CardinalityType
  <2>5. \E w \in Worker : TRUE
    BY StartupAssumption
  <2> QED
    BY <2>1, <2>2, <2>3, <2>4, <2>5 DEF Handshake, Asked, Untouched
<1>3. CASE ReceivePong
  <2>1. /\ server = "receive" /\ results[next] # <<>> /\ next \in Worker
        /\ results' = [results EXCEPT ![next] = Tail(results[next])]
        /\ UNCHANGED <<inbox, up, handlers, missed, waiters, taskQueue>>
    BY <1>3 DEF ReceivePong, Typed
  <2>2. \A w \in Worker : Asked(w) /\ Untouched(w)
    BY <2>1 DEF Handshake
  <2>3. inbox[next] = <<>> /\ results[next] = <<Pong>> /\ up[next] = "on"
    BY <2>1, <2>2 DEF Asked
  <2>4. results'[next] = <<>> /\ \A w \in Worker \ {next} : results'[w] = results[w]
    BY <2>1, <2>3 DEF Typed
  <2>5. \A w \in Worker : w < next + 1 <=> w < next \/ w = next
    BY <2>1, Ranks
  <2>6. CASE LastOf(next)
    <3>1. server' = "preload"
      BY <1>3, <2>6 DEF ReceivePong
    <3>2. \A w \in Worker : w < next + 1
      BY <2>1, <2>6, Ranks
    <3>3. \A w \in Worker : up[w] = "on" /\ inbox[w] = <<>> /\ results'[w] = <<>>
      BY <2>2, <2>3, <2>4, <2>5, <3>2 DEF Asked
    <3>4. NoType(<<>>, "ping") /\ NoType(<<>>, "pong")
      BY DEF NoType
    <3> QED
      BY <2>1, <3>1, <3>3, <3>4 DEF Handshake
  <2>7. CASE ~LastOf(next)
    <3>1. server' = "receive" /\ next' = next + 1 /\ toSend' = toSend
      BY <1>3, <2>1, <2>7 DEF ReceivePong
    <3>2. \A w \in Worker : Asked(w)'
      BY <2>1, <2>2, <2>3, <2>4, <2>5, <3>1 DEF Asked
    <3> QED
      BY <2>1, <2>2, <3>1, <3>2 DEF Handshake, Untouched
  <2> QED
    BY <2>6, <2>7
<1>4. CASE SendModelLoading
  <2>1. toSend # <<>> /\ UNCHANGED <<server, results, up>>
    BY <1>4 DEF SendModelLoading
  <2>2. Head(toSend) \in LoadTask
    BY <2>1 DEF Typed
  <2> DEFINE message == ModelLoading(Head(toSend).model)
  <2>3. message \in Message /\ message.type # "ping"
    BY <2>2 DEF Message, Loaded, ModelLoading
  <2>4. inbox' = [inbox EXCEPT ![Head(toSend).to] = Append(inbox[Head(toSend).to], message)]
    BY <1>4 DEF SendModelLoading
  <2>5. server \notin {"ping", "receive"}
    BY <2>1 DEF Handshake
  <2> HIDE DEF message
  <2>6. \A w \in Worker : NoType(inbox[w], "ping") => NoType(inbox'[w], "ping")
    <3> TAKE w \in Worker
    <3>1. inbox'[w] = inbox[w] \/ inbox'[w] = Append(inbox[w], message)
      BY <2>4 DEF Typed
    <3>2. inbox[w] \in Seq(Message)
      BY DEF Typed
    <3>3. NoType(inbox[w], "ping") => NoType(Append(inbox[w], message), "ping")
      BY <2>3, <3>2, NoTypeAppend
    <3> QED
      BY <3>1, <3>3
  <2> QED
    BY <2>1, <2>5, <2>6 DEF Handshake
<1>5. CASE StartServing
  BY <1>5 DEF StartServing, Handshake
<1>6. CASE StopWorkers
  <2>1. /\ server = "serving" /\ server' = "stopped" /\ UNCHANGED <<results, up>>
        /\ inbox' = [w \in Worker |-> Append(inbox[w], Stop)]
    BY <1>6 DEF StopWorkers
  <2>2. Stop \in Message /\ Stop.type # "ping"
    BY DEF Message, Stop
  <2>3. ASSUME NEW w \in Worker
        PROVE  NoType(inbox'[w], "ping")
    <3>1. inbox[w] \in Seq(Message) /\ NoType(inbox[w], "ping")
      BY <2>1 DEF Typed, Handshake
    <3>2. NoType(Append(inbox[w], Stop), "ping")
      BY <2>2, <3>1, NoTypeAppend
    <3> QED
      BY <2>1, <3>2
  <2> QED
    BY <2>1, <2>3 DEF Handshake
<1>7. ASSUME NEW w \in Worker, BringUp(w)
      PROVE  Handshake'
  <2>1. /\ up' = [up EXCEPT ![w] = "on"]
        /\ UNCHANGED <<server, next, toSend, inbox, results, handlers, missed, waiters,
                       taskQueue>>
    BY <1>7 DEF BringUp
  <2>2. \A v \in Worker : up'[v] = up[v] \/ up'[v] = "on"
    BY <2>1 DEF Typed
  <2>3. \A v \in Worker : (Asked(v) => Asked(v)') /\ (Untouched(v) => Untouched(v)')
    BY <2>1, <2>2 DEF Asked, Untouched
  <2> QED
    BY <2>1, <2>2, <2>3 DEF Handshake
<1>8. ASSUME NEW w \in Worker, Receive(w)
      PROVE  Handshake'
  <2>1. /\ up[w] = "on" /\ inbox[w] # <<>> /\ inbox' = [inbox EXCEPT ![w] = Tail(inbox[w])]
        /\ UNCHANGED <<server, next, toSend, missed, waiters>>
    BY <1>8 DEF Receive
  <2>2. server # "ping"
    BY <2>1 DEF Handshake
  <2>3. CASE server = "receive"
    <3>1. inbox[w] = <<Ping>> /\ results[w] = <<>> /\ ~(w < next)
      BY <2>1, <2>3 DEF Handshake, Asked
    <3>2. Head(inbox[w]).type = "ping" /\ inbox'[w] = <<>>
      BY <2>1, <3>1 DEF Typed, Ping
    <3>3. /\ results' = [results EXCEPT ![w] = Append(results[w], Pong)]
          /\ UNCHANGED <<up, handlers, taskQueue>>
      BY <1>8, <3>2 DEF Receive
    <3>4. results'[w] = <<Pong>>
      BY <3>1, <3>3 DEF Typed
    <3>5. \A v \in Worker \ {w} : inbox'[v] = inbox[v] /\ results'[v] = results[v]
      BY <2>1, <3>3 DEF Typed
    <3>6. \A v \in Worker : Asked(v)'
      BY <2>1, <2>3, <3>1, <3>2, <3>3, <3>4, <3>5 DEF Handshake, Asked
    <3> QED
      BY <2>1, <2>3, <3>3, <3>6 DEF Handshake, Untouched
  <2>4. CASE server \in {"preload", "serving", "stopped"}
    <3>1. \A v \in Worker : /\ up[v] # "off" /\ NoType(inbox[v], "ping")
                            /\ NoType(results[v], "pong")
      BY <2>4 DEF Handshake
    <3>2. inbox[w] \in Seq(Message)
      BY DEF Typed
    <3>3. NoType(Tail(inbox[w]), "ping") /\ Head(inbox[w]).type # "ping"
      BY <2>1, <3>1, <3>2, NoTypeTail
    <3>4. results' = results /\ \A v \in Worker : up'[v] # "off"
      BY <1>8, <3>1, <3>3 DEF Receive, Typed
    <3>5. \A v \in Worker : NoType(inbox'[v], "ping")
      BY <2>1, <3>1, <3>3 DEF Typed
    <3> QED
      BY <2>1, <2>4, <3>1, <3>4, <3>5 DEF Handshake
  <2> QED
    BY <2>2, <2>3, <2>4 DEF Typed
<1>9. ASSUME NEW w \in Worker, NEW m \in Loaded, MoveAndRespond(w, m),
             server \notin {"ping", "receive"}, UNCHANGED <<server, inbox, up>>
      PROVE  Handshake'
  <2>1. /\ ModelLoaded(m) \in Message /\ ModelLoaded(m).type # "pong"
        /\ results[w] \in Seq(Message)
    BY DEF Message, ModelLoaded, Typed
  <2>2. NoType(results[w], "pong") => NoType(Append(results[w], ModelLoaded(m)), "pong")
    BY <2>1, NoTypeAppend
  <2>3. \A v \in Worker : NoType(results[v], "pong") => NoType(results'[v], "pong")
    BY <1>9, <2>2 DEF MoveAndRespond, Typed
  <2> QED
    BY <1>9, <2>3 DEF Handshake
<1>10. ASSUME NEW w \in Worker, Handle(w)
       PROVE  Handshake'
  <2>1. /\ handlers[w] # <<>> /\ Head(handlers[w]) \in Loaded
        /\ UNCHANGED <<server, next, toSend, inbox, up, waiters, taskQueue>>
    BY <1>10 DEF Handle, Typed
  <2>2. server \notin {"ping", "receive"}
    BY <2>1 DEF Handshake, Untouched
  <2>3. CASE NeedNotWait(w)
    BY <1>9, <1>10, <2>1, <2>2, <2>3 DEF Handle
  <2>4. CASE ~NeedNotWait(w)
    BY <1>10, <2>1, <2>2, <2>4, HandshakeKept DEF Handle
  <2> QED
    BY <2>3, <2>4
<1>11. ASSUME NEW w \in Worker, HandlerWaits(w)
       PROVE  Handshake'
  <2>1. missed[w] # <<>> /\ UNCHANGED <<server, next, toSend, inbox, results, up>>
    BY <1>11 DEF HandlerWaits
  <2>2. server \notin {"ping", "receive"}
    BY <2>1 DEF Handshake, Untouched
  <2> QED
    BY <2>1, <2>2, HandshakeKept
<1>12. ASSUME NEW w \in Worker, HandlerResumes(w)
       PROVE  Handshake'
  <2>1. PICK j \in DOMAIN waiters[w] : MoveAndRespond(w, waiters[w][j].model)
    BY <1>12 DEF HandlerResumes
  <2>2. waiters[w] # <<>> /\ UNCHANGED <<server, inbox, up>>
    BY <1>12, <2>1 DEF HandlerResumes
  <2>3. server \notin {"ping", "receive"}
    BY <2>2 DEF Handshake, Untouched
  <2>4. waiters[w][j] \in Waiter
    BY DEF Typed
  <2>5. waiters[w][j].model \in Loaded
    BY <2>4 DEF Waiter
  <2> QED
    BY <1>9, <2>1, <2>2, <2>3, <2>5
<1>13. ASSUME NEW w \in Worker,
              PrefetchModels(w) \/ SetEvent(w) \/ BeginIteration(w)
                  \/ IterationRaises(w) \/ EndIteration(w)
       PROVE  Handshake'
  <2>1. UNCHANGED <<server, next, toSend, inbox, results, up, handlers, missed, waiters,
                    taskQueue>>
    BY <1>13 DEF PrefetchModels, SetEvent, BeginIteration, IterationRaises, EndIteration
  <2> QED
    BY <2>1, HandshakeKept DEF Untouched, Handshake
<1>14. ASSUME NEW w \in Worker, WakeWaiter(w)
       PROVE  Handshake'
  <2>1. /\ waiters[w] # <<>> /\ UNCHANGED <<server, next, toSend, inbox, results, up>>
    BY <1>14 DEF WakeWaiter, Typed
  <2>2. server \notin {"ping", "receive"}
    BY <2>1 DEF Handshake, Untouched
  <2> QED
    BY <2>1, <2>2, HandshakeKept
<1>15. ASSUME NEW w \in Worker, NEW r \in Request, Dispatch(r, w)
       PROVE  Handshake'
  <2> DEFINE message == [type |-> "task", request |-> r]
  <2>1. /\ server = "serving" /\ UNCHANGED <<server, results, up>>
        /\ inbox' = [inbox EXCEPT ![w] = Append(inbox[w], message)]
    BY <1>15 DEF Dispatch
  <2>2. message \in Message /\ message.type # "ping" /\ inbox[w] \in Seq(Message)
    BY DEF Message, Typed
  <2> HIDE DEF message
  <2>3. NoType(inbox[w], "ping") => NoType(Append(inbox[w], message), "ping")
    BY <2>2, NoTypeAppend
  <2>4. \A v \in Worker : NoType(inbox[v], "ping") => NoType(inbox'[v], "ping")
    BY <2>1, <2>3 DEF Typed
  <2> QED
    BY <2>1, <2>4 DEF Handshake
<1>16. ASSUME NEW w \in Worker, ProcessTask(w)
       PROVE  Handshake'
  <2> DEFINE message == [type |-> "task_complete", request |-> Head(taskQueue[w]).request]
  <2>1. /\ taskQueue[w] # <<>> /\ UNCHANGED <<server, inbox, up>>
        /\ results' = [results EXCEPT ![w] = Append(results[w], message)]
    BY <1>16 DEF ProcessTask
  <2>2. server \notin {"ping", "receive"}
    BY <2>1 DEF Handshake, Untouched
  <2>3. Head(taskQueue[w]) \in TaskMessage
    BY <2>1 DEF Typed
  <2>4. message \in Message /\ message.type # "pong" /\ results[w] \in Seq(Message)
    BY <2>3 DEF Message, Typed, TaskMessage
  <2> HIDE DEF message
  <2>5. NoType(results[w], "pong") => NoType(Append(results[w], message), "pong")
    BY <2>4, NoTypeAppend
  <2>6. \A v \in Worker : NoType(results[v], "pong") => NoType(results'[v], "pong")
    BY <2>1, <2>5 DEF Typed
  <2> QED
    BY <2>1, <2>2, <2>6 DEF Handshake
<1>17. ASSUME NEW w \in Worker, GatherResult(w)
       PROVE  Handshake'
  <2>1. /\ server = "serving" /\ results[w] # <<>> /\ UNCHANGED <<server, inbox, up>>
        /\ results' = [results EXCEPT ![w] = Tail(results[w])] /\ results[w] \in Seq(Message)
    BY <1>17 DEF GatherResult, Typed
  <2>2. NoType(results[w], "pong") => NoType(Tail(results[w]), "pong")
    BY <2>1, NoTypeTail
  <2>3. \A v \in Worker : NoType(results[v], "pong") => NoType(results'[v], "pong")
    BY <2>1, <2>2 DEF Typed
  <2> QED
    BY <2>1, <2>3 DEF Handshake
<1> QED
  BY <1>1, <1>2, <1>3, <1>4, <1>5, <1>6, <1>7, <1>8, <1>10, <1>11, <1>12, <1>13, <1>14, <1>15,
     <1>16, <1>17, NextSplit
  DEF StartCoordinator, MainThread, ProcessThread

-----------------------------------------------------------------------------
(* The order of the messages to a worker.                                  *)

\* A step that neither sends nor takes such a message.
LEMMA OrderKept ==
    ASSUME Order, server' = server, toSend' = toSend, inbox' = inbox, taskQueue' = taskQueue
    PROVE  Order'
  BY DEF Order

\* Every step keeps the models ahead of the tasks.
LEMMA OrderStep == Typed /\ Handshake /\ Order /\ [Next]_vars => Order'
<1> SUFFICES ASSUME Typed, Handshake, Order, [Next]_vars PROVE Order'
    OBVIOUS
<1> USE DEF startupVars, coordinatorVars, mainVars, eventVars
<1>1. CASE UNCHANGED startupVars
  BY <1>1, OrderKept
<1>2. CASE SendPings
  <2>1. /\ server = "ping" /\ server' = "receive" /\ taskQueue' = taskQueue
        /\ inbox' = [w \in Worker |-> Append(inbox[w], Ping)]
    BY <1>2 DEF SendPings
  <2>2. Ping \in Message /\ Ping.type # "task"
    BY DEF Message, Ping
  <2>3. ASSUME NEW w \in Worker
        PROVE  NoType(inbox'[w], "task") /\ taskQueue'[w] = <<>>
    <3>1. inbox[w] \in Seq(Message) /\ NoType(inbox[w], "task") /\ taskQueue[w] = <<>>
      BY <2>1 DEF Typed, Order, Serves
    <3>2. NoType(Append(inbox[w], Ping), "task")
      BY <2>2, <3>1, NoTypeAppend
    <3> QED
      BY <2>1, <3>1, <3>2
  <2> QED
    BY <2>1, <2>3 DEF Order, Serves
<1>3. CASE ReceivePong
  <2>1. /\ server = "receive" /\ server' \in {"receive", "preload"}
        /\ UNCHANGED <<inbox, taskQueue>>
    BY <1>3 DEF ReceivePong
  <2> QED
    BY <2>1 DEF Order, Serves
<1>4. CASE SendModelLoading
  <2>1. toSend # <<>> /\ UNCHANGED <<server, taskQueue>>
    BY <1>4 DEF SendModelLoading
  <2>2. Head(toSend) \in LoadTask /\ server \notin Serves
    BY <2>1 DEF Typed, Order
  <2> DEFINE message == ModelLoading(Head(toSend).model)
  <2>3. message \in Message /\ message.type # "task"
    BY <2>2 DEF Message, Loaded, ModelLoading
  <2>4. inbox' = [inbox EXCEPT ![Head(toSend).to] = Append(inbox[Head(toSend).to], message)]
    BY <1>4 DEF SendModelLoading
  <2> HIDE DEF message
  <2>5. ASSUME NEW w \in Worker
        PROVE  NoType(inbox'[w], "task")
    <3>1. inbox[w] \in Seq(Message) /\ NoType(inbox[w], "task")
      BY <2>2 DEF Typed, Order
    <3>2. inbox'[w] = inbox[w] \/ inbox'[w] = Append(inbox[w], message)
      BY <2>4 DEF Typed
    <3>3. NoType(Append(inbox[w], message), "task")
      BY <2>3, <3>1, NoTypeAppend
    <3> QED
      BY <3>1, <3>2, <3>3
  <2> QED
    BY <2>1, <2>2, <2>5 DEF Order
<1>5. CASE StartServing
  <2>1. /\ server = "preload" /\ server' = "serving" /\ toSend = <<>> /\ toSend' = toSend
        /\ UNCHANGED <<inbox, taskQueue>>
    BY <1>5 DEF StartServing, ServesWhen
  <2>2. \A w \in Worker : /\ inbox[w] \in Seq(Message) /\ NoType(inbox[w], "task")
                          /\ taskQueue[w] = <<>>
    BY <2>1 DEF Typed, Order, Serves
  <2>3. \A w \in Worker : TasksBehindModels(inbox[w])
    BY <2>2, NoTaskBehind
  <2> QED
    BY <2>1, <2>2, <2>3 DEF Order, Serves
<1>6. CASE StopWorkers
  <2>1. /\ server = "serving" /\ server' = "stopped" /\ UNCHANGED <<taskQueue, toSend>>
        /\ inbox' = [w \in Worker |-> Append(inbox[w], Stop)]
    BY <1>6 DEF StopWorkers
  <2>2. Stop \in Message /\ Stop.type # "model_loading"
    BY DEF Message, Stop
  <2>3. ASSUME NEW w \in Worker
        PROVE  /\ TasksBehindModels(inbox'[w])
               /\ taskQueue[w] # <<>> => NoType(inbox'[w], "model_loading")
    <3>1. inbox[w] \in Seq(Message) /\ TasksBehindModels(inbox[w])
      BY <2>1 DEF Typed, Order, Serves
    <3>2. TasksBehindModels(Append(inbox[w], Stop))
      BY <2>2, <3>1, BehindAppend
    <3>3. taskQueue[w] # <<>> => NoType(inbox[w], "model_loading")
      BY <2>1 DEF Order, Serves
    <3>4. NoType(inbox[w], "model_loading") => NoType(Append(inbox[w], Stop), "model_loading")
      BY <2>2, <3>1, NoTypeAppend
    <3> QED
      BY <2>1, <3>2, <3>3, <3>4
  <2> QED
    BY <2>1, <2>3 DEF Order, Serves
<1>7. ASSUME NEW w \in Worker, Receive(w)
      PROVE  Order'
  <2>1. /\ inbox[w] # <<>> /\ inbox' = [inbox EXCEPT ![w] = Tail(inbox[w])]
        /\ UNCHANGED <<server, toSend>> /\ inbox[w] \in Seq(Message)
    BY <1>7 DEF Receive, Typed
  <2>2. \A v \in Worker \ {w} : inbox'[v] = inbox[v] /\ taskQueue'[v] = taskQueue[v]
    BY <1>7, <2>1 DEF Receive, Typed
  <2>3. taskQueue'[w] = taskQueue[w] \/ Head(inbox[w]).type = "task"
    BY <1>7 DEF Receive
  <2>4. inbox'[w] = Tail(inbox[w])
    BY <2>1 DEF Typed
  <2>5. CASE server \notin Serves
    <3>1. NoType(inbox[w], "task") /\ taskQueue[w] = <<>>
      BY <2>5 DEF Order
    <3>2. NoType(Tail(inbox[w]), "task") /\ Head(inbox[w]).type # "task"
      BY <2>1, <3>1, NoTypeTail
    <3>3. taskQueue'[w] = <<>>
      BY <2>3, <3>1, <3>2
    <3> QED
      BY <2>1, <2>2, <2>4, <2>5, <3>2, <3>3 DEF Order
  <2>6. CASE server \in Serves
    <3>1. /\ TasksBehindModels(inbox[w])
          /\ taskQueue[w] # <<>> => NoType(inbox[w], "model_loading")
      BY <2>6 DEF Order
    <3>2. /\ TasksBehindModels(Tail(inbox[w]))
          /\ Head(inbox[w]).type = "task" => NoType(Tail(inbox[w]), "model_loading")
      BY <2>1, <3>1, BehindTail
    <3>3. NoType(inbox[w], "model_loading") => NoType(Tail(inbox[w]), "model_loading")
      BY <2>1, NoTypeTail
    <3>4. taskQueue'[w] # <<>> => NoType(Tail(inbox[w]), "model_loading")
      BY <2>3, <3>1, <3>2, <3>3
    <3> QED
      BY <2>1, <2>2, <2>4, <2>6, <3>2, <3>4 DEF Order
  <2> QED
    BY <2>5, <2>6
<1>8. ASSUME NEW w \in Worker, NEW r \in Request, Dispatch(r, w)
      PROVE  Order'
  <2> DEFINE message == [type |-> "task", request |-> r]
  <2>1. /\ server = "serving" /\ UNCHANGED <<server, toSend, taskQueue>>
        /\ inbox' = [inbox EXCEPT ![w] = Append(inbox[w], message)]
    BY <1>8 DEF Dispatch
  <2>2. message \in Message /\ message.type # "model_loading" /\ inbox[w] \in Seq(Message)
    BY DEF Message, Typed
  <2> HIDE DEF message
  <2>3. /\ inbox'[w] = Append(inbox[w], message)
        /\ \A v \in Worker \ {w} : inbox'[v] = inbox[v]
    BY <2>1 DEF Typed
  <2>4. TasksBehindModels(inbox[w]) => TasksBehindModels(Append(inbox[w], message))
    BY <2>2, BehindAppend
  <2>5. NoType(inbox[w], "model_loading") => NoType(Append(inbox[w], message), "model_loading")
    BY <2>2, NoTypeAppend
  <2> QED
    BY <2>1, <2>3, <2>4, <2>5 DEF Order, Serves
<1>9. ASSUME NEW w \in Worker, ProcessTask(w)
      PROVE  Order'
  <2>1. /\ taskQueue[w] # <<>> /\ UNCHANGED <<server, toSend, inbox>>
        /\ taskQueue' = [taskQueue EXCEPT ![w] = Tail(taskQueue[w])]
    BY <1>9 DEF ProcessTask
  <2>2. \A v \in Worker : taskQueue'[v] # <<>> => taskQueue[v] # <<>>
    BY <2>1 DEF Typed
  <2>3. server \in Serves
    BY <2>1 DEF Order
  <2> QED
    BY <2>1, <2>2, <2>3 DEF Order
<1>10. ASSUME NEW w \in Worker,
              \/ BringUp(w) \/ Handle(w) \/ HandlerWaits(w) \/ HandlerResumes(w)
              \/ ProcessThread(w) \/ GatherResult(w)
       PROVE  Order'
  <2>1. UNCHANGED <<server, toSend, inbox, taskQueue>>
    BY <1>10 DEF BringUp, Handle, HandlerWaits, HandlerResumes, ProcessThread, PrefetchModels,
                 SetEvent, BeginIteration, IterationRaises, WakeWaiter, EndIteration,
                 GatherResult
  <2> QED
    BY <2>1, OrderKept
<1> QED
  BY <1>1, <1>2, <1>3, <1>4, <1>5, <1>6, <1>7, <1>8, <1>9, <1>10, NextSplit
  DEF StartCoordinator, MainThread

-----------------------------------------------------------------------------
(* The memories of a worker.                                               *)

\* Another message in results[w], or one less.
LEMMA ReportsAppend ==
    ASSUME Typed, NEW w \in Worker, NEW e \in Message, MovedReports(w),
           results'[w] = Append(results[w], e), gpu[w] \subseteq gpu'[w],
           e.type = "model_loading_complete" /\ e.model \in ToSet(Prefetch) => e.model \in gpu'[w]
    PROVE  MovedReports(w)'
<1>1. results[w] \in Seq(Message)
  BY DEF Typed
<1>2. /\ Len(results'[w]) = Len(results[w]) + 1 /\ results'[w][Len(results[w]) + 1] = e
      /\ \A j \in 1 .. Len(results[w]) : results'[w][j] = results[w][j]
      /\ Len(results[w]) \in Nat
  BY <1>1, AppendProperties
<1>3. \A j \in 1 .. Len(results'[w]) : j \in 1 .. Len(results[w]) \/ j = Len(results[w]) + 1
  BY <1>2
<1> QED
  BY <1>2, <1>3 DEF MovedReports

\* Taking a report leaves only true ones.
LEMMA ReportsTail ==
    ASSUME Typed, NEW w \in Worker, results[w] # <<>>, MovedReports(w),
           results'[w] = Tail(results[w]), gpu'[w] = gpu[w]
    PROVE  MovedReports(w)'
<1>1. results[w] \in Seq(Message)
  BY DEF Typed
<1>2. /\ Len(results'[w]) = Len(results[w]) - 1 /\ Len(results[w]) \in Nat
      /\ \A j \in 1 .. Len(results'[w]) :
            j + 1 \in 1 .. Len(results[w]) /\ results'[w][j] = results[w][j + 1]
  BY <1>1
<1> QED
  BY <1>2 DEF MovedReports

\* What Memories(w) depends on.
Unchanged(w) ==
    /\ eventSet'[w] = eventSet[w] /\ process'[w] = process[w]
    /\ up'[w] = up[w] /\ cpu'[w] = cpu[w] /\ gpu'[w] = gpu[w]
    /\ waiters'[w] = waiters[w] /\ results'[w] = results[w]

AllMemories == \A w \in Worker : Memories(w)

\* A step of one worker.
LEMMA MemoriesOthers ==
    ASSUME AllMemories, NEW w \in Worker, \A v \in Worker \ {w} : Unchanged(v), Memories(w)'
    PROVE  AllMemories'
  BY DEF AllMemories, Memories, Unchanged, MovedReports

\* A step that only concerns what a worker reports.
LEMMA MemoriesReports ==
    ASSUME NEW w \in Worker, Memories(w),
           eventSet'[w] = eventSet[w], process'[w] = process[w],
           up'[w] = up[w], cpu'[w] = cpu[w], gpu'[w] = gpu[w], waiters'[w] = waiters[w],
           MovedReports(w)'
    PROVE  Memories(w)'
  BY DEF Memories

\* Every step keeps what a worker has prefetched in its memories.
LEMMA MemoriesStep == Typed /\ AllMemories /\ [Next]_vars => AllMemories'
<1> SUFFICES ASSUME Typed, AllMemories, [Next]_vars PROVE AllMemories'
    OBVIOUS
<1> USE DEF startupVars, coordinatorVars, mainVars, eventVars
<1>0. ASSUME NEW w \in Worker
      PROVE  Memories(w) /\ MovedReports(w) /\ results[w] \in Seq(Message)
  BY DEF AllMemories, Memories, Typed
<1>1. ASSUME UNCHANGED <<eventSet, process, up, cpu, gpu, waiters, results>>
      PROVE  AllMemories'
  BY <1>1 DEF AllMemories, Memories, MovedReports
<1>2. CASE UNCHANGED startupVars \/ SendPings \/ SendModelLoading \/ StartServing \/ StopWorkers
  BY <1>1, <1>2 DEF SendPings, SendModelLoading, StartServing, StopWorkers
<1>3. ASSUME NEW w \in Worker, NEW r \in Request, Dispatch(r, w)
      PROVE  AllMemories'
  BY <1>1, <1>3 DEF Dispatch
<1>4. ASSUME NEW w \in Worker, results[w] # <<>>,
             results' = [results EXCEPT ![w] = Tail(results[w])],
             UNCHANGED <<eventSet, process, up, cpu, gpu, waiters>>
      PROVE  AllMemories'
  <2>1. results'[w] = Tail(results[w]) /\ \A v \in Worker \ {w} : Unchanged(v)
    BY <1>4 DEF Typed, Unchanged
  <2>2. MovedReports(w)'
    BY <1>0, <1>4, <2>1, ReportsTail
  <2>3. Memories(w)'
    BY <1>0, <1>4, <2>2, MemoriesReports
  <2> QED
    BY <2>1, <2>3, MemoriesOthers
<1>5. CASE ReceivePong
  <2>1. /\ next \in Worker /\ results[next] # <<>>
        /\ results' = [results EXCEPT ![next] = Tail(results[next])]
        /\ UNCHANGED <<eventSet, process, up, cpu, gpu, waiters>>
    BY <1>5 DEF ReceivePong, Typed
  <2> QED
    BY <1>4, <2>1
<1>6. ASSUME NEW w \in Worker, GatherResult(w)
      PROVE  AllMemories'
  BY <1>4, <1>6 DEF GatherResult
<1>7. ASSUME NEW w \in Worker, NEW e \in Message, e.type # "model_loading_complete",
             results' = [results EXCEPT ![w] = Append(results[w], e)],
             UNCHANGED <<eventSet, process, up, cpu, gpu, waiters>>
      PROVE  AllMemories'
  <2>1. results'[w] = Append(results[w], e) /\ \A v \in Worker \ {w} : Unchanged(v)
    BY <1>7 DEF Typed, Unchanged
  <2>2. MovedReports(w)'
    BY <1>0, <1>7, <2>1, ReportsAppend
  <2>3. Memories(w)'
    BY <1>0, <1>7, <2>2, MemoriesReports
  <2> QED
    BY <2>1, <2>3, MemoriesOthers
<1>8. ASSUME NEW w \in Worker, ProcessTask(w)
      PROVE  AllMemories'
  <2> DEFINE message == [type |-> "task_complete", request |-> Head(taskQueue[w]).request]
  <2>1. Head(taskQueue[w]) \in TaskMessage
    BY <1>8 DEF ProcessTask, Typed
  <2>2. message \in Message /\ message.type # "model_loading_complete"
    BY <2>1 DEF Message, TaskMessage
  <2>3. /\ results' = [results EXCEPT ![w] = Append(results[w], message)]
        /\ UNCHANGED <<eventSet, process, up, cpu, gpu, waiters>>
    BY <1>8 DEF ProcessTask
  <2> HIDE DEF message
  <2> QED
    BY <1>7, <2>2, <2>3
<1>9. ASSUME NEW w \in Worker, Receive(w)
      PROVE  AllMemories'
  <2>1. UNCHANGED <<eventSet, process, cpu, gpu, waiters>>
    BY <1>9 DEF Receive
  <2>2. CASE Head(inbox[w]).type = "ping"
    <3>1. Pong \in Message /\ Pong.type # "model_loading_complete"
      BY DEF Message, Pong
    <3>2. results' = [results EXCEPT ![w] = Append(results[w], Pong)] /\ up' = up
      BY <1>9, <2>2 DEF Receive
    <3> QED
      BY <1>7, <2>1, <3>1, <3>2
  <2>3. CASE Head(inbox[w]).type \in {"task", "model_loading"}
    BY <1>1, <1>9, <2>1, <2>3 DEF Receive
  <2>4. CASE Head(inbox[w]).type = "stop"
    <3>1. results' = results /\ up' = [up EXCEPT ![w] = "stopping"]
      BY <1>9, <2>4 DEF Receive
    <3>2. \A v \in Worker : up'[v] = up[v] \/ up'[v] = "stopping"
      BY <3>1 DEF Typed
    <3> QED
      BY <2>1, <3>1, <3>2 DEF AllMemories, Memories, MovedReports
  <2> QED
    BY <1>9, <2>2, <2>3, <2>4 DEF Receive
<1>10. ASSUME NEW w \in Worker, BringUp(w)
       PROVE  AllMemories'
  <2>1. up[w] = "off" /\ UNCHANGED <<waiters, results, gpu>> /\ up' = [up EXCEPT ![w] = "on"]
    BY <1>10 DEF BringUp
  <2>2. \A v \in Worker \ {w} : Unchanged(v)
    BY <1>10 DEF BringUp, Typed, Unchanged
  <2>3. process[w] = "off" /\ ~eventSet[w] /\ waiters[w] \in Seq(Future)
    BY <1>0, <2>1 DEF Memories, AfterSet
  <2>4. MovedReports(w)'
    BY <1>0, <2>1 DEF MovedReports
  <2>5. CASE w \in Quick
    <3>1. eventSet'[w] = TRUE /\ process'[w] = "loop" /\ cpu'[w] = ToSet(Prefetch)
      BY <1>10, <2>5 DEF BringUp, Typed
    <3> QED
      BY <2>1, <2>2, <2>4, <3>1, MemoriesOthers DEF Memories, AfterSet, Typed
  <2>6. CASE w \notin Quick
    <3>1. eventSet' = eventSet /\ process'[w] = "prefetch"
      BY <1>10, <2>6 DEF BringUp, Typed
    <3> QED
      BY <2>1, <2>2, <2>3, <2>4, <3>1, MemoriesOthers DEF Memories, AfterSet, Typed
  <2> QED
    BY <2>5, <2>6
<1>11. ASSUME NEW w \in Worker, NEW m \in Loaded, MoveAndRespond(w, m),
              eventSet[w], \A v \in Worker \ {w} : waiters'[v] = waiters[v], UNCHANGED <<eventSet, process, up>>
       PROVE  AllMemories'
  <2>1. /\ results'[w] = Append(results[w], ModelLoaded(m))
        /\ cpu'[w] = cpu[w] \ {m}
        /\ gpu'[w] = IF m \in cpu[w] THEN gpu[w] \cup {m} ELSE gpu[w]
        /\ \A v \in Worker \ {w} : Unchanged(v)
    BY <1>11 DEF MoveAndRespond, Typed, Unchanged
  <2>2. ToSet(Prefetch) \subseteq cpu[w] \cup gpu[w]
    BY <1>0, <1>11 DEF Memories, AfterSet
  <2>3. m \in ToSet(Prefetch) => m \in gpu'[w]
    BY <2>1, <2>2
  <2>4. ModelLoaded(m) \in Message /\ ModelLoaded(m).model = m
    BY DEF Message, ModelLoaded
  <2>5. gpu[w] \subseteq gpu'[w]
    BY <2>1
  <2>6. MovedReports(w)'
    BY <1>0, <2>1, <2>3, <2>4, <2>5, ReportsAppend
  <2>7. ToSet(Prefetch) \subseteq cpu'[w] \cup gpu'[w]
    BY <2>1, <2>2
  <2>8. Memories(w)'
    BY <1>0, <1>11, <2>6, <2>7 DEF Memories, AfterSet
  <2> QED
    BY <2>1, <2>8, MemoriesOthers
<1>12. ASSUME NEW w \in Worker, Handle(w)
       PROVE  AllMemories'
  <2>1. /\ handlers[w] # <<>> /\ Head(handlers[w]) \in Loaded
        /\ UNCHANGED <<up, waiters, eventSet, process>>
    BY <1>12 DEF Handle, Typed
  <2>2. CASE eventSet[w]
    BY <1>11, <1>12, <2>1, <2>2 DEF Handle, NeedNotWait
  <2>3. CASE ~eventSet[w]
    BY <1>1, <1>12, <2>1, <2>3 DEF Handle, NeedNotWait
  <2> QED
    BY <2>2, <2>3
<1>13. ASSUME NEW w \in Worker, HandlerWaits(w)
       PROVE  AllMemories'
  <2> DEFINE future == [model |-> Head(missed[w]), done |-> FALSE, late |-> eventSet[w]]
  <2>1. /\ missed[w] # <<>> /\ waiters' = [waiters EXCEPT ![w] = Append(waiters[w], future)]
        /\ UNCHANGED <<eventSet, process, up, cpu, gpu, results>>
    BY <1>13 DEF HandlerWaits
  <2>2. Head(missed[w]) \in Loaded /\ eventSet[w] \in BOOLEAN
    BY <2>1 DEF Typed
  <2>3. future \in Future
    BY <2>2 DEF Future, Waiter
  <2> HIDE DEF future
  <2>4. waiters[w] \in Seq(Future) => Append(waiters[w], future) \in Seq(Future)
    BY <2>3
  <2>5. waiters'[w] = Append(waiters[w], future) /\ \A v \in Worker \ {w} : Unchanged(v)
    BY <2>1 DEF Typed, Unchanged
  <2>6. MovedReports(w)'
    BY <1>0, <2>1 DEF MovedReports
  <2>7. Memories(w)'
    BY <1>0, <2>1, <2>4, <2>5, <2>6 DEF Memories
  <2> QED
    BY <2>5, <2>7, MemoriesOthers
<1>14. ASSUME NEW w \in Worker, HandlerResumes(w)
       PROVE  AllMemories'
  <2>1. PICK j \in DOMAIN waiters[w] :
            /\ waiters[w][j].done /\ MoveAndRespond(w, waiters[w][j].model)
            /\ waiters' = [waiters EXCEPT ![w] = RemoveAt(waiters[w], j)]
    BY <1>14 DEF HandlerResumes
  <2>2. waiters[w][j] \in Waiter
    BY DEF Typed
  <2>3. waiters[w][j].model \in Loaded
    BY <2>2 DEF Waiter
  <2>4. eventSet[w]
    <3>1. waiters[w] \notin Seq(Future)
      BY <2>1 DEF Future
    <3> QED
      BY <1>0, <3>1 DEF Memories
  <2>5. UNCHANGED <<eventSet, process, up>> /\ \A v \in Worker \ {w} : waiters'[v] = waiters[v]
    BY <1>14, <2>1 DEF HandlerResumes, Typed
  <2> QED
    BY <1>11, <2>1, <2>3, <2>4, <2>5
<1>15. ASSUME NEW w \in Worker, PrefetchModels(w)
       PROVE  AllMemories'
  <2>1. /\ process[w] = "prefetch" /\ process'[w] = "set"
        /\ cpu'[w] = cpu[w] \cup ToSet(Prefetch)
        /\ UNCHANGED <<eventSet, up, gpu, waiters, results>>
        /\ \A v \in Worker \ {w} : Unchanged(v)
    BY <1>15 DEF PrefetchModels, Typed, Unchanged
  <2>2. Memories(w)'
    BY <1>0, <2>1 DEF Memories, AfterSet, MovedReports
  <2> QED
    BY <2>1, <2>2, MemoriesOthers
<1>16. ASSUME NEW w \in Worker, SetEvent(w)
       PROVE  AllMemories'
  <2>1. /\ process[w] = "set" /\ process'[w] = "iterate" /\ eventSet'[w] = TRUE
        /\ UNCHANGED <<up, cpu, gpu, waiters, results>>
        /\ \A v \in Worker \ {w} : Unchanged(v)
    BY <1>16 DEF SetEvent, Typed, Unchanged
  <2>2. Memories(w)'
    BY <1>0, <2>1 DEF Memories, AfterSet, MovedReports
  <2> QED
    BY <2>1, <2>2, MemoriesOthers
<1>17. ASSUME NEW w \in Worker,
              BeginIteration(w) \/ IterationRaises(w) \/ EndIteration(w) \/ WakeWaiter(w)
       PROVE  AllMemories'
  <2>1. /\ process[w] \in AfterSet /\ process'[w] \in AfterSet
        /\ UNCHANGED <<eventSet, up, cpu, gpu, results>>
        /\ \A v \in Worker \ {w} : process'[v] = process[v]
    BY <1>17 DEF BeginIteration, IterationRaises, EndIteration, WakeWaiter, Typed, AfterSet
  <2>2. \A v \in Worker \ {w} : waiters'[v] = waiters[v]
    BY <1>17 DEF BeginIteration, IterationRaises, EndIteration, WakeWaiter, WakeNext, Typed
  <2>3. eventSet[w]
    BY <1>0, <2>1 DEF Memories
  <2>4. Memories(w)'
    BY <1>0, <2>1, <2>3 DEF Memories, MovedReports, AfterSet
  <2> QED
    BY <2>1, <2>2, <2>4, MemoriesOthers DEF Unchanged
<1> QED
  BY <1>2, <1>3, <1>5, <1>6, <1>8, <1>9, <1>10, <1>12, <1>13, <1>14, <1>15, <1>16, <1>17,
     NextSplit
  DEF StartCoordinator, MainThread, ProcessThread

-----------------------------------------------------------------------------
\* The invariant of the startup.
THEOREM Invariant == Spec => []IInv
<1>1. IInv /\ [Next]_vars => IInv'
  BY TypedStep, HandshakeStep, OrderStep, MemoriesStep DEF IInv, AllMemories
<1> QED
  BY InitIInv, <1>1, PTL DEF Spec

\* No request is served before every worker has answered, and no ping or answer
\* is left for the loops of the server (wait_for_workers_ready).
THEOREM AlwaysServesReady == Spec => []ServesReadyWorkers
<1>1. IInv => ServesReadyWorkers
  <2> SUFFICES ASSUME IInv, server \in {"serving", "stopped"}, NEW w \in Worker
               PROVE  /\ up[w] # "off" /\ "ping" \notin Types(inbox[w])
                      /\ "pong" \notin Types(results[w])
    BY DEF ServesReadyWorkers
  <2>1. /\ up[w] # "off" /\ NoType(inbox[w], "ping") /\ NoType(results[w], "pong")
        /\ inbox[w] \in Seq(Message) /\ results[w] \in Seq(Message)
    BY DEF IInv, Handshake, Typed
  <2> QED
    BY <2>1 DEF Types, NoType
<1> QED
  BY <1>1, Invariant, PTL

\* A worker is told of every model to preload before it gets a task
\* (load_models_on_workers, run_scheduler).
THEOREM PreloadsAlwaysFirst == Spec => []PreloadsComeFirst
<1>1. IInv => PreloadsComeFirst
  <2> SUFFICES ASSUME IInv PROVE PreloadsComeFirst
      OBVIOUS
  <2>1. \A w \in Worker : inbox[w] \in Seq(Message) /\ taskQueue[w] \in Seq(TaskMessage)
    BY DEF IInv, Typed
  <2>2. CASE server \notin Serves
    <3>1. \A w \in Worker : NoType(inbox[w], "task") /\ taskQueue[w] = <<>>
      BY <2>2 DEF IInv, Order
    <3>2. \A w \in Worker : "task" \notin Types(inbox[w]) \cup Types(taskQueue[w])
      BY <2>1, <3>1 DEF Types, NoType
    <3> QED
      BY <3>2 DEF PreloadsComeFirst
  <2>3. CASE server \in Serves
    <3>1. toSend = <<>>
      BY <2>3 DEF IInv, Order
    <3>2. ASSUME NEW w \in Worker, taskQueue[w] = <<>>
          PROVE  /\ taskQueue[w] = <<>> /\ \A j \in DOMAIN toSend : toSend[j].to # w
                 /\ \A i, j \in DOMAIN inbox[w] :
                      inbox[w][i].type = "task" /\ inbox[w][j].type = "model_loading" => i > j
      <4>1. TasksBehindModels(inbox[w])
        BY <2>3 DEF IInv, Order
      <4>2. ASSUME NEW i \in DOMAIN inbox[w], NEW j \in DOMAIN inbox[w],
                   inbox[w][i].type = "task", inbox[w][j].type = "model_loading"
            PROVE  i > j
        <5>1. i \in 1 .. Len(inbox[w]) /\ j \in 1 .. Len(inbox[w]) /\ i # j
          BY <2>1, <4>2
        <5>2. ~(i < j)
          BY <4>1, <4>2, <5>1 DEF TasksBehindModels
        <5> QED
          BY <5>1, <5>2
      <4> QED
        BY <3>1, <3>2, <4>2
    <3>3. ASSUME NEW w \in Worker, taskQueue[w] # <<>>
          PROVE  /\ \A j \in DOMAIN toSend : toSend[j].to # w
                 /\ "model_loading" \notin Types(inbox[w])
      <4>1. NoType(inbox[w], "model_loading")
        BY <2>3, <3>3 DEF IInv, Order
      <4> QED
        BY <2>1, <3>1, <4>1 DEF Types, NoType
    <3> QED
      BY <3>2, <3>3 DEF PreloadsComeFirst
  <2> QED
    BY <2>2, <2>3
<1> QED
  BY <1>1, Invariant, PTL

\* A model that is prefetched is on the GPU when the worker reports it, however
\* the two threads of the worker meet at the event (_handle_model_loading).
THEOREM ReportsAlwaysMoved == Spec => []ReportedModelsMoved
<1>1. IInv => ReportedModelsMoved
  <2> SUFFICES ASSUME IInv, NEW w \in Worker, NEW j \in DOMAIN results[w],
                      results[w][j].type = "model_loading_complete",
                      results[w][j].model \in ToSet(Prefetch)
               PROVE  results[w][j].model \in gpu[w]
    BY DEF ReportedModelsMoved
  <2>1. j \in 1 .. Len(results[w]) /\ MovedReports(w)
    BY DEF IInv, Typed, Memories
  <2> QED
    BY <2>1 DEF MovedReports
<1> QED
  BY <1>1, Invariant, PTL
=============================================================================
