--------------------------- MODULE ServingProofs ---------------------------
(***************************************************************************)
(* Theorems about Serving, for every workflow, every number of requests    *)
(* and workers, and both policies: the types, and where the task of a node *)
(* that has been handed out is (with the worker, in a list or a message,   *)
(* in one place only).                                                     *)
(***************************************************************************)
EXTENDS Serving, SequenceTheorems, FiniteSetTheorems, TLAPS

-----------------------------------------------------------------------------
(* Sequences and sets *)

\* The orders of a finite set are sequences of its elements.
LEMMA SetToSeqsType ==
    ASSUME NEW S, IsFiniteSet(S), NEW s \in SetToSeqs(S)
    PROVE  s \in Seq(S)
  <1>1. Cardinality(S) \in Nat
    BY FS_CardinalityType
  <1>2. s \in [1 .. Cardinality(S) -> S]
    BY DEF SetToSeqs
  <1> QED
    BY <1>1, <1>2

\* An element put at a position of a sequence, or taken from one.
LEMMA InsertAtType ==
    ASSUME NEW S, NEW s \in Seq(S), NEW e \in S, NEW i \in 1 .. (Len(s) + 1)
    PROVE  InsertAt(s, i, e) \in Seq(S)
  <1>1. SubSeq(s, 1, i - 1) \in Seq(S)
    BY SubSeqProperties, ElementOfSeq
  <1>2. SubSeq(s, i, Len(s)) \in Seq(S)
    BY SubSeqProperties, ElementOfSeq
  <1> QED
    BY <1>1, <1>2, ConcatProperties DEF InsertAt

LEMMA RemoveAtType ==
    ASSUME NEW S, NEW s \in Seq(S), NEW i \in DOMAIN s
    PROVE  RemoveAt(s, i) \in Seq(S)
  <1>1. SubSeq(s, 1, i - 1) \in Seq(S)
    BY SubSeqProperties, ElementOfSeq
  <1>2. SubSeq(s, i + 1, Len(s)) \in Seq(S)
    BY SubSeqProperties, ElementOfSeq
  <1> QED
    BY <1>1, <1>2, ConcatProperties DEF RemoveAt

\* There are finitely many tasks.
LEMMA TaskFinite == IsFiniteSet(Task)
  <1>1. IsFiniteSet(Request \X Node)
    BY FS_Product, WorkflowAssumption, SchedulingAssumption
  <1> DEFINE f == [p \in Request \X Node |-> [req |-> p[1], node |-> p[2]]]
  <1>2. f \in Surjection(Request \X Node, Task)
    <2>1. f \in [Request \X Node -> Task]
      BY DEF Task
    <2>2. \A t \in Task : \E p \in Request \X Node : f[p] = t
      <3> TAKE t \in Task
      <3>1. <<t.req, t.node>> \in Request \X Node
        BY DEF Task
      <3>2. f[<<t.req, t.node>>] = t
        BY <3>1 DEF Task
      <3> QED
        BY <3>1, <3>2
    <2> QED
      BY <2>1, <2>2 DEF Surjection
  <1> QED
    BY <1>1, <1>2, FS_Surjection

-----------------------------------------------------------------------------
(* Types *)

\* The callbacks the loops and the requests create, the groups sent apart.
Created == { c \in Callback : c.cb # "dispatch" }

Notice == { c \in Created : c.cb = "notify" }

\* What the values made by the actions are made of.
LEMMA CallbackTypes ==
    /\ \A l \in Loops : [cb |-> l] \in Created
    /\ \A r \in Request : [cb |-> "start", req |-> r] \in Created
    /\ \A r \in Request : [cb |-> "wake", req |-> r] \in Created
    /\ \A t \in Task : [cb |-> "put", task |-> t] \in Created
    /\ \A t \in Task : [cb |-> "free", task |-> t] \in Created
    /\ \A r \in Request, T \in SUBSET Tensor, w \in Worker :
         [cb |-> "notify", req |-> r, tensors |-> T, src |-> w] \in Created
    /\ \A g \in Seq(Task), w \in Worker :
         [cb |-> "dispatch", group |-> g, dst |-> w] \in Callback
  BY DEF Created, Callback, Loops

\* Sequences of created callbacks are sequences of callbacks.
LEMMA CreatedCallbacks == Seq(Created) \subseteq Seq(Callback)
  <1>1. Created \subseteq Callback
    BY DEF Created
  <1> QED
    BY <1>1, SeqMonotonic

LEMMA CallbackFields ==
    ASSUME NEW c \in Callback
    PROVE  /\ c.cb \in {"start", "wake", "notify"} => c.req \in Request
           /\ c.cb \in {"put", "free"} => c.task \in Task
           /\ c.cb = "notify" => c.tensors \subseteq Tensor /\ c.src \in Worker
           /\ c.cb = "dispatch" => c.group \in Seq(Task) /\ c.dst \in Worker
  BY DEF Callback

LEMMA ResultMessageFields ==
    ASSUME NEW m \in ResultMessage
    PROVE  /\ m.type = "tensor_batch_ready" => m.buffers \subseteq Buffer
           /\ m.type = "task_complete" => m.data \in Seq(Response)
  BY DEF ResultMessage

\* Every state of the initial predicate has its type.
LEMMA InitType == Init => TypeOK
  <1> SUFFICES ASSUME Init PROVE TypeOK
    OBVIOUS
  <1> USE DEF Init
  <1>1. PolicyTypeOK
    BY DEF CoordinatorInit, PolicyInit, PolicyTypeOK
  <1>2. CoordinatorTypeOK
    <2>1. ready \in Seq(Callback) /\ Len(ready) = 2
      <3>1. ready = <<[cb |-> "scheduler"], [cb |-> "gather"]>>
        BY DEF CoordinatorInit
      <3>2. [cb |-> "scheduler"] \in Callback /\ [cb |-> "gather"] \in Callback
        BY CallbackTypes DEF Loops, Created
      <3> QED
        BY <3>1, <3>2
    <2>2. results \in [from : Worker, rest : Seq(Response)]
      BY SchedulingAssumption DEF CoordinatorInit
    <2>3. LoopTypeOK /\ RequestTypeOK
      BY <2>1 DEF CoordinatorInit, LoopTypeOK, RequestTypeOK, Loops
    <2>4. ScheduleTypeOK /\ ResultsTypeOK
      BY <2>2 DEF CoordinatorInit, ScheduleTypeOK, ResultsTypeOK
    <2>5. TensorTypeOK /\ ChannelTypeOK
      BY DEF CoordinatorInit, TensorTypeOK, ChannelTypeOK, NoTensors
    <2> QED
      BY <2>3, <2>4, <2>5 DEF CoordinatorTypeOK
  <1>3. WorkerTypeOK
    BY DEF WorkerInit, WorkerTypeOK, Idle
  <1> QED
    BY <1>1, <1>2, <1>3 DEF TypeOK

-----------------------------------------------------------------------------
(* Every step keeps the types *)

\* The parts of the state that keep their value keep their type.
LEMMA UnchangedTypes ==
    ASSUME TypeOK
    PROVE  /\ UNCHANGED policyVars => PolicyTypeOK'
           /\ UNCHANGED loopVars => LoopTypeOK'
           /\ UNCHANGED requestVars => RequestTypeOK'
           /\ UNCHANGED scheduleVars => ScheduleTypeOK'
           /\ UNCHANGED results => ResultsTypeOK'
           /\ UNCHANGED tensorVars => TensorTypeOK'
           /\ UNCHANGED channelVars => ChannelTypeOK'
           /\ UNCHANGED workerVars => WorkerTypeOK'
  <1> USE DEF TypeOK, CoordinatorTypeOK
  <1>1. UNCHANGED policyVars => PolicyTypeOK'
    BY DEF PolicyTypeOK, policyVars
  <1>2. UNCHANGED loopVars => LoopTypeOK'
    BY DEF LoopTypeOK, loopVars
  <1>3. UNCHANGED requestVars => RequestTypeOK'
    BY DEF RequestTypeOK, requestVars
  <1>4. UNCHANGED scheduleVars => ScheduleTypeOK'
    BY DEF ScheduleTypeOK, scheduleVars
  <1>5. UNCHANGED results => ResultsTypeOK'
    BY DEF ResultsTypeOK
  <1>6. UNCHANGED tensorVars => TensorTypeOK'
    BY DEF TensorTypeOK, tensorVars
  <1>7. UNCHANGED channelVars => ChannelTypeOK'
    BY DEF ChannelTypeOK, channelVars
  <1>8. UNCHANGED workerVars => WorkerTypeOK'
    BY DEF WorkerTypeOK, workerVars
  <1> QED
    BY <1>1, <1>2, <1>3, <1>4, <1>5, <1>6, <1>7, <1>8

\* A callback that runs leaves the loop well typed when what it creates is.
LEMMA RanType ==
    ASSUME TypeOK, NEW cb, Runs(cb), NEW created \in Seq(Callback), Ran(created),
           UNCHANGED timers, mode' \in {"idle", "scheduling", "gathering"}
    PROVE  LoopTypeOK' /\ Head(ready) \in Callback /\ Head(ready).cb = cb
  <1> USE DEF TypeOK, CoordinatorTypeOK, LoopTypeOK
  <1>1. ready \in Seq(Callback) /\ Len(ready) \in Nat /\ ready # <<>>
    BY EmptySeq, LenProperties DEF Runs
  <1>2. /\ Head(ready) \in Callback
        /\ Tail(ready) \in Seq(Callback) /\ Len(Tail(ready)) = Len(ready) - 1
    BY <1>1, HeadTailProperties
  <1>3. /\ ready' \in Seq(Callback)
        /\ Len(ready') = Len(ready) - 1 + Len(created) /\ Len(created) \in Nat
    BY <1>2, ConcatProperties, LenProperties DEF Ran
  <1> QED
    BY <1>1, <1>2, <1>3 DEF Runs, Ran

\* What a turn of the loop puts in the queue.
LEMMA LoopIterationCreates ==
    ASSUME TypeOK, NEW requests \in SUBSET Request, NEW due \in DueTimers,
           LoopIteration(requests, due)
    PROVE  \E created \in Seq(Created) : ready' = ready \o created
  <1>1. due \in Seq(Loops)
    <2>1. PICK S \in SUBSET Loops : due \in SetToSeqs(S)
      BY DEF DueTimers
    <2>2. IsFiniteSet(S)
      <3>1. IsFiniteSet({"scheduler"}) /\ IsFiniteSet({"gather"})
        BY FS_Singleton
      <3>2. Loops = {"scheduler"} \cup {"gather"}
        BY DEF Loops
      <3> QED
        BY <3>1, <3>2, FS_Union, FS_Subset
    <2> QED
      BY <2>1, <2>2, SetToSeqsType, SeqMonotonic
  <1>2. PICK order \in SetToSeqs(requests) :
          ready' = ready \o
              ([i \in DOMAIN order |-> [cb |-> "start", req |-> order[i]]]
               \o [i \in DOMAIN due |-> [cb |-> due[i]]])
    BY DEF LoopIteration
  <1>3. order \in Seq(Request)
    BY <1>2, SetToSeqsType, SeqMonotonic, FS_Subset, SchedulingAssumption
  <1>4. [i \in DOMAIN order |-> [cb |-> "start", req |-> order[i]]] \in Seq(Created)
    BY <1>3, CallbackTypes, LenProperties
  <1>5. [i \in DOMAIN due |-> [cb |-> due[i]]] \in Seq(Created)
    BY <1>1, CallbackTypes, LenProperties
  <1> QED
    BY <1>2, <1>4, <1>5, ConcatProperties

LEMMA LoopIterationType ==
    ASSUME TypeOK, NEW requests \in SUBSET Request, NEW due \in DueTimers,
           LoopIteration(requests, due), UNCHANGED workerVars
    PROVE  TypeOK'
  <1>1. ready' \in Seq(Callback) /\ Len(ready') \in Nat
    BY LoopIterationCreates, CreatedCallbacks, ConcatProperties, LenProperties, ZenonT(60)
       DEF TypeOK, CoordinatorTypeOK, LoopTypeOK
  <1>2. LoopTypeOK'
    BY <1>1, LenProperties
       DEF TypeOK, CoordinatorTypeOK, LoopTypeOK, LoopIteration
  <1>3. RequestTypeOK'
    BY DEF TypeOK, CoordinatorTypeOK, RequestTypeOK, LoopIteration
  <1> QED
    BY <1>2, <1>3, UnchangedTypes DEF LoopIteration, TypeOK, CoordinatorTypeOK

LEMMA StartRequestType ==
    ASSUME TypeOK, StartRequest, UNCHANGED workerVars
    PROVE  TypeOK'
  <1> DEFINE r == Head(ready).req
  <1>1. LoopTypeOK' /\ r \in Request
    BY RanType, CallbackFields, EmptySeq DEF StartRequest, TypeOK, CoordinatorTypeOK, LoopTypeOK
  <1>2. Roots \subseteq Node /\ IsFiniteSet(Roots)
    BY FS_Subset, WorkflowAssumption DEF Roots
  <1>3. RequestTypeOK'
    <2>1. Cardinality({ q \in Request : phase[q] \in {"live", "done"} }) \in Nat
      BY FS_Subset, FS_CardinalityType, SchedulingAssumption
    <2> QED
      BY <1>1, <1>2, <2>1 DEF StartRequest, TypeOK, CoordinatorTypeOK, RequestTypeOK
  <1>4. TensorTypeOK'
    <2>1. \A t \in Tensor : Cardinality(Consumers(t)) \in Nat
      BY FS_Subset, FS_CardinalityType, WorkflowAssumption DEF Consumers
    <2> QED
      BY <1>1, <2>1 DEF StartRequest, TypeOK, CoordinatorTypeOK, TensorTypeOK
  <1>5. ScheduleTypeOK'
    <2>1. PICK order \in SetToSeqs(Roots) :
            readyTasks' = readyTasks \o
                   [i \in DOMAIN order |-> [req |-> r, node |-> order[i]]]
      BY DEF StartRequest
    <2>2. order \in Seq(Node)
      BY <2>1, <1>2, SetToSeqsType, SeqMonotonic
    <2>3. [i \in DOMAIN order |-> [req |-> r, node |-> order[i]]] \in Seq(Task)
      <3>1. \A n \in Node : [req |-> r, node |-> n] \in Task
        BY <1>1 DEF Task
      <3> QED
        BY <2>2, <3>1, LenProperties
    <2> QED
      BY <2>1, <2>3, ConcatProperties
         DEF StartRequest, TypeOK, CoordinatorTypeOK, ScheduleTypeOK
  <1> QED
    BY <1>1, <1>3, <1>4, <1>5, UnchangedTypes DEF StartRequest, TypeOK, CoordinatorTypeOK

LEMMA PutTaskType ==
    ASSUME TypeOK, PutTask, UNCHANGED workerVars
    PROVE  TypeOK'
  <1> DEFINE task == Head(ready).task
             Before == { i \in DOMAIN readyTasks : NotAfter(readyTasks[i], task) }
  <1>1. LoopTypeOK' /\ task \in Task
    BY RanType, CallbackFields, EmptySeq DEF PutTask, TypeOK, CoordinatorTypeOK, LoopTypeOK
  <1>2. readyTasks \in Seq(Task) /\ Len(readyTasks) \in Nat
        /\ DOMAIN readyTasks = 1 .. Len(readyTasks)
    BY LenProperties DEF TypeOK, CoordinatorTypeOK, ScheduleTypeOK
  <1>3. Cardinality(Before) \in 0 .. Len(readyTasks)
    <2>1. IsFiniteSet(1 .. Len(readyTasks))
          /\ Cardinality(1 .. Len(readyTasks)) = Len(readyTasks)
      BY <1>2, FS_Interval
    <2>2. Before \in SUBSET (1 .. Len(readyTasks))
      BY <1>2
    <2> HIDE DEF Before
    <2>3. IsFiniteSet(Before) /\ Cardinality(Before) <= Len(readyTasks)
      BY <2>1, <2>2, FS_Subset
    <2>4. Cardinality(Before) \in Nat
      BY <2>3, FS_CardinalityType
    <2> QED
      BY <1>2, <2>3, <2>4
  <1>4. readyTasks' \in Seq(Task)
    <2>1. readyTasks' = InsertAt(readyTasks, 1 + Cardinality(Before), task)
      BY DEF PutTask, Enqueued
    <2> HIDE DEF Before, task
    <2> QED
      BY <1>1, <1>2, <1>3, <2>1, InsertAtType
  <1>5. ScheduleTypeOK'
    BY <1>4 DEF PutTask, TypeOK, CoordinatorTypeOK, ScheduleTypeOK
  <1> QED
    BY <1>1, <1>5, UnchangedTypes DEF PutTask, TypeOK, CoordinatorTypeOK

LEMMA FinishRequestType ==
    ASSUME TypeOK, FinishRequest, UNCHANGED workerVars
    PROVE  TypeOK'
  <1>1. LoopTypeOK' /\ Head(ready).req \in Request
    BY RanType, CallbackFields, EmptySeq
       DEF FinishRequest, TypeOK, CoordinatorTypeOK, LoopTypeOK
  <1>2. RequestTypeOK'
    BY <1>1 DEF FinishRequest, TypeOK, CoordinatorTypeOK, RequestTypeOK
  <1>3. TensorTypeOK'
    BY <1>1 DEF FinishRequest, TypeOK, CoordinatorTypeOK, TensorTypeOK, NoTensors
  <1> QED
    BY <1>1, <1>2, <1>3, UnchangedTypes DEF FinishRequest, TypeOK, CoordinatorTypeOK

\* What a group tells the worker about a task.
LEMMA EntryForType ==
    ASSUME TypeOK, NEW task \in Task
    PROVE  /\ EntryFor(task) \in Entry /\ LazyMissing(task) \subseteq Tensor
           /\ EntryFor(task).req = task.req /\ EntryFor(task).node = task.node
  <1>1. task.req \in Request /\ task.node \in Node
    BY DEF Task
  <1>2. LazyInputs[task.node] \subseteq Tensor
    BY <1>1, WorkflowAssumption
  <1>3. tensorMap[task.req] \in [Tensor -> SUBSET Worker]
    BY <1>1 DEF TypeOK, CoordinatorTypeOK, TensorTypeOK
  <1> QED
    BY <1>1, <1>2, <1>3 DEF EntryFor, Entry, LazyMissing

LEMMA ScheduleTaskGroupType ==
    ASSUME TypeOK, ScheduleTaskGroup, UNCHANGED workerVars
    PROVE  TypeOK'
  <1> DEFINE g == Head(ready).group
             w == Head(ready).dst
             m == [entries |-> [i \in DOMAIN g |-> EntryFor(g[i])], free |-> freeDict[w]]
  <1>1. LoopTypeOK' /\ g \in Seq(Task) /\ w \in Worker
    BY RanType, CallbackFields, EmptySeq
       DEF ScheduleTaskGroup, TypeOK, CoordinatorTypeOK, LoopTypeOK
  <1>2. \A i \in DOMAIN g : g[i] \in Task
    BY <1>1, ElementOfSeq, LenProperties
  <1>3. m \in TaskMessage
    <2>1. [i \in DOMAIN g |-> EntryFor(g[i])] \in Seq(Entry)
      BY <1>1, <1>2, EntryForType, LenProperties
    <2>2. freeDict[w] \subseteq Buffer
      BY <1>1 DEF TypeOK, CoordinatorTypeOK, TensorTypeOK
    <2> QED
      BY <2>1, <2>2 DEF TaskMessage
  <1>4. ChannelTypeOK'
    <2>1. taskQueue' = [taskQueue EXCEPT ![w] = Append(@, m)]
      BY DEF ScheduleTaskGroup
    <2>2. taskQueue' \in [Worker -> Seq(TaskMessage)]
      BY <1>1, <1>3, <2>1, AppendProperties DEF TypeOK, CoordinatorTypeOK, ChannelTypeOK
    <2> QED
      BY <2>2 DEF ScheduleTaskGroup, TypeOK, CoordinatorTypeOK, ChannelTypeOK
  <1>5. TensorTypeOK'
    <2>1. \A i \in DOMAIN g : g[i].node \in Node
      BY <1>2 DEF Task
    <2>2. lazyDependents' \in [Request -> [Tensor -> SUBSET (Node \X Worker)]]
      BY <1>1, <2>1 DEF ScheduleTaskGroup, TypeOK, CoordinatorTypeOK, TensorTypeOK
    <2> QED
      BY <1>1, <2>2 DEF ScheduleTaskGroup, TypeOK, CoordinatorTypeOK, TensorTypeOK
  <1> QED
    BY <1>1, <1>4, <1>5, UnchangedTypes DEF ScheduleTaskGroup, TypeOK, CoordinatorTypeOK

LEMMA NotifyLazyInputAvailableType ==
    ASSUME TypeOK, NotifyLazyInputAvailable, UNCHANGED workerVars
    PROVE  TypeOK'
  <1> DEFINE r == Head(ready).req
             new == Head(ready).tensors
             src == Head(ready).src
  <1>1. LoopTypeOK' /\ r \in Request /\ new \subseteq Tensor /\ src \in Worker
    BY RanType, CallbackFields, EmptySeq
       DEF NotifyLazyInputAvailable, TypeOK, CoordinatorTypeOK, LoopTypeOK
  <1>2. \A t \in Tensor : lazyDependents[r][t] \subseteq Node \X Worker
    BY <1>1 DEF TypeOK, CoordinatorTypeOK, TensorTypeOK
  <1>3. ChannelTypeOK'
    <2>1. \A t \in new, d \in Node \X Worker :
            [req |-> r, tensor |-> t, src |-> src, node |-> d[1]] \in LazyArrival
      BY <1>1 DEF LazyArrival
    <2>2. lazyQueue' \in [Worker -> SUBSET LazyArrival]
      BY <1>1, <1>2, <2>1
         DEF NotifyLazyInputAvailable, TypeOK, CoordinatorTypeOK, ChannelTypeOK
    <2> QED
      BY <2>2 DEF NotifyLazyInputAvailable, TypeOK, CoordinatorTypeOK, ChannelTypeOK
  <1>4. TensorTypeOK'
    BY <1>1 DEF NotifyLazyInputAvailable, DependentsAfter, TypeOK, CoordinatorTypeOK,
                TensorTypeOK
  <1> QED
    BY <1>1, <1>3, <1>4, UnchangedTypes
       DEF NotifyLazyInputAvailable, TypeOK, CoordinatorTypeOK

LEMMA UpdateFreeTensorDictType ==
    ASSUME TypeOK, UpdateFreeTensorDict, UNCHANGED workerVars
    PROVE  TypeOK'
  <1> DEFINE r == Head(ready).task.req
             n == Head(ready).task.node
  <1>1. LoopTypeOK' /\ r \in Request /\ n \in Node
    BY RanType, CallbackFields, EmptySeq
       DEF UpdateFreeTensorDict, TypeOK, CoordinatorTypeOK, LoopTypeOK, Task
  <1>2. Exhausted(r, n) \subseteq Tensor
    BY <1>1, WorkflowAssumption DEF Exhausted
  <1>3. freeDict' \in [Worker -> SUBSET Buffer]
    BY <1>1, <1>2
       DEF UpdateFreeTensorDict, TypeOK, CoordinatorTypeOK, TensorTypeOK, Buffer
  <1>4. refCount' \in [Request -> [Tensor -> Int]]
    BY <1>1 DEF UpdateFreeTensorDict, TypeOK, CoordinatorTypeOK, TensorTypeOK
  <1>5. TensorTypeOK'
    BY <1>3, <1>4 DEF UpdateFreeTensorDict, TypeOK, CoordinatorTypeOK, TensorTypeOK
  <1> QED
    BY <1>1, <1>5, UnchangedTypes DEF UpdateFreeTensorDict, TypeOK, CoordinatorTypeOK

LEMMA LoopWakeType ==
    ASSUME TypeOK, SchedulerWake \/ GatherWake, UNCHANGED workerVars
    PROVE  TypeOK'
  <1>1. LoopTypeOK'
    BY RanType, EmptySeq DEF SchedulerWake, GatherWake
  <1> QED
    BY <1>1, UnchangedTypes DEF SchedulerWake, GatherWake, TypeOK, CoordinatorTypeOK

\* Callbacks created while a loop runs wait for the next turn.
LEMMA CreatedType ==
    ASSUME TypeOK, NEW created \in Seq(Callback), ready' = ready \o created,
           UNCHANGED <<todo, timers, mode>>
    PROVE  LoopTypeOK'
  <1>1. ready \in Seq(Callback) /\ Len(ready) \in Nat /\ Len(created) \in Nat
    BY LenProperties DEF TypeOK, CoordinatorTypeOK, LoopTypeOK
  <1>2. ready' \in Seq(Callback) /\ Len(ready') = Len(ready) + Len(created)
    BY <1>1, ConcatProperties
  <1> QED
    BY <1>1, <1>2 DEF TypeOK, CoordinatorTypeOK, LoopTypeOK

LEMMA PickFirstTaskType ==
    ASSUME TypeOK, PickFirstTask, UNCHANGED workerVars
    PROVE  TypeOK'
  <1>1. Head(readyTasks) \in Task /\ Tail(readyTasks) \in Seq(Task)
    BY HeadTailProperties DEF PickFirstTask, CanSchedule, TypeOK, CoordinatorTypeOK, ScheduleTypeOK
  <1>2. BatchSize(Head(readyTasks), Tail(readyTasks)) \in Nat
    <2>1. Cardinality(Task) \in Nat
      BY TaskFinite, FS_CardinalityType
    <2> QED
      BY <1>1, <2>1, SchedulingAssumption DEF BatchSize, DynamicBatchSize, ExclusiveBatchSize, Task
  <1>3. ScheduleTypeOK'
    BY <1>1, <1>2 DEF PickFirstTask, ScheduleTypeOK
  <1> QED
    BY <1>3, UnchangedTypes DEF PickFirstTask, TypeOK, CoordinatorTypeOK

LEMMA JoinGroupType ==
    ASSUME TypeOK, JoinGroup, UNCHANGED workerVars
    PROVE  TypeOK'
  <1>1. PICK i \in DOMAIN readyTasks : /\ group' = Append(group, readyTasks[i])
                                       /\ readyTasks' = RemoveAt(readyTasks, i)
    BY DEF JoinGroup
  <1>2. readyTasks[i] \in Task
    BY ElementOfSeq, LenProperties DEF TypeOK, CoordinatorTypeOK, ScheduleTypeOK
  <1>3. ScheduleTypeOK'
    BY <1>1, <1>2, RemoveAtType, AppendProperties
       DEF JoinGroup, TypeOK, CoordinatorTypeOK, ScheduleTypeOK
  <1> QED
    BY <1>3, UnchangedTypes DEF JoinGroup, TypeOK, CoordinatorTypeOK

LEMMA AssignGroupType ==
    ASSUME TypeOK, AssignGroup, UNCHANGED workerVars
    PROVE  TypeOK'
  <1>1. group \in Seq(Task) /\ group[1] \in Task /\ group[1].req \in Request
    <2>1. group \in Seq(Task) /\ Len(group) \in Nat \ {0}
      BY EmptySeq DEF AssignGroup, TypeOK, CoordinatorTypeOK, ScheduleTypeOK
    <2>2. group[1] \in Task
      BY <2>1, ElementOfSeq
    <2> QED
      BY <2>1, <2>2 DEF Task
  <1>2. PICK w \in Worker :
          /\ SelectWorkerForTaskGroup(group[1], w)
          /\ ready' = Append(ready, [cb |-> "dispatch", group |-> group, dst |-> w])
    BY DEF AssignGroup
  <1>3. PolicyTypeOK'
    <2>1. CASE IsPinned(group[1])
      BY <1>1, <1>2, <2>1 DEF SelectWorkerForTaskGroup, TypeOK, PolicyTypeOK
    <2>2. CASE ~IsPinned(group[1])
      <3>1. group[1] \in Task /\ group[1].req \in Request /\ PolicyTypeOK
        BY <1>1 DEF TypeOK
      <3>2. /\ PolicySelects(group[1], w)
            /\ taskGroup' = [taskGroup EXCEPT ![w] = @ \cup {group[1]}]
            /\ pinned' = IF group[1].node \in SchedulerOp
                         THEN [pinned EXCEPT ![group[1].req] = w]
                         ELSE pinned
        BY <1>2, <2>2 DEF SelectWorkerForTaskGroup
      <3>3. taskGroup' \in [Worker -> SUBSET Task] /\ pinned' \in [Request -> Worker \cup {None}]
        BY <3>1, <3>2 DEF PolicyTypeOK
      <3>4. CASE Policy = "DYNAMIC"
        <4>1. /\ estimated' = [estimated EXCEPT ![w] = @ \cup {group[1]}]
              /\ UNCHANGED <<owner, assigned>>
          BY <3>2, <3>4 DEF PolicySelects, DynamicSelects
        <4> QED
          BY <3>1, <3>3, <4>1 DEF PolicyTypeOK
      <3>5. CASE Policy # "DYNAMIC"
        <4>1. ExclusiveSelects(group[1], w)
          BY <3>2, <3>5 DEF PolicySelects
        <4>2. CASE assigned[group[1].req] # None
          BY <3>1, <3>3, <4>1, <4>2 DEF ExclusiveSelects, PolicyTypeOK
        <4>3. CASE assigned[group[1].req] = None
          BY <3>1, <3>3, <4>1, <4>3 DEF ExclusiveSelects, PolicyTypeOK
        <4> QED
          BY <4>2, <4>3
      <3> QED
        BY <3>4, <3>5
    <2> QED
      BY <2>1, <2>2
  <1>4. LoopTypeOK'
    <2> DEFINE c == [cb |-> "dispatch", group |-> group, dst |-> w]
    <2>1. c \in Callback /\ <<c>> \in Seq(Callback)
      BY <1>1, CallbackTypes
    <2>2. ready' = ready \o <<c>>
      BY <1>2, <2>1, AppendIsConcat DEF TypeOK, CoordinatorTypeOK, LoopTypeOK
    <2> QED
      BY <2>1, <2>2, CreatedType DEF AssignGroup
  <1>5. ScheduleTypeOK'
    BY DEF AssignGroup, TypeOK, CoordinatorTypeOK, ScheduleTypeOK
  <1> QED
    BY <1>3, <1>4, <1>5, UnchangedTypes
       DEF AssignGroup, TypeOK, CoordinatorTypeOK, channelVars, tensorVars, requestVars

LEMMA LoopSleepType ==
    ASSUME TypeOK, SchedulerSleep \/ GatherSleep, UNCHANGED workerVars
    PROVE  TypeOK'
  <1>1. LoopTypeOK'
    BY DEF SchedulerSleep, GatherSleep, TypeOK, CoordinatorTypeOK, LoopTypeOK, Loops
  <1> QED
    BY <1>1, UnchangedTypes DEF SchedulerSleep, GatherSleep, TypeOK, CoordinatorTypeOK

\* A result taken from a worker's socket.
LEMMA GathersType ==
    ASSUME TypeOK, NEW w \in Worker, NEW type, Gathers(w, type)
    PROVE  /\ Head(resultQueue[w]) \in ResultMessage
           /\ Head(resultQueue[w]).type = type
           /\ resultQueue' \in [Worker -> Seq(ResultMessage)]
  <1>1. resultQueue[w] \in Seq(ResultMessage) /\ resultQueue[w] # <<>>
    BY DEF Gathers, TypeOK, CoordinatorTypeOK, ChannelTypeOK
  <1> QED
    BY <1>1, HeadTailProperties DEF Gathers, TypeOK, CoordinatorTypeOK, ChannelTypeOK

\* The notifications of a tensor_batch_ready.
LEMMA GatherTensorBatchCreates ==
    ASSUME TypeOK, NEW w \in Worker, GatherTensorBatch(w)
    PROVE  \E created \in Seq(Created) : /\ ready' = ready \o created
                                        /\ created \in Seq(Notice)
  <1> DEFINE buffers == Head(resultQueue[w]).buffers
             Of(r) == { b.tensor : b \in { c \in buffers : c.req = r } }
  <1>1. Gathers(w, "tensor_batch_ready")
    BY DEF GatherTensorBatch
  <1>2. buffers \subseteq Buffer
    BY <1>1, GathersType, ResultMessageFields
  <1>3. \A r \in Request : Of(r) \subseteq Tensor
    BY <1>2 DEF Buffer
  <1>4. PICK order \in SetToSeqs({ b.req : b \in buffers }) :
          ready' = ready \o [i \in DOMAIN order |->
              [cb |-> "notify", req |-> order[i], tensors |-> Of(order[i]), src |-> w]]
    BY DEF GatherTensorBatch
  <1> HIDE DEF buffers
  <1>5. order \in Seq(Request)
    <2>1. { b.req : b \in buffers } \in SUBSET Request
      BY <1>2 DEF Buffer
    <2>2. IsFiniteSet({ b.req : b \in buffers })
      BY <2>1, FS_Subset, SchedulingAssumption
    <2> QED
      BY <1>4, <2>1, <2>2, SetToSeqsType, SeqMonotonic
  <1> HIDE DEF Of
  <1>6. [i \in DOMAIN order |->
          [cb |-> "notify", req |-> order[i], tensors |-> Of(order[i]), src |-> w]]
            \in Seq(Notice)
    <2>1. \A q \in Request :
            [cb |-> "notify", req |-> q, tensors |-> Of(q), src |-> w] \in Notice
      BY <1>3, CallbackTypes DEF Notice
    <2> QED
      BY <1>5, <2>1, LenProperties
  <1>7. Seq(Notice) \subseteq Seq(Created)
    BY SeqMonotonic DEF Notice
  <1> QED
    BY <1>4, <1>6, <1>7

LEMMA GatherTensorBatchType ==
    ASSUME TypeOK, NEW w \in Worker, GatherTensorBatch(w), UNCHANGED workerVars
    PROVE  TypeOK'
  <1>1. Gathers(w, "tensor_batch_ready")
    BY DEF GatherTensorBatch
  <1>2. tensorMap' \in [Request -> [Tensor -> SUBSET Worker]]
    BY DEF GatherTensorBatch, TypeOK, CoordinatorTypeOK, TensorTypeOK
  <1>3. LoopTypeOK'
    BY GatherTensorBatchCreates, CreatedCallbacks, CreatedType DEF GatherTensorBatch
  <1>4. TensorTypeOK' /\ ChannelTypeOK'
    BY <1>1, <1>2, GathersType
       DEF GatherTensorBatch, TypeOK, CoordinatorTypeOK, TensorTypeOK, ChannelTypeOK
  <1> QED
    BY <1>3, <1>4, UnchangedTypes
       DEF GatherTensorBatch, Gathers, TypeOK, CoordinatorTypeOK

LEMMA GatherTaskCompleteType ==
    ASSUME TypeOK, NEW w \in Worker, GatherTaskComplete(w), UNCHANGED workerVars
    PROVE  TypeOK'
  <1> DEFINE data == Head(resultQueue[w]).data
  <1>1. Gathers(w, "task_complete")
    BY DEF GatherTaskComplete
  <1>2. data \in Seq(Response)
    BY <1>1, GathersType, ResultMessageFields
  <1>3. ResultsTypeOK'
    BY <1>2 DEF GatherTaskComplete, ResultsTypeOK
  <1>4. PolicyTypeOK'
    BY DEF GatherTaskComplete, UpdateWorkerStatusAfterCompletion, TypeOK, PolicyTypeOK
  <1>5. ChannelTypeOK'
    BY <1>1, GathersType DEF GatherTaskComplete, TypeOK, CoordinatorTypeOK, ChannelTypeOK
  <1> QED
    BY <1>3, <1>4, <1>5, UnchangedTypes
       DEF GatherTaskComplete, TypeOK, CoordinatorTypeOK

\* The callbacks of one result.
LEMMA GatherTaskCreates ==
    ASSUME TypeOK, GatherTask
    PROVE  \E created \in Seq(Created) : ready' = ready \o created
  <1> DEFINE res == Head(results.rest)
             r == res.req
             n == res.node
             new == NewlyReady(r, n)
  <1>1. /\ results.from \in Worker /\ res \in Response
        /\ Tail(results.rest) \in Seq(Response)
    BY HeadTailProperties DEF GatherTask, TypeOK, CoordinatorTypeOK, ResultsTypeOK
  <1>2. r \in Request /\ n \in Node /\ res.tensors \subseteq Tensor
    BY <1>1 DEF Response
  <1>3. new \in SUBSET Node /\ IsFiniteSet(new)
    BY FS_Subset, WorkflowAssumption DEF NewlyReady, Successors
  <1> DEFINE notify == <<[cb |-> "notify", req |-> r, tensors |-> res.tensors,
                          src |-> results.from]>>
             free == <<[cb |-> "free", task |-> [req |-> r, node |-> n]]>>
             wake == IF IsRequestComplete(r, n) THEN <<[cb |-> "wake", req |-> r]>>
                                                ELSE <<>>
  <1>4. PICK order \in SetToSeqs(new) :
          ready' = ready \o
              (notify \o [i \in DOMAIN order |->
                            [cb |-> "put", task |-> [req |-> r, node |-> order[i]]]]
                      \o free \o wake)
    BY DEF GatherTask
  <1> DEFINE puts == [i \in DOMAIN order |->
                        [cb |-> "put", task |-> [req |-> r, node |-> order[i]]]]
  <1>5. \A m \in Node : [req |-> r, node |-> m] \in Task
    BY <1>2 DEF Task
  <1>6. notify \in Seq(Created) /\ free \in Seq(Created) /\ wake \in Seq(Created)
    <2>1. notify \in Seq(Created)
      <3>1. [cb |-> "notify", req |-> r, tensors |-> res.tensors,
             src |-> results.from] \in Created
        BY <1>1, <1>2, CallbackTypes
      <3> QED
        BY <3>1
    <2>2. free \in Seq(Created)
      BY <1>2, <1>5, CallbackTypes
    <2>3. <<[cb |-> "wake", req |-> r]>> \in Seq(Created) /\ <<>> \in Seq(Created)
      BY <1>2, CallbackTypes
    <2> QED
      BY <2>1, <2>2, <2>3
  <1>7. order \in Seq(Node)
    BY <1>4, <1>3, SetToSeqsType, SeqMonotonic
  <1>8. puts \in Seq(Created)
    <2>1. \A m \in Node : [cb |-> "put", task |-> [req |-> r, node |-> m]] \in Created
      BY <1>5, CallbackTypes
    <2> HIDE DEF r
    <2> QED
      BY <1>7, <2>1, LenProperties
  <1> HIDE DEF notify, free, wake, puts
  <1>9. notify \o puts \o free \o wake \in Seq(Created)
    <2>1. notify \o puts \in Seq(Created)
      BY <1>6, <1>8, ConcatProperties
    <2>2. notify \o puts \o free \in Seq(Created)
      BY <1>6, <2>1, ConcatProperties
    <2> QED
      BY <1>6, <2>2, ConcatProperties
  <1>10. ready' = ready \o (notify \o puts \o free \o wake)
    BY <1>4 DEF puts
  <1> QED
    BY <1>9, <1>10

LEMMA GatherTaskType ==
    ASSUME TypeOK, GatherTask, UNCHANGED workerVars
    PROVE  TypeOK'
  <1> DEFINE res == Head(results.rest)
             r == res.req
             n == res.node
             new == NewlyReady(r, n)
  <1>1. /\ results.from \in Worker /\ res \in Response
        /\ Tail(results.rest) \in Seq(Response)
    BY HeadTailProperties DEF GatherTask, TypeOK, CoordinatorTypeOK, ResultsTypeOK
  <1>2. r \in Request /\ n \in Node /\ res.tensors \subseteq Tensor
    BY <1>1 DEF Response
  <1>3. new \in SUBSET Node /\ IsFiniteSet(new)
    BY FS_Subset, WorkflowAssumption DEF NewlyReady, Successors
  <1>4. ResultsTypeOK'
    BY <1>1 DEF GatherTask, TypeOK, CoordinatorTypeOK, ResultsTypeOK
  <1>5. TensorTypeOK'
    BY <1>1, <1>2 DEF GatherTask, TypeOK, CoordinatorTypeOK, TensorTypeOK
  <1>6. RequestTypeOK'
    BY <1>2, <1>3 DEF GatherTask, TypeOK, CoordinatorTypeOK, RequestTypeOK
  <1>7. PolicyTypeOK'
    <2>1. CleanupRequest(r) => PolicyTypeOK'
      BY <1>2 DEF CleanupRequest, TypeOK, PolicyTypeOK
    <2> QED
      BY <2>1, UnchangedTypes DEF GatherTask
  <1>8. LoopTypeOK'
    BY GatherTaskCreates, CreatedCallbacks, CreatedType DEF GatherTask
  <1> QED
    BY <1>4, <1>5, <1>6, <1>7, <1>8, UnchangedTypes
       DEF GatherTask, TypeOK, CoordinatorTypeOK

LEMMA CoordinatorStepType ==
    ASSUME TypeOK, CoordinatorNext, UNCHANGED workerVars
    PROVE  TypeOK'
  <1>1. ASSUME NEW requests \in SUBSET Request, NEW due \in DueTimers,
               LoopIteration(requests, due)
        PROVE  TypeOK'
    BY <1>1, LoopIterationType
  <1>2. CASE RunCallback
    BY <1>2, StartRequestType, PutTaskType, FinishRequestType, ScheduleTaskGroupType,
       NotifyLazyInputAvailableType, UpdateFreeTensorDictType, LoopWakeType DEF RunCallback
  <1>3. CASE SchedulerStep
    BY <1>3, PickFirstTaskType, JoinGroupType, AssignGroupType, LoopSleepType
       DEF SchedulerStep
  <1>4. ASSUME NEW w \in Worker, GatherTensorBatch(w) \/ GatherTaskComplete(w)
        PROVE  TypeOK'
    BY <1>4, GatherTensorBatchType, GatherTaskCompleteType
  <1>5. CASE GatherTask \/ GatherSleep
    BY <1>5, GatherTaskType, LoopSleepType
  <1> QED
    BY <1>1, <1>2, <1>3, <1>4, <1>5 DEF CoordinatorNext

\* The worker's steps change nothing of the coordinator but the channels.
LEMMA CoordinatorSideTypes ==
    ASSUME TypeOK, UNCHANGED coordinatorSide
    PROVE  /\ PolicyTypeOK' /\ LoopTypeOK' /\ RequestTypeOK' /\ ScheduleTypeOK'
           /\ ResultsTypeOK' /\ TensorTypeOK'
  BY UnchangedTypes DEF coordinatorSide

\* The buffers an entry names.
LEMMA EntryTypes ==
    ASSUME NEW e \in Entry
    PROVE  /\ e.req \in Request /\ e.node \in Node /\ e.lazy \subseteq Tensor
           /\ \A w : Remote(e, w) \subseteq Tensor
           /\ Outputs(e.node) \subseteq Tensor /\ LateOutputs(e) \subseteq Tensor
           /\ \A T \in SUBSET Tensor : BuffersOf(e, T) \subseteq Buffer
  BY DEF Entry, Remote, Outputs, LateOutputs, BuffersOf, Buffer

LEMMA StartGroupType ==
    ASSUME TypeOK, NEW w \in Worker, StartGroup(w)
    PROVE  TypeOK'
  <1> DEFINE entries == Head(taskQueue[w]).entries
             freed == Head(taskQueue[w]).free \cap store[w]
             fetched == OverEntries(entries, LAMBDA e : BuffersOf(e, Remote(e, w)))
             lazy == OverEntries(entries, LAMBDA e : BuffersOf(e, e.lazy))
             yields == OverEntries(entries, LAMBDA e :
                 IF e.node \in Generator THEN BuffersOf(e, Outputs(e.node)) ELSE {})
  <1>1. /\ taskQueue[w] \in Seq(TaskMessage) /\ taskQueue[w] # <<>>
        /\ Head(taskQueue[w]) \in TaskMessage /\ Tail(taskQueue[w]) \in Seq(TaskMessage)
    BY HeadTailProperties DEF StartGroup, TypeOK, CoordinatorTypeOK, ChannelTypeOK
  <1>2. entries \in Seq(Entry) /\ \A i \in DOMAIN entries : entries[i] \in Entry
    BY <1>1, ElementOfSeq, LenProperties DEF TaskMessage
  <1>3. fetched \subseteq Buffer
    BY <1>2, EntryTypes DEF OverEntries
  <1>4. lazy \subseteq Buffer
    BY <1>2, EntryTypes DEF OverEntries
  <1>5. yields \subseteq Buffer
    BY <1>2, EntryTypes DEF OverEntries
  <1>6. \A b \in Buffer : Fetches(entries, w, b) \in Nat
    <2>1. IsFiniteSet(1 .. Len(entries)) /\ DOMAIN entries = 1 .. Len(entries)
      BY <1>2, FS_Interval, LenProperties
    <2> HIDE DEF entries
    <2> QED
      BY <2>1, FS_Subset, FS_CardinalityType DEF Fetches
  <1>7. ChannelTypeOK'
    BY <1>1 DEF StartGroup, TypeOK, CoordinatorTypeOK, ChannelTypeOK
  <1>8. store' \in [Worker -> SUBSET Buffer]
    BY <1>3 DEF StartGroup, StoreAfterFree, TypeOK, WorkerTypeOK
  <1>9. arena' \in [Worker -> [Buffer -> Int]]
    <2>1. arena' = [arena EXCEPT ![w] = [b \in Buffer |->
             @[b] - (IF b \in freed THEN 1 ELSE 0) + Fetches(entries, w, b)]]
      BY DEF StartGroup
    <2> HIDE DEF freed, entries
    <2> QED
      BY <1>6, <2>1 DEF TypeOK, WorkerTypeOK
  <1>10. current' \in [Worker -> [entries : Seq(Entry), lazy : SUBSET Buffer,
                                  yields : SUBSET Buffer]]
    <2>1. current' = [current EXCEPT ![w] =
             [entries |-> entries, lazy |-> lazy, yields |-> yields]]
      BY DEF StartGroup
    <2> HIDE DEF entries, lazy, yields
    <2> QED
      BY <1>2, <1>4, <1>5, <2>1 DEF TypeOK, WorkerTypeOK
  <1>11. requestSchedulers' \in [Worker -> SUBSET Request]
    <2>1. \A i \in DOMAIN entries : entries[i].req \in Request
      BY <1>2, EntryTypes
    <2> QED
      BY <2>1 DEF StartGroup, LoadedSchedulers, TypeOK, WorkerTypeOK
  <1>12. WorkerTypeOK'
    BY <1>8, <1>9, <1>10, <1>11 DEF StartGroup, TypeOK, WorkerTypeOK
  <1> QED
    BY <1>7, <1>12, CoordinatorSideTypes DEF StartGroup, TypeOK, CoordinatorTypeOK

LEMMA FetchLazyType ==
    ASSUME TypeOK, NEW w \in Worker, FetchLazy(w)
    PROVE  TypeOK'
  <1>1. PICK m \in lazyQueue[w] :
          LET b == [req |-> m.req, tensor |-> m.tensor]
          IN  /\ lazyQueue' = [lazyQueue EXCEPT ![w] = @ \ {m}]
              /\ received' = [received EXCEPT ![w] = @ \cup {b}]
              /\ arena' = [arena EXCEPT ![w][b] = @ + 1]
              /\ UNCHANGED <<coordinatorSide, taskQueue, resultQueue, current, store,
                             requestSchedulers>>
    BY DEF FetchLazy
  <1>2. [req |-> m.req, tensor |-> m.tensor] \in Buffer
    BY DEF TypeOK, CoordinatorTypeOK, ChannelTypeOK, LazyArrival, Buffer
  <1>3. ChannelTypeOK'
    BY <1>1 DEF TypeOK, CoordinatorTypeOK, ChannelTypeOK
  <1>4. WorkerTypeOK'
    BY <1>1, <1>2 DEF TypeOK, WorkerTypeOK
  <1> QED
    BY <1>1, <1>3, <1>4, CoordinatorSideTypes DEF TypeOK, CoordinatorTypeOK

LEMMA AcquireLazyType ==
    ASSUME TypeOK, NEW w \in Worker, AcquireLazy(w)
    PROVE  TypeOK'
  <1>1. PICK b \in current[w].lazy :
          /\ current' = [current EXCEPT ![w].lazy = @ \ {b}]
          /\ received' = IF b \in store[w] THEN received
                         ELSE [received EXCEPT ![w] = @ \ {b}]
          /\ store' = [store EXCEPT ![w] = @ \cup {b}]
          /\ UNCHANGED <<coordinatorSide, channelVars, arena, requestSchedulers>>
    BY DEF AcquireLazy
  <1>2. b \in Buffer
    BY DEF TypeOK, WorkerTypeOK
  <1>3. WorkerTypeOK'
    BY <1>1, <1>2, ZenonT(60) DEF TypeOK, WorkerTypeOK
  <1> QED
    BY <1>1, <1>3, CoordinatorSideTypes, UnchangedTypes DEF TypeOK, CoordinatorTypeOK

LEMMA AllocatedType ==
    ASSUME TypeOK, NEW w \in Worker, NEW buffers
    PROVE  Allocated(w, buffers) \in [Worker -> [Buffer -> Int]]
  BY DEF Allocated, TypeOK, WorkerTypeOK

LEMMA YieldOutputType ==
    ASSUME TypeOK, NEW w \in Worker, YieldOutput(w)
    PROVE  TypeOK'
  <1>1. PICK buffers \in SUBSET current[w].yields :
          /\ current' = [current EXCEPT ![w].yields = @ \ buffers]
          /\ store' = [store EXCEPT ![w] = @ \cup buffers]
          /\ arena' = Allocated(w, buffers)
          /\ resultQueue' = [resultQueue EXCEPT ![w] = Append(@,
               [type |-> "tensor_batch_ready", buffers |-> buffers])]
          /\ UNCHANGED <<coordinatorSide, taskQueue, lazyQueue, received,
                         requestSchedulers>>
    BY DEF YieldOutput
  <1>2. buffers \subseteq Buffer
    BY DEF TypeOK, WorkerTypeOK
  <1>3. [type |-> "tensor_batch_ready", buffers |-> buffers] \in ResultMessage
    BY <1>2 DEF ResultMessage
  <1>4. ChannelTypeOK'
    BY <1>1, <1>3, AppendProperties DEF TypeOK, CoordinatorTypeOK, ChannelTypeOK
  <1>5. WorkerTypeOK'
    <2>1. arena' \in [Worker -> [Buffer -> Int]]
      <3>1. arena' = Allocated(w, buffers)
        BY <1>1
      <3> QED
        BY <3>1, AllocatedType
    <2>2. current' \in [Worker -> [entries : Seq(Entry), lazy : SUBSET Buffer,
                                   yields : SUBSET Buffer]]
      <3>1. current' = [current EXCEPT ![w].yields = @ \ buffers]
        BY <1>1
      <3> DEFINE G == [entries : Seq(Entry), lazy : SUBSET Buffer, yields : SUBSET Buffer]
      <3>2. current \in [Worker -> G]
        BY DEF TypeOK, WorkerTypeOK
      <3>3. \A Y : [current[w] EXCEPT !.yields = @ \ Y] \in G
        BY <3>2
      <3>4. [current[w] EXCEPT !.yields = @ \ buffers] \in G
        BY <3>3
      <3>5. current' = [v \in Worker |->
                IF v = w THEN [current[w] EXCEPT !.yields = @ \ buffers] ELSE current[v]]
        BY <3>1, <3>2
      <3> HIDE DEF G
      <3>6. current' \in [Worker -> G]
        BY <3>2, <3>4, <3>5
      <3> QED
        BY <3>6 DEF G
    <2>3. store' \in [Worker -> SUBSET Buffer]
      BY <1>1, <1>2 DEF TypeOK, WorkerTypeOK
    <2> QED
      BY <1>1, <2>1, <2>2, <2>3 DEF TypeOK, WorkerTypeOK
  <1> QED
    BY <1>1, <1>4, <1>5, CoordinatorSideTypes DEF TypeOK, CoordinatorTypeOK

LEMMA CompleteGroupType ==
    ASSUME TypeOK, NEW w \in Worker, CompleteGroup(w)
    PROVE  TypeOK'
  <1> DEFINE entries == current[w].entries
             new == OverEntries(entries, LAMBDA e : BuffersOf(e, LateOutputs(e)))
             data == [i \in DOMAIN entries |->
                        [req |-> entries[i].req, node |-> entries[i].node,
                         tensors |-> Reported(entries[i], w)]]
  <1>1. entries \in Seq(Entry)
    BY DEF TypeOK, WorkerTypeOK
  <1>2. \A i \in DOMAIN entries : entries[i] \in Entry
    BY <1>1, ElementOfSeq, LenProperties
  <1>3. new \subseteq Buffer
    BY <1>2, EntryTypes DEF OverEntries
  <1>4. data \in Seq(Response)
    <2>1. \A i \in DOMAIN entries :
            [req |-> entries[i].req, node |-> entries[i].node,
             tensors |-> Reported(entries[i], w)] \in Response
      BY <1>2, EntryTypes DEF Reported, Response
    <2> HIDE DEF entries
    <2> QED
      BY <1>1, <2>1, LenProperties
  <1>5. ChannelTypeOK'
    <2>1. [type |-> "task_complete", data |-> data] \in ResultMessage
      BY <1>4 DEF ResultMessage
    <2>2. resultQueue' = [resultQueue EXCEPT ![w] = Append(@,
             [type |-> "task_complete", data |-> data])]
      BY DEF CompleteGroup
    <2> HIDE DEF data
    <2> QED
      BY <2>1, <2>2, AppendProperties
         DEF CompleteGroup, TypeOK, CoordinatorTypeOK, ChannelTypeOK
  <1>6. WorkerTypeOK'
    <2>1. store' = [store EXCEPT ![w] = @ \cup new] /\ arena' = Allocated(w, new)
      BY DEF CompleteGroup
    <2> HIDE DEF new
    <2>2. arena' \in [Worker -> [Buffer -> Int]]
      BY <2>1, AllocatedType
    <2>3. Idle \in [entries : Seq(Entry), lazy : SUBSET Buffer, yields : SUBSET Buffer]
      BY DEF Idle
    <2>4. current' = [current EXCEPT ![w] = Idle]
      BY DEF CompleteGroup
    <2>5. current' \in [Worker -> [entries : Seq(Entry), lazy : SUBSET Buffer,
                                   yields : SUBSET Buffer]]
      BY <2>3, <2>4 DEF TypeOK, WorkerTypeOK
    <2>6. store' \in [Worker -> SUBSET Buffer]
      BY <1>3, <2>1 DEF TypeOK, WorkerTypeOK
    <2> QED
      BY <2>2, <2>5, <2>6 DEF CompleteGroup, TypeOK, WorkerTypeOK
  <1> QED
    BY <1>5, <1>6, CoordinatorSideTypes DEF CompleteGroup, TypeOK, CoordinatorTypeOK

LEMMA StepType ==
    ASSUME TypeOK, [Next]_vars
    PROVE  TypeOK'
  <1>1. CASE CoordinatorNext /\ UNCHANGED workerVars
    BY <1>1, CoordinatorStepType
  <1>2. CASE WorkerNext
    BY <1>2, StartGroupType, FetchLazyType, AcquireLazyType, YieldOutputType,
       CompleteGroupType DEF WorkerNext
  <1>3. CASE UNCHANGED vars
    BY <1>3, UnchangedTypes DEF vars, coordinatorVars, TypeOK, CoordinatorTypeOK
  <1> QED
    BY <1>1, <1>2, <1>3 DEF Next

\* Every reachable state of the serving system has its type; in particular the
\* event loop never runs a callback that is not in its queue.
THEOREM TypeCorrect == Spec => []TypeOK
  BY InitType, StepType, PTL DEF Spec

-----------------------------------------------------------------------------
(***************************************************************************)
(* No task is lost and none is in two places, for every workflow, every    *)
(* number of requests and workers, and both policies.                      *)
(*                                                                         *)
(* A task is always carried by a list: a callback, the ready list, a       *)
(* group, a message.  The lists are grouped in lanes; every step takes a   *)
(* list, or a task, out of one lane and puts it in another.                *)
(***************************************************************************)

-----------------------------------------------------------------------------
(* Lists of tasks, and lists of lists *)

\* The elements of the lists of L, and that no element occurs twice.
Tasks(L) == UNION { ToSet(L[i]) : i \in DOMAIN L }

Distinct(L) ==
    \A i, k \in DOMAIN L : \A j \in DOMAIN L[i], m \in DOMAIN L[k] :
        L[i][j] = L[k][m] => i = k /\ j = m

\* One list.
LEMMA OneList ==
    ASSUME NEW T, NEW s \in Seq(T)
    PROVE  /\ <<s>> \in Seq(Seq(T)) /\ Tasks(<<s>>) = ToSet(s)
           /\ Distinct(<<s>>) <=> IsInjective(s)
  <1>1. DOMAIN <<s>> = {1} /\ <<s>>[1] = s
    OBVIOUS
  <1> QED
    BY <1>1 DEF Tasks, Distinct, IsInjective

\* No element.
LEMMA NoList ==
    /\ Tasks(<<>>) = {} /\ Distinct(<<>>)
    /\ Tasks(<< <<>> >>) = {} /\ Distinct(<< <<>> >>)
  BY DEF Tasks, Distinct, ToSet

\* The positions of a concatenation are those of its parts.
LEMMA Positions ==
    ASSUME NEW T, NEW s \in Seq(T), NEW t \in Seq(T)
    PROVE  /\ s \o t \in Seq(T)
           /\ DOMAIN s = 1 .. Len(s) /\ Len(s) \in Nat
           /\ DOMAIN t = 1 .. Len(t) /\ Len(t) \in Nat
           /\ DOMAIN (s \o t) = 1 .. (Len(s) + Len(t))
           /\ \A i \in DOMAIN s : (s \o t)[i] = s[i]
           /\ \A i \in DOMAIN t : (s \o t)[Len(s) + i] = t[i]
           /\ \A i \in DOMAIN (s \o t) :
                i \in DOMAIN s \/ (i - Len(s) \in DOMAIN t /\ i = Len(s) + (i - Len(s)))
  BY ConcatProperties, LenProperties

LEMMA JoinedList ==
    ASSUME NEW T, NEW s \in Seq(T), NEW t \in Seq(T)
    PROVE  /\ s \o t \in Seq(T) /\ ToSet(s \o t) = ToSet(s) \cup ToSet(t)
           /\ IsInjective(s \o t) <=>
                IsInjective(s) /\ IsInjective(t) /\ ToSet(s) \cap ToSet(t) = {}
  <1> DEFINE u == s \o t
  <1>1. /\ u \in Seq(T)
        /\ DOMAIN s = 1 .. Len(s) /\ Len(s) \in Nat
        /\ DOMAIN t = 1 .. Len(t) /\ Len(t) \in Nat
        /\ DOMAIN u = 1 .. (Len(s) + Len(t))
        /\ \A i \in DOMAIN s : u[i] = s[i]
        /\ \A i \in DOMAIN t : u[Len(s) + i] = t[i]
        /\ \A i \in DOMAIN u :
             i \in DOMAIN s \/ (i - Len(s) \in DOMAIN t /\ i = Len(s) + (i - Len(s)))
    BY Positions
  <1> HIDE DEF u
  <1>2. ToSet(u) = ToSet(s) \cup ToSet(t)
    <2>1. ToSet(s) \subseteq ToSet(u) /\ ToSet(t) \subseteq ToSet(u)
      BY <1>1, SMTT(60) DEF ToSet
    <2>2. ToSet(u) \subseteq ToSet(s) \cup ToSet(t)
      BY <1>1 DEF ToSet
    <2> QED
      BY <2>1, <2>2
  <1>3. ASSUME IsInjective(u)
        PROVE  IsInjective(s) /\ IsInjective(t) /\ ToSet(s) \cap ToSet(t) = {}
    <2>1. IsInjective(s)
      BY <1>1, <1>3 DEF IsInjective
    <2>2. IsInjective(t)
      <3> SUFFICES ASSUME NEW i \in DOMAIN t, NEW j \in DOMAIN t, t[i] = t[j]
                   PROVE  i = j
        BY DEF IsInjective
      <3>1. /\ Len(s) + i \in DOMAIN u /\ Len(s) + j \in DOMAIN u
            /\ u[Len(s) + i] = u[Len(s) + j]
        BY <1>1
      <3>2. Len(s) + i = Len(s) + j
        BY <1>3, <3>1 DEF IsInjective
      <3> QED
        BY <1>1, <3>2
    <2>3. ASSUME NEW i \in DOMAIN s, NEW j \in DOMAIN t
          PROVE  s[i] # t[j]
      <3>1. /\ i \in DOMAIN u /\ Len(s) + j \in DOMAIN u /\ i # Len(s) + j
            /\ u[i] = s[i] /\ u[Len(s) + j] = t[j]
        BY <1>1
      <3> QED
        BY <1>3, <3>1 DEF IsInjective
    <2> QED
      BY <2>1, <2>2, <2>3 DEF ToSet
  <1>4. ASSUME IsInjective(s), IsInjective(t), ToSet(s) \cap ToSet(t) = {}
        PROVE  IsInjective(u)
    <2> SUFFICES ASSUME NEW i \in DOMAIN u, NEW j \in DOMAIN u, u[i] = u[j]
                 PROVE  i = j
      BY DEF IsInjective
    <2>1. CASE i \in DOMAIN s /\ j \in DOMAIN s
      BY <1>1, <1>4, <2>1 DEF IsInjective
    <2>2. CASE i \notin DOMAIN s /\ j \notin DOMAIN s
      <3>1. t[i - Len(s)] = t[j - Len(s)] /\ i - Len(s) \in DOMAIN t /\ j - Len(s) \in DOMAIN t
        BY <1>1, <2>2
      <3>2. i - Len(s) = j - Len(s)
        BY <1>4, <3>1 DEF IsInjective
      <3> QED
        BY <1>1, <3>2
    <2>3. CASE i \in DOMAIN s /\ j \notin DOMAIN s
      <3>1. u[i] = s[i] /\ u[j] = t[j - Len(s)] /\ j - Len(s) \in DOMAIN t
        BY <1>1, <2>3
      <3> QED
        BY <1>4, <2>3, <3>1 DEF ToSet
    <2>4. CASE i \notin DOMAIN s /\ j \in DOMAIN s
      <3>1. u[j] = s[j] /\ u[i] = t[i - Len(s)] /\ i - Len(s) \in DOMAIN t
        BY <1>1, <2>4
      <3> QED
        BY <1>4, <2>4, <3>1 DEF ToSet
    <2> QED
      BY <2>1, <2>2, <2>3, <2>4
  <1> QED
    BY <1>1, <1>2, <1>3, <1>4 DEF u

LEMMA JoinedLists ==
    ASSUME NEW T, NEW L \in Seq(Seq(T)), NEW M \in Seq(Seq(T))
    PROVE  /\ L \o M \in Seq(Seq(T)) /\ Tasks(L \o M) = Tasks(L) \cup Tasks(M)
           /\ Distinct(L \o M) <=>
                Distinct(L) /\ Distinct(M) /\ Tasks(L) \cap Tasks(M) = {}
  <1> DEFINE N == L \o M
             n == Len(L)
  <1>1. /\ N \in Seq(Seq(T))
        /\ DOMAIN L = 1 .. n /\ n \in Nat
        /\ DOMAIN M = 1 .. Len(M) /\ Len(M) \in Nat
        /\ DOMAIN N = 1 .. (n + Len(M))
        /\ \A i \in DOMAIN L : N[i] = L[i]
        /\ \A i \in DOMAIN M : N[n + i] = M[i]
        /\ \A i \in DOMAIN N :
             i \in DOMAIN L \/ (i - n \in DOMAIN M /\ i = n + (i - n))
    BY Positions, SMTT(60)
  <1> HIDE DEF N, n
  <1>2. Tasks(N) = Tasks(L) \cup Tasks(M)
    <2>1. Tasks(L) \subseteq Tasks(N) /\ Tasks(M) \subseteq Tasks(N)
      <3>1. \A i \in DOMAIN L : i \in DOMAIN N /\ N[i] = L[i]
        BY <1>1
      <3>2. \A i \in DOMAIN M : n + i \in DOMAIN N /\ N[n + i] = M[i]
        BY <1>1
      <3> QED
        BY <3>1, <3>2 DEF Tasks
    <2>2. \A i \in DOMAIN N : ToSet(N[i]) \subseteq Tasks(L) \cup Tasks(M)
      BY <1>1, ZenonT(60) DEF Tasks
    <2>3. Tasks(N) \subseteq Tasks(L) \cup Tasks(M)
      BY <2>2 DEF Tasks
    <2> QED
      BY <2>1, <2>3
  <1>3. ASSUME Distinct(N)
        PROVE  Distinct(L) /\ Distinct(M) /\ Tasks(L) \cap Tasks(M) = {}
    <2>1. Distinct(L)
      <3>1. \A i \in DOMAIN L : i \in DOMAIN N /\ N[i] = L[i]
        BY <1>1
      <3> QED
        BY <1>3, <3>1 DEF Distinct
    <2>2. Distinct(M)
      <3> SUFFICES ASSUME NEW i \in DOMAIN M, NEW k \in DOMAIN M,
                          NEW j \in DOMAIN M[i], NEW m \in DOMAIN M[k], M[i][j] = M[k][m]
                   PROVE  i = k /\ j = m
        BY DEF Distinct
      <3>1. /\ n + i \in DOMAIN N /\ n + k \in DOMAIN N
            /\ N[n + i] = M[i] /\ N[n + k] = M[k]
        BY <1>1, SMTT(60)
      <3>2. n + i = n + k /\ j = m
        BY <1>3, <3>1 DEF Distinct
      <3> QED
        BY <1>1, <3>2
    <2>3. ASSUME NEW i \in DOMAIN L, NEW k \in DOMAIN M
          PROVE  ToSet(L[i]) \cap ToSet(M[k]) = {}
      <3>1. /\ i \in DOMAIN N /\ n + k \in DOMAIN N /\ i # n + k
            /\ N[i] = L[i] /\ N[n + k] = M[k]
        BY <1>1, SMTT(60)
      <3>2. \A j \in DOMAIN L[i], m \in DOMAIN M[k] : L[i][j] # M[k][m]
        BY <1>3, <3>1 DEF Distinct
      <3> QED
        BY <3>2 DEF ToSet
    <2> QED
      BY <2>1, <2>2, <2>3 DEF Tasks
  <1>4. ASSUME Distinct(L), Distinct(M), Tasks(L) \cap Tasks(M) = {}
        PROVE  Distinct(N)
    <2> SUFFICES ASSUME NEW i \in DOMAIN N, NEW k \in DOMAIN N,
                        NEW j \in DOMAIN N[i], NEW m \in DOMAIN N[k], N[i][j] = N[k][m]
                 PROVE  i = k /\ j = m
      BY DEF Distinct
    <2>1. ASSUME NEW p \in DOMAIN L, NEW q \in DOMAIN M,
                 NEW a \in DOMAIN L[p], NEW b \in DOMAIN M[q]
          PROVE  L[p][a] # M[q][b]
      <3>1. L[p][a] \in Tasks(L) /\ M[q][b] \in Tasks(M)
        BY DEF Tasks, ToSet
      <3> QED
        BY <1>4, <3>1
    <2>2. CASE i \in DOMAIN L /\ k \in DOMAIN L
      BY <1>1, <1>4, <2>2 DEF Distinct
    <2>3. CASE i \notin DOMAIN L /\ k \notin DOMAIN L
      <3>1. /\ i - n \in DOMAIN M /\ k - n \in DOMAIN M
            /\ N[i] = M[i - n] /\ N[k] = M[k - n]
        BY <1>1, <2>3
      <3>2. i - n = k - n /\ j = m
        BY <1>4, <3>1 DEF Distinct
      <3> QED
        BY <1>1, <3>2
    <2>4. CASE i \in DOMAIN L /\ k \notin DOMAIN L
      <3>1. N[i] = L[i] /\ N[k] = M[k - n] /\ k - n \in DOMAIN M
        BY <1>1, <2>4
      <3> QED
        BY <2>1, <2>4, <3>1
    <2>5. CASE i \notin DOMAIN L /\ k \in DOMAIN L
      <3>1. N[k] = L[k] /\ N[i] = M[i - n] /\ i - n \in DOMAIN M
        BY <1>1, <2>5
      <3> QED
        BY <2>1, <2>5, <3>1
    <2> QED
      BY <2>2, <2>3, <2>4, <2>5
  <1> QED
    BY <1>1, <1>2, <1>3, <1>4 DEF N

\* A sequence is its head and its tail.
LEMMA Unfolded ==
    ASSUME NEW T, NEW s \in Seq(T), s # <<>>
    PROVE  /\ Head(s) \in T /\ Tail(s) \in Seq(T) /\ <<Head(s)>> \in Seq(T)
           /\ s = <<Head(s)>> \o Tail(s)
  <1>1. /\ Head(s) \in T /\ Tail(s) \in Seq(T) /\ Len(Tail(s)) = Len(s) - 1
        /\ \A i \in 1 .. Len(Tail(s)) : Tail(s)[i] = s[i + 1]
    BY HeadTailProperties
  <1> DEFINE u == <<Head(s)>> \o Tail(s)
  <1>2. <<Head(s)>> \in Seq(T) /\ Len(<<Head(s)>>) = 1 /\ Head(s) = s[1]
    BY <1>1
  <1>3. /\ u \in Seq(T) /\ Len(u) = Len(s)
        /\ \A i \in 1 .. Len(s) : u[i] = s[i]
    BY <1>1, <1>2, ConcatProperties, LenProperties, EmptySeq
  <1> QED
    BY <1>1, <1>2, <1>3, LenProperties

LEMMA TailTask ==
    ASSUME NEW T, NEW s \in Seq(T), s # <<>>, IsInjective(s)
    PROVE  /\ IsInjective(Tail(s)) /\ Head(s) \in ToSet(s)
           /\ ToSet(Tail(s)) = ToSet(s) \ {Head(s)}
  <1> DEFINE h == <<Head(s)>>
             t == Tail(s)
  <1>1. t \in Seq(T) /\ h \in Seq(T) /\ s = h \o t
    BY Unfolded
  <1>2. ToSet(h) = {Head(s)}
    BY DEF ToSet
  <1> HIDE DEF h, t
  <1>3. /\ ToSet(h \o t) = ToSet(h) \cup ToSet(t)
        /\ IsInjective(h \o t) <=>
             IsInjective(h) /\ IsInjective(t) /\ ToSet(h) \cap ToSet(t) = {}
    BY <1>1, JoinedList
  <1>4. /\ ToSet(s) = ToSet(h) \cup ToSet(t)
        /\ IsInjective(t) /\ ToSet(h) \cap ToSet(t) = {}
    BY <1>1, <1>3
  <1> QED
    BY <1>2, <1>4 DEF t

LEMMA AppendTask ==
    ASSUME NEW T, NEW s \in Seq(T), NEW e \in T, IsInjective(s), e \notin ToSet(s)
    PROVE  /\ Append(s, e) \in Seq(T) /\ IsInjective(Append(s, e))
           /\ ToSet(Append(s, e)) = ToSet(s) \cup {e}
  <1> DEFINE h == <<e>>
  <1>1. h \in Seq(T) /\ ToSet(h) = {e} /\ IsInjective(h)
    BY DEF ToSet, IsInjective
  <1>2. Append(s, e) = s \o h
    BY AppendIsConcat
  <1> HIDE DEF h
  <1>3. /\ s \o h \in Seq(T) /\ ToSet(s \o h) = ToSet(s) \cup ToSet(h)
        /\ IsInjective(s \o h) <=>
             IsInjective(s) /\ IsInjective(h) /\ ToSet(s) \cap ToSet(h) = {}
    BY <1>1, JoinedList
  <1> QED
    BY <1>1, <1>2, <1>3

\* A sequence cut in two.
LEMMA Cut ==
    ASSUME NEW T, NEW s \in Seq(T), NEW i \in 1 .. (Len(s) + 1)
    PROVE  /\ SubSeq(s, 1, i - 1) \in Seq(T) /\ SubSeq(s, i, Len(s)) \in Seq(T)
           /\ s = SubSeq(s, 1, i - 1) \o SubSeq(s, i, Len(s))
  <1> DEFINE a == SubSeq(s, 1, i - 1)
             b == SubSeq(s, i, Len(s))
  <1>1. Len(s) \in Nat /\ s \in [1 .. Len(s) -> T]
    BY LenProperties
  <1>2. /\ a \in Seq(T) /\ Len(a) = i - 1
        /\ \A j \in 1 .. (i - 1) : a[j] = s[j]
    BY <1>1, SubSeqProperties
  <1>3. /\ b \in Seq(T) /\ Len(b) = Len(s) - i + 1
        /\ \A j \in 1 .. (Len(s) - i + 1) : b[j] = s[i + j - 1]
    BY <1>1, SubSeqProperties
  <1> HIDE DEF a, b
  <1>4. /\ a \o b \in Seq(T) /\ Len(a \o b) = Len(s)
        /\ \A j \in 1 .. Len(s) :
             (a \o b)[j] = IF j <= i - 1 THEN a[j] ELSE b[j - (i - 1)]
    <2>1. /\ a \o b \in Seq(T) /\ Len(a \o b) = Len(a) + Len(b)
          /\ \A j \in 1 .. Len(a) + Len(b) :
               (a \o b)[j] = IF j <= Len(a) THEN a[j] ELSE b[j - Len(a)]
      BY <1>2, <1>3, ConcatProperties
    <2>2. Len(a) = i - 1 /\ Len(a) + Len(b) = Len(s)
      BY <1>1, <1>2, <1>3
    <2> QED
      BY <2>1, <2>2
  <1>5. \A j \in 1 .. Len(s) : (a \o b)[j] = s[j]
    <2> SUFFICES ASSUME NEW j \in 1 .. Len(s) PROVE (a \o b)[j] = s[j]
      OBVIOUS
    <2>1. CASE j <= i - 1
      BY <1>1, <1>2, <1>4, <2>1
    <2>2. CASE ~(j <= i - 1)
      <3>1. j - (i - 1) \in 1 .. (Len(s) - i + 1) /\ i + (j - (i - 1)) - 1 = j
        BY <1>1, <2>2
      <3> QED
        BY <1>3, <1>4, <2>2, <3>1
    <2> QED
      BY <2>1, <2>2
  <1> DEFINE c == a \o b
  <1>6. c \in [1 .. Len(s) -> T] /\ \A j \in 1 .. Len(s) : c[j] = s[j]
    BY <1>4, <1>5, LenProperties
  <1> HIDE DEF c
  <1>7. c = s
    BY <1>1, <1>6
  <1> QED
    BY <1>2, <1>3, <1>7 DEF a, b, c

LEMMA InsertedTask ==
    ASSUME NEW T, NEW s \in Seq(T), NEW e \in T, NEW i \in 1 .. (Len(s) + 1),
           IsInjective(s), e \notin ToSet(s)
    PROVE  /\ IsInjective(InsertAt(s, i, e))
           /\ ToSet(InsertAt(s, i, e)) = ToSet(s) \cup {e}
  <1> DEFINE a == SubSeq(s, 1, i - 1)
             b == SubSeq(s, i, Len(s))
             h == <<e>>
  <1>1. a \in Seq(T) /\ b \in Seq(T) /\ s = a \o b
    BY Cut
  <1>2. h \in Seq(T) /\ ToSet(h) = {e} /\ IsInjective(h)
    BY DEF ToSet, IsInjective
  <1>3. InsertAt(s, i, e) = a \o h \o b
    BY DEF InsertAt
  <1> HIDE DEF a, b, h
  <1>4. /\ ToSet(a \o b) = ToSet(a) \cup ToSet(b)
        /\ IsInjective(a \o b) <=>
             IsInjective(a) /\ IsInjective(b) /\ ToSet(a) \cap ToSet(b) = {}
    BY <1>1, JoinedList
  <1>5. /\ a \o h \in Seq(T) /\ ToSet(a \o h) = ToSet(a) \cup ToSet(h)
        /\ IsInjective(a \o h) <=>
             IsInjective(a) /\ IsInjective(h) /\ ToSet(a) \cap ToSet(h) = {}
    BY <1>1, <1>2, JoinedList
  <1>6. /\ ToSet(a \o h \o b) = ToSet(a \o h) \cup ToSet(b)
        /\ IsInjective(a \o h \o b) <=>
             IsInjective(a \o h) /\ IsInjective(b) /\ ToSet(a \o h) \cap ToSet(b) = {}
    BY <1>1, <1>5, JoinedList, ZenonT(60)
  <1>7. IsInjective(a) /\ IsInjective(b) /\ ToSet(a) \cap ToSet(b) = {}
        /\ ToSet(s) = ToSet(a) \cup ToSet(b)
    BY <1>1, <1>4
  <1> QED
    BY <1>2, <1>3, <1>5, <1>6, <1>7

LEMMA RemovedTask ==
    ASSUME NEW T, NEW s \in Seq(T), NEW i \in DOMAIN s, IsInjective(s)
    PROVE  /\ IsInjective(RemoveAt(s, i)) /\ s[i] \in ToSet(s)
           /\ ToSet(RemoveAt(s, i)) = ToSet(s) \ {s[i]}
  <1> DEFINE a == SubSeq(s, 1, i - 1)
             b == SubSeq(s, i, Len(s))
             c == SubSeq(s, i + 1, Len(s))
  <1>1. Len(s) \in Nat /\ DOMAIN s = 1 .. Len(s) /\ i \in 1 .. Len(s)
    BY LenProperties
  <1>2. a \in Seq(T) /\ b \in Seq(T) /\ s = a \o b
    <2>1. i \in 1 .. (Len(s) + 1)
      BY <1>1
    <2> QED
      BY <2>1, Cut
  <1>3. c \in Seq(T)
    <2>1. i + 1 \in 1 .. (Len(s) + 1)
      BY <1>1
    <2> QED
      BY <2>1, Cut
  <1>4. /\ Len(b) = Len(s) - i + 1 /\ Len(c) = Len(s) - i
        /\ \A j \in 1 .. (Len(s) - i + 1) : b[j] = s[i + j - 1]
        /\ \A j \in 1 .. (Len(s) - i) : c[j] = s[i + j]
    BY <1>1, SubSeqProperties, SMTT(60)
  <1>5. RemoveAt(s, i) = a \o c
    BY DEF RemoveAt
  <1>6. s[i] \in ToSet(s)
    BY DEF ToSet
  <1> HIDE DEF a, b, c
  <1>7. b # <<>> /\ Head(b) = s[i] /\ Tail(b) = c
    <2>1. b # <<>> /\ Head(b) = b[1] /\ b[1] = s[i]
      BY <1>1, <1>2, <1>4
    <2>2. /\ Tail(b) \in Seq(T) /\ Len(Tail(b)) = Len(c)
          /\ \A j \in 1 .. Len(c) : Tail(b)[j] = c[j]
      <3>1. /\ Tail(b) \in Seq(T) /\ Len(Tail(b)) = Len(b) - 1
            /\ \A j \in 1 .. Len(Tail(b)) : Tail(b)[j] = b[j + 1]
        BY <1>2, <2>1, HeadTailProperties
      <3>2. Len(Tail(b)) = Len(s) - i
        BY <1>1, <1>4, <3>1
      <3>3. ASSUME NEW j \in 1 .. (Len(s) - i)
            PROVE  Tail(b)[j] = c[j]
        <4>1. j + 1 \in 1 .. (Len(s) - i + 1) /\ i + (j + 1) - 1 = i + j
          BY <1>1
        <4> QED
          BY <1>4, <3>1, <3>2, <4>1
      <3> QED
        BY <1>4, <3>1, <3>2, <3>3
    <2> QED
      BY <1>3, <2>1, <2>2, LenProperties
  <1>8. /\ ToSet(a \o b) = ToSet(a) \cup ToSet(b)
        /\ IsInjective(a \o b) <=>
             IsInjective(a) /\ IsInjective(b) /\ ToSet(a) \cap ToSet(b) = {}
    BY <1>2, JoinedList
  <1>9. /\ IsInjective(a) /\ IsInjective(b) /\ ToSet(a) \cap ToSet(b) = {}
        /\ ToSet(s) = ToSet(a) \cup ToSet(b)
    BY <1>2, <1>8
  <1>10. IsInjective(c) /\ s[i] \in ToSet(b) /\ ToSet(c) = ToSet(b) \ {s[i]}
    BY <1>2, <1>7, <1>9, TailTask
  <1>11. /\ ToSet(a \o c) = ToSet(a) \cup ToSet(c)
         /\ IsInjective(a \o c) <=>
              IsInjective(a) /\ IsInjective(c) /\ ToSet(a) \cap ToSet(c) = {}
    BY <1>2, <1>3, JoinedList
  <1> QED
    BY <1>5, <1>6, <1>9, <1>10, <1>11

\* A list taken from the front of a lane, or put at its end.
LEMMA TailLists ==
    ASSUME NEW T, NEW L \in Seq(Seq(T)), L # <<>>, Distinct(L)
    PROVE  /\ Distinct(Tail(L)) /\ ToSet(Head(L)) \subseteq Tasks(L)
           /\ Tasks(Tail(L)) = Tasks(L) \ ToSet(Head(L))
           /\ Head(L) \in Seq(T) /\ IsInjective(Head(L)) /\ Tail(L) \in Seq(Seq(T))
  <1> DEFINE h == <<Head(L)>>
  <1>1. /\ Head(L) \in Seq(T) /\ Tail(L) \in Seq(Seq(T)) /\ h \in Seq(Seq(T))
        /\ L = h \o Tail(L)
    BY Unfolded
  <1>2. Tasks(h) = ToSet(Head(L)) /\ (Distinct(h) <=> IsInjective(Head(L)))
    BY <1>1, OneList
  <1> DEFINE t == Tail(L)
  <1>3. h \in Seq(Seq(T)) /\ t \in Seq(Seq(T))
    BY <1>1
  <1> HIDE DEF h, t
  <1>4. /\ Tasks(h \o t) = Tasks(h) \cup Tasks(t)
        /\ Distinct(h \o t) <=>
             Distinct(h) /\ Distinct(t) /\ Tasks(h) \cap Tasks(t) = {}
    BY <1>3, JoinedLists
  <1> QED
    BY <1>1, <1>2, <1>4 DEF t

LEMMA AppendList ==
    ASSUME NEW T, NEW L \in Seq(Seq(T)), NEW g \in Seq(T), Distinct(L), IsInjective(g),
           Tasks(L) \cap ToSet(g) = {}
    PROVE  /\ Append(L, g) \in Seq(Seq(T)) /\ Distinct(Append(L, g))
           /\ Tasks(Append(L, g)) = Tasks(L) \cup ToSet(g)
  <1> DEFINE h == <<g>>
  <1>1. h \in Seq(Seq(T)) /\ Tasks(h) = ToSet(g) /\ Distinct(h)
    BY OneList
  <1>2. Append(L, g) = L \o h
    BY AppendIsConcat
  <1> HIDE DEF h
  <1>3. /\ L \o h \in Seq(Seq(T)) /\ Tasks(L \o h) = Tasks(L) \cup Tasks(h)
        /\ Distinct(L \o h) <=>
             Distinct(L) /\ Distinct(h) /\ Tasks(L) \cap Tasks(h) = {}
    BY <1>1, JoinedLists
  <1> QED
    BY <1>1, <1>2, <1>3

\* An order of a finite set has each of its elements once.
LEMMA OrderOfSet ==
    ASSUME NEW S, IsFiniteSet(S), NEW order \in SetToSeqs(S)
    PROVE  order \in Seq(S) /\ IsInjective(order) /\ ToSet(order) = S
  <1>1. Cardinality(S) \in Nat
    BY FS_CardinalityType
  <1> DEFINE D == 1 .. Cardinality(S)
  <1>2. order \in [D -> S] /\ \A i, j \in D : i # j => order[i] # order[j]
    BY DEF SetToSeqs
  <1>3. IsFiniteSet(D) /\ Cardinality(D) = Cardinality(S)
    BY <1>1, FS_Interval
  <1>4. IsInjective(order)
    BY <1>2 DEF IsInjective
  <1>5. order \in Injection(D, S)
    BY <1>2, <1>4 DEF Injection
  <1>6. order \in Surjection(D, S)
    BY <1>3, <1>5, FS_Injection
  <1>7. ToSet(order) = S
    BY <1>2, <1>6 DEF Surjection, ToSet
  <1> QED
    BY <1>4, <1>7, SetToSeqsType

-----------------------------------------------------------------------------
(* Lanes *)

Mapped(f, s) == [i \in DOMAIN s |-> f[s[i]]]

Carries(f, S) == { f[x] : x \in S }

LEMMA MappedType ==
    ASSUME NEW S, NEW T, NEW f \in [S -> T], NEW s \in Seq(S)
    PROVE  Mapped(f, s) \in Seq(T)
  <1>1. Len(s) \in Nat /\ DOMAIN s = 1 .. Len(s) /\ \A i \in 1 .. Len(s) : s[i] \in S
    BY LenProperties
  <1>2. Mapped(f, s) = [i \in 1 .. Len(s) |-> f[s[i]]]
    BY <1>1 DEF Mapped
  <1>3. Mapped(f, s) \in [1 .. Len(s) -> T]
    BY <1>1, <1>2
  <1> QED
    BY <1>1, <1>3

LEMMA MappedPoints ==
    ASSUME NEW S, NEW f, NEW s \in Seq(S)
    PROVE  /\ Mapped(f, s) \in Seq(Carries(f, S))
           /\ DOMAIN Mapped(f, s) = DOMAIN s /\ DOMAIN s = 1 .. Len(s)
           /\ Len(Mapped(f, s)) = Len(s) /\ Len(s) \in Nat
  <1> DEFINE T == Carries(f, S)
  <1>1. Len(s) \in Nat /\ DOMAIN s = 1 .. Len(s) /\ \A i \in 1 .. Len(s) : s[i] \in S
    BY LenProperties
  <1>2. Mapped(f, s) = [i \in 1 .. Len(s) |-> f[s[i]]]
    BY <1>1 DEF Mapped
  <1>3. Mapped(f, s) \in [1 .. Len(s) -> T]
    BY <1>1, <1>2 DEF Carries
  <1> HIDE DEF T
  <1>4. Mapped(f, s) \in Seq(T) /\ Len(Mapped(f, s)) = Len(s)
    BY <1>1, <1>3
  <1> QED
    BY <1>1, <1>2, <1>4 DEF T

LEMMA MappedTail ==
    ASSUME NEW S, NEW f, NEW s \in Seq(S), s # <<>>
    PROVE  /\ Mapped(f, s) # <<>> /\ Head(Mapped(f, s)) = f[Head(s)]
           /\ Tail(Mapped(f, s)) = Mapped(f, Tail(s))
  <1> DEFINE T == Carries(f, S)
             t == Tail(s)
             m == Mapped(f, s)
             a == Tail(m)
             b == Mapped(f, t)
  <1>1. /\ m \in Seq(T) /\ Len(m) = Len(s) /\ Len(s) \in Nat
        /\ \A i \in 1 .. Len(s) : m[i] = f[s[i]]
    <2>1. /\ Mapped(f, s) \in Seq(Carries(f, S)) /\ Len(Mapped(f, s)) = Len(s)
          /\ DOMAIN s = 1 .. Len(s) /\ Len(s) \in Nat
      BY MappedPoints
    <2> QED
      BY <2>1 DEF Mapped
  <1>2. Len(s) # 0
    BY EmptySeq
  <1>3. t \in Seq(S) /\ Len(t) = Len(s) - 1 /\ \A i \in 1 .. Len(t) : t[i] = s[i + 1]
    BY HeadTailProperties
  <1> HIDE DEF t, m
  <1>4. /\ b \in Seq(T) /\ Len(b) = Len(t)
        /\ \A i \in 1 .. Len(t) : b[i] = f[t[i]]
    <2>0. t \in Seq(S)
      BY <1>3
    <2>1. /\ Mapped(f, t) \in Seq(Carries(f, S)) /\ Len(Mapped(f, t)) = Len(t)
          /\ DOMAIN t = 1 .. Len(t)
      BY <2>0, MappedPoints
    <2> QED
      BY <2>1 DEF Mapped
  <1> HIDE DEF b, T
  <1>5. m # <<>> /\ Head(m) = f[Head(s)]
    <2>1. m # <<>>
      BY <1>1, <1>2, EmptySeq
    <2>2. Head(m) = m[1] /\ Head(s) = s[1] /\ m[1] = f[s[1]]
      BY <1>1, <1>2, <2>1
    <2> QED
      BY <2>1, <2>2
  <1>6. /\ a \in Seq(T) /\ Len(a) = Len(s) - 1
        /\ \A i \in 1 .. Len(a) : a[i] = m[i + 1]
    BY <1>1, <1>5, HeadTailProperties
  <1> HIDE DEF a
  <1>7. ASSUME NEW i \in 1 .. (Len(s) - 1)
        PROVE  a[i] = b[i]
    <2>1. i + 1 \in 1 .. Len(s)
      BY <1>1
    <2>2. a[i] = m[i + 1] /\ m[i + 1] = f[s[i + 1]]
      BY <1>1, <1>6, <2>1
    <2>3. b[i] = f[t[i]] /\ t[i] = s[i + 1]
      BY <1>3, <1>4
    <2> QED
      BY <2>2, <2>3
  <1>8. a \in [1 .. (Len(s) - 1) -> T] /\ b \in [1 .. (Len(s) - 1) -> T]
    BY <1>3, <1>4, <1>6, LenProperties
  <1>9. a = b
    BY <1>7, <1>8
  <1> QED
    BY <1>5, <1>9 DEF a, b, m, t

LEMMA MappedConcat ==
    ASSUME NEW S, NEW f, NEW s \in Seq(S), NEW t \in Seq(S)
    PROVE  Mapped(f, s \o t) = Mapped(f, s) \o Mapped(f, t)
  <1> DEFINE T == Carries(f, S)
             u == s \o t
             c == Mapped(f, s)
             d == Mapped(f, t)
             a == Mapped(f, u)
             b == c \o d
  <1>1. /\ c \in Seq(T) /\ Len(c) = Len(s) /\ Len(s) \in Nat
        /\ \A i \in 1 .. Len(s) : c[i] = f[s[i]]
    <2>1. /\ Mapped(f, s) \in Seq(Carries(f, S)) /\ Len(Mapped(f, s)) = Len(s)
          /\ DOMAIN s = 1 .. Len(s) /\ Len(s) \in Nat
      BY MappedPoints
    <2> QED
      BY <2>1 DEF Mapped
  <1>2. /\ d \in Seq(T) /\ Len(d) = Len(t) /\ Len(t) \in Nat
        /\ \A i \in 1 .. Len(t) : d[i] = f[t[i]]
    <2>1. /\ Mapped(f, t) \in Seq(Carries(f, S)) /\ Len(Mapped(f, t)) = Len(t)
          /\ DOMAIN t = 1 .. Len(t) /\ Len(t) \in Nat
      BY MappedPoints
    <2> QED
      BY <2>1 DEF Mapped
  <1>3. /\ u \in Seq(S) /\ Len(u) = Len(s) + Len(t)
        /\ \A i \in 1 .. Len(s) + Len(t) :
             u[i] = IF i <= Len(s) THEN s[i] ELSE t[i - Len(s)]
    BY ConcatProperties
  <1> HIDE DEF c, d, u
  <1>4. /\ a \in Seq(T) /\ Len(a) = Len(u)
        /\ \A i \in 1 .. Len(u) : a[i] = f[u[i]]
    <2>1. /\ Mapped(f, u) \in Seq(Carries(f, S)) /\ Len(Mapped(f, u)) = Len(u)
          /\ DOMAIN u = 1 .. Len(u)
      BY <1>3, MappedPoints
    <2> QED
      BY <2>1 DEF Mapped
  <1> HIDE DEF a, T
  <1>5. /\ b \in Seq(T) /\ Len(b) = Len(c) + Len(d)
        /\ \A i \in 1 .. Len(c) + Len(d) :
             b[i] = IF i <= Len(c) THEN c[i] ELSE d[i - Len(c)]
    BY <1>1, <1>2, ConcatProperties, ZenonT(60)
  <1> HIDE DEF b
  <1>6. ASSUME NEW i \in 1 .. (Len(s) + Len(t))
        PROVE  a[i] = b[i]
    <2>1. a[i] = f[u[i]]
      BY <1>3, <1>4
    <2>2. CASE i <= Len(s)
      <3>1. i \in 1 .. Len(s)
        BY <1>1, <2>2
      <3>2. b[i] = c[i] /\ c[i] = f[s[i]] /\ u[i] = s[i]
        BY <1>1, <1>2, <1>3, <1>5, <2>2, <3>1
      <3> QED
        BY <2>1, <3>2
    <2>3. CASE ~(i <= Len(s))
      <3>1. i - Len(s) \in 1 .. Len(t)
        BY <1>1, <1>2, <2>3
      <3>2. b[i] = d[i - Len(s)] /\ u[i] = t[i - Len(s)]
        BY <1>1, <1>2, <1>3, <1>5, <2>3
      <3>3. d[i - Len(s)] = f[t[i - Len(s)]]
        BY <1>2, <3>1
      <3> QED
        BY <2>1, <3>2, <3>3
    <2> QED
      BY <2>2, <2>3
  <1>7. /\ a \in [1 .. (Len(s) + Len(t)) -> T]
        /\ b \in [1 .. (Len(s) + Len(t)) -> T]
    BY <1>1, <1>2, <1>3, <1>4, <1>5, LenProperties
  <1>8. a = b
    BY <1>6, <1>7
  <1> QED
    BY <1>8 DEF a, b, c, d, u

LEMMA MappedAppend ==
    ASSUME NEW S, NEW f, NEW s \in Seq(S), NEW e \in S
    PROVE  Mapped(f, Append(s, e)) = Append(Mapped(f, s), f[e])
  <1> DEFINE T == Carries(f, S)
             h == <<e>>
             k == <<f[e]>>
             m == Mapped(f, s)
  <1>1. h \in Seq(S) /\ Mapped(f, h) = k
    BY DEF Mapped
  <1>2. Append(s, e) = s \o h
    BY AppendIsConcat
  <1>3. m \in Seq(T) /\ f[e] \in T
    BY MappedPoints DEF Carries
  <1> HIDE DEF T, m
  <1>4. Append(m, f[e]) = m \o k
    BY <1>3, AppendIsConcat
  <1> HIDE DEF h, k
  <1>5. Mapped(f, s \o h) = Mapped(f, s) \o Mapped(f, h)
    <2>1. h \in Seq(S)
      BY <1>1
    <2> QED
      BY <2>1, MappedConcat
  <1> QED
    BY <1>1, <1>2, <1>4, <1>5 DEF m

\* The tasks a callback, a message or a result carries.
Carried == [c \in Callback |->
    CASE c.cb = "put" -> <<c.task>> [] c.cb = "dispatch" -> c.group [] OTHER -> <<>>]

TaskIn == [e \in Entry \cup Response |-> TaskOf(e)]

Sent == [m \in TaskMessage |-> Mapped(TaskIn, m.entries)]

Answered == [m \in ResultMessage |->
    IF m.type = "task_complete" THEN Mapped(TaskIn, m.data) ELSE <<>>]

\* The lanes: four of the coordinator, and three of each worker.
Lane == ({"ready", "list", "group", "gather"} \X {None})
            \cup ({"queue", "run", "result"} \X Worker)

Of(name) == <<name, None>>

ListsIn(l) ==
    CASE l[1] = "ready" -> Mapped(Carried, ready)
      [] l[1] = "list" -> <<readyTasks>>
      [] l[1] = "group" -> <<group>>
      [] l[1] = "gather" -> << Mapped(TaskIn, results.rest) >>
      [] l[1] = "queue" -> Mapped(Sent, taskQueue[l[2]])
      [] l[1] = "run" -> << Mapped(TaskIn, current[l[2]].entries) >>
      [] l[1] = "result" -> Mapped(Answered, resultQueue[l[2]])

Lists == [l \in Lane |-> ListsIn(l)]

LEMMA CarryTypes ==
    /\ Carried \in [Callback -> Seq(Task)]
    /\ TaskIn \in [Entry \cup Response -> Task]
    /\ Sent \in [TaskMessage -> Seq(Task)]
    /\ Answered \in [ResultMessage -> Seq(Task)]
    /\ \A s \in Seq(Entry) : Mapped(TaskIn, s) \in Seq(Task)
    /\ \A s \in Seq(Response) : Mapped(TaskIn, s) \in Seq(Task)
    /\ Seq(Entry) \subseteq Seq(Entry \cup Response)
    /\ Seq(Response) \subseteq Seq(Entry \cup Response)
  <1>1. \A c \in Callback : Carried[c] \in Seq(Task)
    <2> SUFFICES ASSUME NEW c \in Callback PROVE Carried[c] \in Seq(Task)
      OBVIOUS
    <2>1. CASE c.cb = "put"
      <3>1. Carried[c] = <<c.task>> /\ c.task \in Task
        BY <2>1, CallbackFields DEF Carried
      <3> QED
        BY <3>1
    <2>2. CASE c.cb = "dispatch"
      <3>1. Carried[c] = c.group /\ c.group \in Seq(Task)
        BY <2>2, CallbackFields DEF Carried
      <3> QED
        BY <3>1
    <2>3. CASE c.cb \notin {"put", "dispatch"}
      <3>1. Carried[c] = <<>>
        BY <2>3 DEF Carried
      <3> QED
        BY <3>1
    <2> QED
      BY <2>1, <2>2, <2>3
  <1>2. Carried \in [Callback -> Seq(Task)]
    <2>1. Carried = [c \in Callback |-> Carried[c]]
      BY DEF Carried
    <2> QED
      BY <1>1, <2>1
  <1>3. TaskIn \in [Entry \cup Response -> Task]
    BY DEF TaskIn, TaskOf, Task, Entry, Response
  <1>4. /\ Seq(Entry) \subseteq Seq(Entry \cup Response)
        /\ Seq(Response) \subseteq Seq(Entry \cup Response)
    <2>1. Entry \subseteq Entry \cup Response /\ Response \subseteq Entry \cup Response
      OBVIOUS
    <2> QED
      BY <2>1, SeqMonotonic
  <1>5. \A s \in Seq(Entry \cup Response) : Mapped(TaskIn, s) \in Seq(Task)
    BY <1>3, MappedType
  <1>6. Sent \in [TaskMessage -> Seq(Task)]
    <2>1. \A m \in TaskMessage : m.entries \in Seq(Entry)
      BY DEF TaskMessage
    <2>2. \A m \in TaskMessage : Mapped(TaskIn, m.entries) \in Seq(Task)
      BY <1>4, <1>5, <2>1
    <2> QED
      BY <2>2 DEF Sent
  <1>7. Answered \in [ResultMessage -> Seq(Task)]
    <2>1. \A m \in ResultMessage :
            m.type = "task_complete" => Mapped(TaskIn, m.data) \in Seq(Task)
      BY <1>4, <1>5, ResultMessageFields
    <2>2. <<>> \in Seq(Task)
      BY EmptySeq
    <2> QED
      BY <2>1, <2>2 DEF Answered
  <1> QED
    BY <1>2, <1>3, <1>4, <1>5, <1>6, <1>7

\* Every lane, by name.
LEMMA LanesAre ==
    /\ \A name \in {"ready", "list", "group", "gather"} : Of(name) \in Lane
    /\ \A name \in {"queue", "run", "result"}, w \in Worker : <<name, w>> \in Lane
    /\ \A l \in Lane : \/ \E name \in {"ready", "list", "group", "gather"} : l = Of(name)
                      \/ \E name \in {"queue", "run", "result"}, w \in Worker : l = <<name, w>>
    /\ \A a \in {"ready", "list", "group", "gather"}, b \in {"queue", "run", "result"} :
         \A w \in Worker : Of(a) # <<b, w>>
    /\ \A a, b \in {"ready", "list", "group", "gather"} : Of(a) = Of(b) => a = b
  BY DEF Lane, Of

LaneContents ==
    /\ Lists \in [Lane -> Seq(Seq(Task))]
    /\ Lists[Of("ready")] = Mapped(Carried, ready)
    /\ Lists[Of("list")] = <<readyTasks>>
    /\ Lists[Of("group")] = <<group>>
    /\ Lists[Of("gather")] = << Mapped(TaskIn, results.rest) >>
    /\ \A w \in Worker :
         /\ Lists[<<"queue", w>>] = Mapped(Sent, taskQueue[w])
         /\ Lists[<<"run", w>>] = << Mapped(TaskIn, current[w].entries) >>
         /\ Lists[<<"result", w>>] = Mapped(Answered, resultQueue[w])

LEMMA ListsAre == TypeOK => LaneContents
  <1> SUFFICES ASSUME TypeOK PROVE LaneContents
    OBVIOUS
  <1>1. /\ \A name \in {"ready", "list", "group", "gather"} : Of(name) \in Lane
        /\ \A name \in {"queue", "run", "result"}, w \in Worker : <<name, w>> \in Lane
    BY LanesAre
  <1>2. /\ Lists[Of("ready")] = Mapped(Carried, ready)
        /\ Lists[Of("list")] = <<readyTasks>> /\ Lists[Of("group")] = <<group>>
        /\ Lists[Of("gather")] = << Mapped(TaskIn, results.rest) >>
    BY <1>1 DEF Lists, ListsIn, Of
  <1>3. ASSUME NEW w \in Worker
        PROVE  /\ Lists[<<"queue", w>>] = Mapped(Sent, taskQueue[w])
               /\ Lists[<<"run", w>>] = << Mapped(TaskIn, current[w].entries) >>
               /\ Lists[<<"result", w>>] = Mapped(Answered, resultQueue[w])
    BY <1>1 DEF Lists, ListsIn
  <1>4. /\ ready \in Seq(Callback) /\ readyTasks \in Seq(Task) /\ group \in Seq(Task)
        /\ results.rest \in Seq(Response)
        /\ \A w \in Worker : /\ taskQueue[w] \in Seq(TaskMessage)
                             /\ resultQueue[w] \in Seq(ResultMessage)
                             /\ current[w].entries \in Seq(Entry)
    BY DEF TypeOK, CoordinatorTypeOK, LoopTypeOK, ScheduleTypeOK, ResultsTypeOK,
           ChannelTypeOK, WorkerTypeOK
  <1>5. \A s \in Seq(Task) : <<s>> \in Seq(Seq(Task))
    OBVIOUS
  <1>6. /\ Lists[Of("ready")] \in Seq(Seq(Task)) /\ Lists[Of("list")] \in Seq(Seq(Task))
        /\ Lists[Of("group")] \in Seq(Seq(Task)) /\ Lists[Of("gather")] \in Seq(Seq(Task))
    <2>1. Mapped(Carried, ready) \in Seq(Seq(Task)) /\ Mapped(TaskIn, results.rest) \in Seq(Task)
      BY <1>4, CarryTypes, MappedType
    <2> QED
      BY <1>2, <1>4, <1>5, <2>1
  <1>7. ASSUME NEW w \in Worker
        PROVE  /\ Mapped(Sent, taskQueue[w]) \in Seq(Seq(Task))
               /\ Mapped(Answered, resultQueue[w]) \in Seq(Seq(Task))
               /\ << Mapped(TaskIn, current[w].entries) >> \in Seq(Seq(Task))
    <2>1. Mapped(Sent, taskQueue[w]) \in Seq(Seq(Task))
      BY <1>4, CarryTypes, MappedType
    <2>2. Mapped(Answered, resultQueue[w]) \in Seq(Seq(Task))
      BY <1>4, CarryTypes, MappedType
    <2>3. Mapped(TaskIn, current[w].entries) \in Seq(Task)
      BY <1>4, CarryTypes
    <2> QED
      BY <1>5, <2>1, <2>2, <2>3
  <1>8. \A l \in Lane : Lists[l] \in Seq(Seq(Task))
    <2> SUFFICES ASSUME NEW l \in Lane PROVE Lists[l] \in Seq(Seq(Task))
      OBVIOUS
    <2>1. CASE \E name \in {"ready", "list", "group", "gather"} : l = Of(name)
      BY <1>6, <2>1
    <2>2. CASE \E name \in {"queue", "run", "result"}, w \in Worker : l = <<name, w>>
      BY <1>3, <1>7, <2>2, ZenonT(60)
    <2> QED
      BY <2>1, <2>2, LanesAre
  <1>9. Lists = [l \in Lane |-> Lists[l]]
    BY DEF Lists
  <1> QED
    BY <1>2, <1>3, <1>8, <1>9 DEF LaneContents

LEMMA ListsAreNext == (TypeOK => LaneContents)'
  BY ListsAre, PTL

\* Every task is at most once in the lanes; and the tasks that are there.
Apart(S) ==
    /\ \A l \in Lane : Distinct(S[l])
    /\ \A l, m \in Lane : l # m => Tasks(S[l]) \cap Tasks(S[m]) = {}

Everywhere(S) == UNION { Tasks(S[l]) : l \in Lane }

\* From S to S1, lane k loses the tasks of G and lane l gains those of N.
Moves(S, S1, k, l, G, N) ==
    /\ k \in Lane /\ l \in Lane /\ k # l
    /\ Distinct(S1[k]) /\ Distinct(S1[l])
    /\ G \subseteq Tasks(S[k]) /\ N \cap Everywhere(S) \subseteq G
    /\ Tasks(S1[k]) = Tasks(S[k]) \ G /\ Tasks(S1[l]) = Tasks(S[l]) \cup N
    /\ \A m \in Lane : m \notin {k, l} => S1[m] = S[m]

LEMMA Rearranged ==
    ASSUME NEW S, NEW S1, NEW k, NEW l, NEW G, NEW N,
           Apart(S), Moves(S, S1, k, l, G, N)
    PROVE  Apart(S1) /\ Everywhere(S1) = (Everywhere(S) \ G) \cup N
  <1>0. /\ k \in Lane /\ l \in Lane /\ k # l
        /\ Distinct(S1[k]) /\ Distinct(S1[l])
        /\ G \subseteq Tasks(S[k]) /\ N \cap Everywhere(S) \subseteq G
        /\ Tasks(S1[k]) = Tasks(S[k]) \ G /\ Tasks(S1[l]) = Tasks(S[l]) \cup N
        /\ \A m \in Lane : m \notin {k, l} => S1[m] = S[m]
    BY DEF Moves
  <1>1. \A m \in Lane : m \notin {k, l} => Tasks(S1[m]) = Tasks(S[m])
    BY <1>0
  <1>2. \A m \in Lane : Tasks(S[m]) \subseteq Everywhere(S)
    BY DEF Everywhere
  <1>3. \A a, b \in Lane : a # b => Tasks(S[a]) \cap Tasks(S[b]) = {}
    BY DEF Apart
  <1>4. \A m \in Lane : m \notin {k, l} => N \cap Tasks(S[m]) = {}
    BY <1>0, <1>2, <1>3
  <1>5. \A a, b \in Lane : a # b => Tasks(S1[a]) \cap Tasks(S1[b]) = {}
    <2> SUFFICES ASSUME NEW a \in Lane, NEW b \in Lane, a # b,
                        NEW x \in Tasks(S1[a]), x \in Tasks(S1[b])
                 PROVE  FALSE
      OBVIOUS
    <2>1. CASE a = k
      BY <1>0, <1>1, <1>2, <1>3, <1>4, <2>1
    <2>2. CASE b = k
      BY <1>0, <1>1, <1>2, <1>3, <1>4, <2>2
    <2>3. CASE a # k /\ b # k
      BY <1>0, <1>1, <1>2, <1>3, <1>4, <2>3
    <2> QED
      BY <2>1, <2>2, <2>3
  <1>6. Apart(S1)
    BY <1>0, <1>5 DEF Apart
  <1>7. Everywhere(S1) \subseteq (Everywhere(S) \ G) \cup N
    <2> SUFFICES ASSUME NEW m \in Lane, NEW x \in Tasks(S1[m]), x \notin N
                 PROVE  x \in Everywhere(S) \ G
      BY DEF Everywhere
    <2>1. x \in Tasks(S[m])
      BY <1>0, <1>1
    <2>2. x \notin G
      BY <1>0, <1>3, <2>1
    <2> QED
      BY <1>2, <2>1, <2>2
  <1>8. N \subseteq Everywhere(S1)
    BY <1>0 DEF Everywhere
  <1>9. Everywhere(S) \ G \subseteq Everywhere(S1)
    <2> SUFFICES ASSUME NEW m \in Lane, NEW x \in Tasks(S[m]), x \notin G
                 PROVE  x \in Everywhere(S1)
      BY DEF Everywhere
    <2>1. x \in Tasks(S1[m])
      BY <1>0, <1>1
    <2> QED
      BY <2>1 DEF Everywhere
  <1> QED
    BY <1>6, <1>7, <1>8, <1>9

\* The lists of a lane change, its tasks do not.
LEMMA Relisted ==
    ASSUME NEW S, NEW S1, NEW k \in Lane, Apart(S), Distinct(S1[k]),
           Tasks(S1[k]) = Tasks(S[k]), \A m \in Lane : m # k => S1[m] = S[m]
    PROVE  Apart(S1) /\ Everywhere(S1) = Everywhere(S)
  <1>1. \A m \in Lane : Tasks(S1[m]) = Tasks(S[m]) /\ Distinct(S1[m])
    BY DEF Apart
  <1> QED
    BY <1>1 DEF Apart, Everywhere

\* A queue whose head is taken and that grows behind, seen by what its elements
\* carry.
LEMMA QueueGrown ==
    ASSUME NEW S, NEW T, NEW f \in [S -> Seq(T)], NEW q \in Seq(S), NEW c \in Seq(S),
           Distinct(Mapped(f, q)), Distinct(Mapped(f, c)),
           Tasks(Mapped(f, q)) \cap Tasks(Mapped(f, c)) = {}
    PROVE  /\ Distinct(Mapped(f, q \o c))
           /\ Tasks(Mapped(f, q \o c)) = Tasks(Mapped(f, q)) \cup Tasks(Mapped(f, c))
  <1> DEFINE L == Mapped(f, q)
             M == Mapped(f, c)
             U == Seq(T)
  <1>1. L \in Seq(Seq(T)) /\ M \in Seq(Seq(T)) /\ Mapped(f, q \o c) = L \o M
    <2>1. f \in [S -> U]
      OBVIOUS
    <2> HIDE DEF U
    <2>2. Mapped(f, q) \in Seq(U) /\ Mapped(f, c) \in Seq(U)
      BY <2>1, MappedType
    <2>3. Mapped(f, q \o c) = Mapped(f, q) \o Mapped(f, c)
      BY MappedConcat
    <2> QED
      BY <2>2, <2>3 DEF U
  <1>2. Distinct(L) /\ Distinct(M) /\ Tasks(L) \cap Tasks(M) = {}
    OBVIOUS
  <1> HIDE DEF L, M
  <1>3. /\ Tasks(L \o M) = Tasks(L) \cup Tasks(M)
        /\ Distinct(L \o M) <=>
             Distinct(L) /\ Distinct(M) /\ Tasks(L) \cap Tasks(M) = {}
    BY <1>1, JoinedLists
  <1>4. Distinct(L \o M) /\ Tasks(L \o M) = Tasks(L) \cup Tasks(M)
    BY <1>2, <1>3
  <1> QED
    BY <1>1, <1>4 DEF L, M

LEMMA QueueTail ==
    ASSUME NEW S, NEW T, NEW f \in [S -> Seq(T)], NEW q \in Seq(S), q # <<>>,
           Distinct(Mapped(f, q))
    PROVE  /\ Tail(q) \in Seq(S) /\ Head(q) \in S
           /\ Distinct(Mapped(f, Tail(q))) /\ IsInjective(f[Head(q)])
           /\ ToSet(f[Head(q)]) \subseteq Tasks(Mapped(f, q))
           /\ Tasks(Mapped(f, Tail(q))) = Tasks(Mapped(f, q)) \ ToSet(f[Head(q)])
  <1> DEFINE L == Mapped(f, q)
             U == Seq(T)
  <1>1. /\ L \in Seq(Seq(T)) /\ L # <<>> /\ Head(L) = f[Head(q)]
        /\ Tail(L) = Mapped(f, Tail(q))
    <2>1. f \in [S -> U]
      OBVIOUS
    <2> HIDE DEF U
    <2>2. Mapped(f, q) \in Seq(U)
      BY <2>1, MappedType
    <2>3. /\ Mapped(f, q) # <<>> /\ Head(Mapped(f, q)) = f[Head(q)]
          /\ Tail(Mapped(f, q)) = Mapped(f, Tail(q))
      BY MappedTail
    <2> QED
      BY <2>2, <2>3 DEF U
  <1>2. Distinct(L)
    OBVIOUS
  <1> HIDE DEF L
  <1>3. /\ Distinct(Tail(L)) /\ ToSet(Head(L)) \subseteq Tasks(L)
        /\ Tasks(Tail(L)) = Tasks(L) \ ToSet(Head(L)) /\ IsInjective(Head(L))
    BY <1>1, <1>2, TailLists
  <1>4. Tail(q) \in Seq(S) /\ Head(q) \in S
    BY HeadTailProperties
  <1> QED
    BY <1>1, <1>3, <1>4 DEF L

LEMMA QueueRun ==
    ASSUME NEW S, NEW T, NEW f \in [S -> Seq(T)], NEW q \in Seq(S), q # <<>>,
           NEW c \in Seq(S), Distinct(Mapped(f, q)), Distinct(Mapped(f, c)),
           (Tasks(Mapped(f, q)) \ ToSet(f[Head(q)])) \cap Tasks(Mapped(f, c)) = {}
    PROVE  /\ Distinct(Mapped(f, Tail(q) \o c))
           /\ Tasks(Mapped(f, Tail(q) \o c)) =
                (Tasks(Mapped(f, q)) \ ToSet(f[Head(q)])) \cup Tasks(Mapped(f, c))
  <1> DEFINE p == Tail(q)
  <1>1. /\ p \in Seq(S) /\ Distinct(Mapped(f, p))
        /\ Tasks(Mapped(f, p)) = Tasks(Mapped(f, q)) \ ToSet(f[Head(q)])
    BY QueueTail
  <1> HIDE DEF p
  <1>2. /\ Distinct(Mapped(f, p \o c))
        /\ Tasks(Mapped(f, p \o c)) = Tasks(Mapped(f, p)) \cup Tasks(Mapped(f, c))
    BY <1>1, QueueGrown
  <1> QED
    BY <1>1, <1>2 DEF p

\* Elements that carry nothing, and elements that carry one thing each.
LEMMA Bare ==
    ASSUME NEW S, NEW T, NEW f \in [S -> Seq(T)], NEW c \in Seq(S),
           \A i \in DOMAIN c : f[c[i]] = <<>>
    PROVE  Distinct(Mapped(f, c)) /\ Tasks(Mapped(f, c)) = {}
  <1>1. \A i \in DOMAIN c : Mapped(f, c)[i] = <<>>
    BY DEF Mapped
  <1>2. DOMAIN Mapped(f, c) = DOMAIN c
    BY DEF Mapped
  <1> QED
    BY <1>1, <1>2 DEF Distinct, Tasks, ToSet

LEMMA Singles ==
    ASSUME NEW L, NEW g, DOMAIN L = DOMAIN g, \A i \in DOMAIN L : L[i] = <<g[i]>>,
           IsInjective(g)
    PROVE  Distinct(L) /\ Tasks(L) = ToSet(g)
  <1>1. Distinct(L)
    BY DEF Distinct, IsInjective
  <1>2. \A i \in DOMAIN g : ToSet(L[i]) = {g[i]}
    <2>1. \A x : ToSet(<<x>>) = {x}
      BY DEF ToSet
    <2> QED
      BY <2>1
  <1>3. Tasks(L) = ToSet(g)
    <2>1. Tasks(L) = UNION { {g[i]} : i \in DOMAIN g }
      BY <1>2 DEF Tasks
    <2> QED
      BY <2>1 DEF ToSet
  <1> QED
    BY <1>1, <1>3

-----------------------------------------------------------------------------
(* The invariant *)

\* The request a start or a wake is for.
Requested == [c \in Callback |-> IF c.cb \in {"start", "wake"} THEN <<c.req>> ELSE <<>>]

Calls == Mapped(Requested, ready)

\* A request is started when it is new to the coordinator, and woken when all
\* its nodes are completed.
TimelyCallback ==
    { c \in Callback :
        /\ c.cb = "start" => phase[c.req] = "starting"
        /\ c.cb = "wake" => phase[c.req] = "live" /\ completedNodes[c.req] = Node }

CallsOnce == Distinct(Calls) /\ ready \in Seq(TimelyCallback)

NodesOfRequests ==
    \A r \in Request : /\ completedNodes[r] \subseteq scheduledNodes[r]
                       /\ phase[r] # "live" => completedNodes[r] = {}

\* The tasks that are scheduled and not completed.
Pending ==
    { x \in Task : /\ phase[x.req] = "live" /\ x.node \in scheduledNodes[x.req]
                   /\ x.node \notin completedNodes[x.req] }

InPlace == Apart(Lists) /\ Everywhere(Lists) = Pending

TaskInv == TypeOK /\ CallsOnce /\ NodesOfRequests /\ InPlace

-----------------------------------------------------------------------------
(* Requests are started once and woken once *)

LEMMA RequestedType ==
    /\ Requested \in [Callback -> Seq(Request)]
    /\ \A c \in Callback : c.cb \in {"start", "wake"} => Requested[c] = <<c.req>>
    /\ \A c \in Callback : c.cb \notin {"start", "wake"} => Requested[c] = <<>>
  <1>1. \A c \in Callback : c.cb \in {"start", "wake"} => <<c.req>> \in Seq(Request)
    BY CallbackFields
  <1>2. <<>> \in Seq(Request)
    BY EmptySeq
  <1> QED
    BY <1>1, <1>2 DEF Requested

\* The requests of the starts and wakes of a queue.
LEMMA CallsSeen ==
    ASSUME NEW q \in Seq(Callback)
    PROVE  /\ \A i \in DOMAIN q : q[i].cb \in {"start", "wake"} =>
                q[i].req \in Tasks(Mapped(Requested, q))
           /\ \A r \in Tasks(Mapped(Requested, q)) :
                \E i \in DOMAIN q : q[i].cb \in {"start", "wake"} /\ q[i].req = r
  <1>1. \A i \in DOMAIN q : q[i] \in Callback
    BY ElementOfSeq, LenProperties
  <1>2. /\ DOMAIN Mapped(Requested, q) = DOMAIN q
        /\ \A i \in DOMAIN q : Mapped(Requested, q)[i] = Requested[q[i]]
    BY DEF Mapped
  <1>3. \A x : ToSet(<<x>>) = {x}
    BY DEF ToSet
  <1>4. \A i \in DOMAIN q : q[i].cb \in {"start", "wake"} =>
          ToSet(Mapped(Requested, q)[i]) = {q[i].req}
    BY <1>1, <1>2, <1>3, RequestedType
  <1>5. \A i \in DOMAIN q : q[i].cb \notin {"start", "wake"} =>
          ToSet(Mapped(Requested, q)[i]) = {}
    <2>1. ToSet(<<>>) = {}
      BY DEF ToSet
    <2> QED
      BY <1>1, <1>2, <2>1, RequestedType
  <1> QED
    BY <1>2, <1>4, <1>5 DEF Tasks

\* Callbacks that neither start nor wake a request.
PlainCallback == { c \in Callback : c.cb \notin {"start", "wake"} }

LEMMA PlainCalls ==
    ASSUME NEW c \in Seq(PlainCallback)
    PROVE  /\ c \in Seq(TimelyCallback') /\ c \in Seq(Callback)
           /\ Distinct(Mapped(Requested, c)) /\ Tasks(Mapped(Requested, c)) = {}
  <1>1. PlainCallback \subseteq TimelyCallback' /\ PlainCallback \subseteq Callback
    BY DEF PlainCallback, TimelyCallback
  <1>2. c \in Seq(TimelyCallback') /\ c \in Seq(Callback)
    BY <1>1, SeqMonotonic
  <1>3. \A i \in DOMAIN c : c[i] \in PlainCallback
    BY ElementOfSeq, LenProperties
  <1>4. \A i \in DOMAIN c : Requested[c[i]] = <<>>
    BY <1>3, RequestedType DEF PlainCallback
  <1> QED
    BY <1>2, <1>4, RequestedType, Bare

LEMMA CallsGrown ==
    ASSUME TypeOK, CallsOnce, TimelyCallback \subseteq TimelyCallback',
           NEW created \in Seq(TimelyCallback'), ready' = ready \o created,
           Distinct(Mapped(Requested, created)),
           Tasks(Calls) \cap Tasks(Mapped(Requested, created)) = {}
    PROVE  CallsOnce'
  <1>1. ready \in Seq(Callback) /\ ready \in Seq(TimelyCallback')
    BY SeqMonotonic DEF CallsOnce, TypeOK, CoordinatorTypeOK, LoopTypeOK
  <1>2. created \in Seq(Callback)
    <2>1. TimelyCallback' \subseteq Callback
      BY DEF TimelyCallback
    <2> QED
      BY <2>1, SeqMonotonic
  <1>3. Distinct(Mapped(Requested, ready \o created))
    <2>1. /\ Distinct(Mapped(Requested, ready))
          /\ Tasks(Mapped(Requested, ready)) \cap Tasks(Mapped(Requested, created)) = {}
      BY DEF CallsOnce, Calls
    <2> QED
      BY <1>1, <1>2, <2>1, RequestedType, QueueGrown
  <1>4. ready \o created \in Seq(TimelyCallback')
    BY <1>1, ConcatProperties
  <1> QED
    BY <1>3, <1>4 DEF CallsOnce, Calls

\* A callback runs and creates none.
LEMMA CallsRan ==
    ASSUME TypeOK, CallsOnce, ready # <<>>, Ran(<<>>),
           \A c \in TimelyCallback :
             (c.cb \in {"start", "wake"} => c.req \notin ToSet(Requested[Head(ready)]))
               => c \in TimelyCallback'
    PROVE  CallsOnce'
  <1> DEFINE q == Tail(ready)
  <1>1. ready \in Seq(Callback) /\ ready \in Seq(TimelyCallback)
    BY DEF CallsOnce, TypeOK, CoordinatorTypeOK, LoopTypeOK
  <1>2. q \in Seq(Callback) /\ q \in Seq(TimelyCallback)
    BY <1>1, HeadTailProperties
  <1>3. ready' = q
    <2>1. q \o <<>> = q
      BY <1>2, ConcatEmptySeq
    <2> QED
      BY <2>1 DEF Ran
  <1>4. /\ Distinct(Mapped(Requested, q))
        /\ Tasks(Mapped(Requested, q)) = Tasks(Calls) \ ToSet(Requested[Head(ready)])
    BY <1>1, RequestedType, QueueTail DEF CallsOnce, Calls
  <1> HIDE DEF q
  <1>5. \A i \in DOMAIN q : q[i] \in TimelyCallback'
    <2> SUFFICES ASSUME NEW i \in DOMAIN q PROVE q[i] \in TimelyCallback'
      OBVIOUS
    <2>1. q[i] \in TimelyCallback
      BY <1>2, ElementOfSeq, LenProperties
    <2>2. q[i].cb \in {"start", "wake"} => q[i].req \in Tasks(Mapped(Requested, q))
      BY <1>2, CallsSeen
    <2> QED
      BY <1>4, <2>1, <2>2
  <1>6. q \in Seq(TimelyCallback')
    <2>1. Len(q) \in Nat /\ q \in [1 .. Len(q) -> Callback]
      BY <1>2, LenProperties
    <2>2. q \in [1 .. Len(q) -> TimelyCallback']
      BY <1>5, <2>1
    <2> QED
      BY <2>1, <2>2
  <1> QED
    BY <1>3, <1>4, <1>6 DEF CallsOnce, Calls

LEMMA TimelyStable ==
    UNCHANGED <<phase, completedNodes>> => TimelyCallback' = TimelyCallback
  BY DEF TimelyCallback

LEMMA CallsUnchanged ==
    ASSUME CallsOnce, UNCHANGED <<ready, phase, completedNodes>>
    PROVE  CallsOnce'
  BY TimelyStable DEF CallsOnce, Calls, Requested

\* The callbacks that touch no request's phase.
LEMMA CallbackCalls ==
    ASSUME TypeOK, CallsOnce,
           \/ PutTask \/ ScheduleTaskGroup \/ NotifyLazyInputAvailable
           \/ UpdateFreeTensorDict \/ SchedulerWake \/ GatherWake
    PROVE  CallsOnce'
  <1>1. Ran(<<>>) /\ todo > 0
    BY DEF PutTask, ScheduleTaskGroup, NotifyLazyInputAvailable, UpdateFreeTensorDict,
           SchedulerWake, GatherWake, Runs
  <1>2. UNCHANGED <<phase, completedNodes>>
    BY DEF PutTask, ScheduleTaskGroup, NotifyLazyInputAvailable, UpdateFreeTensorDict,
           SchedulerWake, GatherWake, requestVars
  <1>3. ready # <<>>
    BY <1>1, EmptySeq DEF TypeOK, CoordinatorTypeOK, LoopTypeOK
  <1> QED
    BY <1>1, <1>2, <1>3, TimelyStable, CallsRan

\* The callback of a kind is at the head of the queue.
LEMMA HeadRuns ==
    ASSUME TypeOK, NEW cb, Runs(cb)
    PROVE  ready # <<>> /\ Head(ready) \in Callback /\ Head(ready).cb = cb
  <1>1. ready # <<>>
    BY EmptySeq DEF TypeOK, CoordinatorTypeOK, LoopTypeOK, Runs
  <1> QED
    BY <1>1, HeadTailProperties DEF TypeOK, CoordinatorTypeOK, LoopTypeOK, Runs

LEMMA StartRequestCalls ==
    ASSUME TypeOK, CallsOnce, StartRequest
    PROVE  CallsOnce'
  <1> DEFINE r == Head(ready).req
  <1>1. ready # <<>> /\ Ran(<<>>) /\ r \in Request /\ Requested[Head(ready)] = <<r>>
    BY HeadRuns, CallbackFields, RequestedType DEF StartRequest
  <1>2. phase' = [phase EXCEPT ![r] = "live"] /\ UNCHANGED completedNodes
    BY DEF StartRequest
  <1>3. \A x : ToSet(<<x>>) = {x}
    BY DEF ToSet
  <1> HIDE DEF r
  <1>4. ASSUME NEW c \in TimelyCallback, c.cb \in {"start", "wake"} => c.req # r
        PROVE  c \in TimelyCallback'
    <2>1. c \in Callback /\ (c.cb \in {"start", "wake"} => c.req \in Request)
      BY CallbackFields DEF TimelyCallback
    <2>2. c.cb \in {"start", "wake"} => phase'[c.req] = phase[c.req]
      BY <1>2, <1>4, <2>1 DEF TypeOK, CoordinatorTypeOK, RequestTypeOK
    <2> QED
      BY <1>2, <2>1, <2>2 DEF TimelyCallback
  <1> QED
    BY <1>1, <1>3, <1>4, CallsRan

LEMMA FinishRequestCalls ==
    ASSUME TypeOK, CallsOnce, FinishRequest
    PROVE  CallsOnce'
  <1> DEFINE r == Head(ready).req
  <1>1. ready # <<>> /\ Ran(<<>>) /\ r \in Request /\ Requested[Head(ready)] = <<r>>
    BY HeadRuns, CallbackFields, RequestedType DEF FinishRequest
  <1>2. /\ phase' = [phase EXCEPT ![r] = "done"]
        /\ completedNodes' = [completedNodes EXCEPT ![r] = {}]
    BY DEF FinishRequest
  <1>3. \A x : ToSet(<<x>>) = {x}
    BY DEF ToSet
  <1> HIDE DEF r
  <1>4. ASSUME NEW c \in TimelyCallback, c.cb \in {"start", "wake"} => c.req # r
        PROVE  c \in TimelyCallback'
    <2>1. c \in Callback /\ (c.cb \in {"start", "wake"} => c.req \in Request)
      BY CallbackFields DEF TimelyCallback
    <2>2. c.cb \in {"start", "wake"} => /\ phase'[c.req] = phase[c.req]
                                       /\ completedNodes'[c.req] = completedNodes[c.req]
      BY <1>2, <1>4, <2>1 DEF TypeOK, CoordinatorTypeOK, RequestTypeOK
    <2> QED
      BY <2>1, <2>2 DEF TimelyCallback
  <1> QED
    BY <1>1, <1>3, <1>4, CallsRan

LEMMA AssignGroupCalls ==
    ASSUME TypeOK, CallsOnce, AssignGroup
    PROVE  CallsOnce'
  <1>1. PICK w \in Worker :
          ready' = Append(ready, [cb |-> "dispatch", group |-> group, dst |-> w])
    BY DEF AssignGroup
  <1> DEFINE c == [cb |-> "dispatch", group |-> group, dst |-> w]
             created == <<c>>
  <1>2. c \in PlainCallback
    <2>1. group \in Seq(Task)
      BY DEF TypeOK, CoordinatorTypeOK, ScheduleTypeOK
    <2>2. c \in Callback /\ c.cb = "dispatch"
      BY <2>1, CallbackTypes
    <2> QED
      BY <2>2 DEF PlainCallback
  <1>3. ready' = ready \o created
    <2>1. c \in Callback /\ ready \in Seq(Callback)
      BY <1>2 DEF PlainCallback, TypeOK, CoordinatorTypeOK, LoopTypeOK
    <2> QED
      BY <1>1, <2>1, AppendIsConcat
  <1>4. created \in Seq(PlainCallback)
    BY <1>2
  <1> HIDE DEF created
  <1>5. TimelyCallback' = TimelyCallback
    BY TimelyStable DEF AssignGroup, requestVars
  <1> QED
    BY <1>3, <1>4, <1>5, PlainCalls, CallsGrown

LEMMA GatherTensorBatchCalls ==
    ASSUME TypeOK, CallsOnce, NEW w \in Worker, GatherTensorBatch(w)
    PROVE  CallsOnce'
  <1>1. PICK created \in Seq(Notice) : ready' = ready \o created
    BY GatherTensorBatchCreates
  <1>2. created \in Seq(PlainCallback)
    <2>1. Notice \subseteq PlainCallback
      BY DEF Notice, Created, PlainCallback
    <2> QED
      BY <2>1, SeqMonotonic
  <1>3. TimelyCallback' = TimelyCallback
    BY TimelyStable DEF GatherTensorBatch, requestVars
  <1> QED
    BY <1>1, <1>2, <1>3, PlainCalls, CallsGrown

\* What a turn of the loop puts in the queue: a start for each new request, and
\* the loops whose timers are due.
LEMMA LoopIterationQueues ==
    ASSUME TypeOK, NEW requests \in SUBSET Request, NEW due \in DueTimers,
           LoopIteration(requests, due)
    PROVE  \E starts, turns \in Seq(Callback) :
             /\ ready' = ready \o (starts \o turns)
             /\ \A i \in DOMAIN turns : turns[i].cb \in Loops
             /\ \A i \in DOMAIN starts : starts[i].cb = "start" /\ starts[i].req \in requests
             /\ Distinct(Mapped(Requested, starts))
             /\ Tasks(Mapped(Requested, starts)) = requests
  <1>1. due \in Seq(Loops)
    <2>1. PICK S \in SUBSET Loops : due \in SetToSeqs(S)
      BY DEF DueTimers
    <2>2. IsFiniteSet(S)
      <3>1. IsFiniteSet({"scheduler"}) /\ IsFiniteSet({"gather"})
        BY FS_Singleton
      <3>2. Loops = {"scheduler"} \cup {"gather"}
        BY DEF Loops
      <3> QED
        BY <3>1, <3>2, FS_Union, FS_Subset
    <2> QED
      BY <2>1, <2>2, SetToSeqsType, SeqMonotonic
  <1>2. PICK order \in SetToSeqs(requests) :
          ready' = ready \o
              ([i \in DOMAIN order |-> [cb |-> "start", req |-> order[i]]]
               \o [i \in DOMAIN due |-> [cb |-> due[i]]])
    BY DEF LoopIteration
  <1>3. order \in Seq(requests) /\ IsInjective(order) /\ ToSet(order) = requests
    BY <1>2, OrderOfSet, FS_Subset, SchedulingAssumption
  <1> DEFINE starts == [i \in DOMAIN order |-> [cb |-> "start", req |-> order[i]]]
             turns == [i \in DOMAIN due |-> [cb |-> due[i]]]
  <1>4. \A i \in DOMAIN order : order[i] \in requests
    BY <1>3, ElementOfSeq, LenProperties
  <1>5. starts \in Seq(Callback)
    <2>1. \A r \in requests : [cb |-> "start", req |-> r] \in Callback
      BY CallbackTypes DEF Created
    <2> QED
      BY <1>3, <2>1, LenProperties
  <1>6. turns \in Seq(Callback)
    <2>1. \A l \in Loops : [cb |-> l] \in Callback
      BY CallbackTypes DEF Created
    <2> QED
      BY <1>1, <2>1, LenProperties
  <1>7. \A i \in DOMAIN turns : turns[i].cb \in Loops
    BY <1>1, ElementOfSeq, LenProperties
  <1>8. \A i \in DOMAIN starts : starts[i].cb = "start" /\ starts[i].req = order[i]
    OBVIOUS
  <1>9. DOMAIN starts = DOMAIN order
    OBVIOUS
  <1>10. ready' = ready \o (starts \o turns)
    BY <1>2
  <1> HIDE DEF starts, turns
  <1>11. \A i \in DOMAIN starts : Requested[starts[i]] = <<order[i]>>
    <2>1. \A i \in DOMAIN starts : starts[i] \in Callback
      BY <1>5, ElementOfSeq, LenProperties
    <2> QED
      BY <1>8, <2>1, RequestedType
  <1>12. /\ Distinct(Mapped(Requested, starts))
         /\ Tasks(Mapped(Requested, starts)) = ToSet(order)
    <2> DEFINE L == Mapped(Requested, starts)
    <2>1. DOMAIN L = DOMAIN order /\ \A i \in DOMAIN L : L[i] = <<order[i]>>
      BY <1>9, <1>11 DEF Mapped
    <2>2. IsInjective(order)
      BY <1>3
    <2> HIDE DEF L
    <2>3. Distinct(L) /\ Tasks(L) = ToSet(order)
      BY <2>1, <2>2, Singles
    <2> QED
      BY <2>3 DEF L
  <1> QED
    BY <1>3, <1>4, <1>5, <1>6, <1>7, <1>8, <1>9, <1>10, <1>12

LEMMA LoopIterationCalls ==
    ASSUME TypeOK, CallsOnce, NEW requests \in SUBSET Request, NEW due \in DueTimers,
           LoopIteration(requests, due)
    PROVE  CallsOnce'
  <1>1. PICK starts, turns \in Seq(Callback) :
             /\ ready' = ready \o (starts \o turns)
             /\ \A i \in DOMAIN turns : turns[i].cb \in Loops
             /\ \A i \in DOMAIN starts : starts[i].cb = "start" /\ starts[i].req \in requests
             /\ Distinct(Mapped(Requested, starts))
             /\ Tasks(Mapped(Requested, starts)) = requests
    BY LoopIterationQueues
  <1>2. /\ \A r \in requests : phase[r] = "new" /\ phase'[r] = "starting"
        /\ \A r \in Request : r \notin requests => phase'[r] = phase[r]
        /\ UNCHANGED completedNodes
    BY DEF LoopIteration
  <1>3. TimelyCallback \subseteq TimelyCallback'
    <2> SUFFICES ASSUME NEW c \in TimelyCallback PROVE c \in TimelyCallback'
      OBVIOUS
    <2>1. c \in Callback /\ (c.cb \in {"start", "wake"} => c.req \in Request)
      BY CallbackFields DEF TimelyCallback
    <2>2. c.cb \in {"start", "wake"} => phase'[c.req] = phase[c.req]
      BY <1>2, <2>1 DEF TimelyCallback
    <2> QED
      BY <1>2, <2>1, <2>2 DEF TimelyCallback
  <1>4. \A i \in DOMAIN starts : starts[i] \in TimelyCallback'
    <2>1. \A i \in DOMAIN starts : starts[i] \in Callback
      BY ElementOfSeq, LenProperties
    <2> QED
      BY <1>1, <1>2, <2>1 DEF TimelyCallback
  <1>5. \A i \in DOMAIN turns : turns[i] \in PlainCallback
    <2>1. \A i \in DOMAIN turns : turns[i] \in Callback
      BY ElementOfSeq, LenProperties
    <2> QED
      BY <1>1, <2>1 DEF PlainCallback, Loops
  <1>6. starts \in Seq(TimelyCallback')
    <2>1. Len(starts) \in Nat /\ starts \in [1 .. Len(starts) -> Callback]
      BY LenProperties
    <2>2. starts \in [1 .. Len(starts) -> TimelyCallback']
      BY <1>4, <2>1
    <2> QED
      BY <2>1, <2>2
  <1>7. turns \in Seq(PlainCallback)
    <2>1. Len(turns) \in Nat /\ turns \in [1 .. Len(turns) -> Callback]
      BY LenProperties
    <2>2. turns \in [1 .. Len(turns) -> PlainCallback]
      BY <1>5, <2>1
    <2> QED
      BY <2>1, <2>2
  <1> DEFINE created == starts \o turns
  <1>8. turns \in Seq(TimelyCallback') /\ Distinct(Mapped(Requested, turns))
        /\ Tasks(Mapped(Requested, turns)) = {}
    BY <1>7, PlainCalls
  <1>9. created \in Seq(TimelyCallback')
    BY <1>6, <1>8, ConcatProperties
  <1>10. /\ Distinct(Mapped(Requested, created))
         /\ Tasks(Mapped(Requested, created)) = requests
    <2>1. /\ Distinct(Mapped(Requested, starts))
          /\ Tasks(Mapped(Requested, starts)) \cap Tasks(Mapped(Requested, turns)) = {}
      BY <1>1, <1>8
    <2>2. /\ Distinct(Mapped(Requested, created))
          /\ Tasks(Mapped(Requested, created)) =
               Tasks(Mapped(Requested, starts)) \cup Tasks(Mapped(Requested, turns))
      <3>1. Requested \in [Callback -> Seq(Request)]
        BY RequestedType
      <3>2. Distinct(Mapped(Requested, turns))
        BY <1>8
      <3> HIDE DEF created
      <3> QED
        BY <2>1, <3>1, <3>2, QueueGrown DEF created
    <2> QED
      BY <1>1, <1>8, <2>2
  <1> HIDE DEF created
  <1>11. Tasks(Calls) \cap requests = {}
    <2>1. ready \in Seq(Callback) /\ \A i \in DOMAIN ready : ready[i] \in TimelyCallback
      BY ElementOfSeq, LenProperties
         DEF CallsOnce, TypeOK, CoordinatorTypeOK, LoopTypeOK
    <2>2. \A r \in Tasks(Calls) :
            \E i \in DOMAIN ready : ready[i].cb \in {"start", "wake"} /\ ready[i].req = r
      BY <2>1, CallsSeen DEF Calls
    <2>3. \A r \in Tasks(Calls) : phase[r] \in {"starting", "live"}
      BY <2>1, <2>2 DEF TimelyCallback
    <2> QED
      BY <1>2, <2>3
  <1>12. ready' = ready \o created
    BY <1>1 DEF created
  <1> QED
    BY <1>3, <1>9, <1>10, <1>11, <1>12, CallsGrown

\* The callbacks of one result: a notification, a put for each node that became
\* ready, the release of the inputs, and a wake after the last node.
LEMMA GatherTaskQueues ==
    ASSUME TypeOK, GatherTask
    PROVE  LET r == Head(results.rest).req
               n == Head(results.rest).node
           IN  \E created \in Seq(Callback) :
                 /\ ready' = ready \o created
                 /\ \A i \in DOMAIN created : created[i].cb \notin {"start", "dispatch"}
                 /\ \A i \in DOMAIN created :
                      created[i].cb = "wake" => /\ created[i].req = r
                                                /\ IsRequestComplete(r, n)
                 /\ Distinct(Mapped(Requested, created))
                 /\ Distinct(Mapped(Carried, created))
                 /\ Tasks(Mapped(Carried, created)) =
                      { [req |-> r, node |-> m] : m \in NewlyReady(r, n) }
  <1> DEFINE res == Head(results.rest)
             r == res.req
             n == res.node
             new == NewlyReady(r, n)
             notify == <<[cb |-> "notify", req |-> r, tensors |-> res.tensors,
                          src |-> results.from]>>
             free == <<[cb |-> "free", task |-> [req |-> r, node |-> n]]>>
             wake == IF IsRequestComplete(r, n) THEN <<[cb |-> "wake", req |-> r]>>
                                                ELSE <<>>
  <1>1. /\ results.from \in Worker /\ res \in Response
    BY HeadTailProperties DEF GatherTask, TypeOK, CoordinatorTypeOK, ResultsTypeOK
  <1>2. r \in Request /\ n \in Node /\ res.tensors \subseteq Tensor
    BY <1>1 DEF Response
  <1>3. new \in SUBSET Node /\ IsFiniteSet(new)
    BY FS_Subset, WorkflowAssumption DEF NewlyReady, Successors
  <1>4. PICK order \in SetToSeqs(new) :
          ready' = ready \o
              (notify \o [i \in DOMAIN order |->
                            [cb |-> "put", task |-> [req |-> r, node |-> order[i]]]]
                      \o free \o wake)
    BY DEF GatherTask
  <1> DEFINE puts == [i \in DOMAIN order |->
                        [cb |-> "put", task |-> [req |-> r, node |-> order[i]]]]
             tasks == [i \in DOMAIN order |-> [req |-> r, node |-> order[i]]]
             Put == { c \in PlainCallback : c.cb \in {"notify", "put", "free"} }
  <1>5. \A m \in Node : [req |-> r, node |-> m] \in Task
    BY <1>2 DEF Task
  <1>6. order \in Seq(new) /\ IsInjective(order) /\ ToSet(order) = new
    BY <1>3, <1>4, OrderOfSet
  <1> HIDE DEF new
  <1>7. \A i \in DOMAIN order : order[i] \in Node
    BY <1>3, <1>6, ElementOfSeq, LenProperties
  <1>8. /\ notify \in Seq(Put) /\ free \in Seq(Put)
        /\ wake \in Seq(Callback)
        /\ \A i \in DOMAIN wake : /\ wake[i].cb = "wake" /\ wake[i].req = r
                                 /\ IsRequestComplete(r, n)
    <2>1. notify \in Seq(Put)
      <3>1. [cb |-> "notify", req |-> r, tensors |-> res.tensors,
             src |-> results.from] \in Put
        BY <1>1, <1>2, CallbackTypes DEF Created, PlainCallback
      <3> QED
        BY <3>1
    <2>2. free \in Seq(Put)
      <3>1. [cb |-> "free", task |-> [req |-> r, node |-> n]] \in Put
        BY <1>2, <1>5, CallbackTypes DEF Created, PlainCallback
      <3> QED
        BY <3>1
    <2>3. [cb |-> "wake", req |-> r] \in Callback /\ <<>> \in Seq(Callback)
      BY <1>2, CallbackTypes DEF Created
    <2> HIDE DEF r, n
    <2>4. /\ wake \in Seq(Callback)
          /\ \A i \in DOMAIN wake : /\ wake[i].cb = "wake" /\ wake[i].req = r
                                   /\ IsRequestComplete(r, n)
      BY <2>3
    <2> QED
      BY <2>1, <2>2, <2>4
  <1>9. Distinct(Mapped(Requested, wake))
    <2>1. DOMAIN wake \subseteq {1}
      OBVIOUS
    <2>2. ASSUME NEW i \in DOMAIN wake
          PROVE  Requested[wake[i]] = <<r>>
      <3>1. wake[i] \in Callback
        BY <1>8, ElementOfSeq, LenProperties
      <3> QED
        BY <1>8, <3>1, RequestedType
    <2> HIDE DEF wake
    <2> QED
      BY <2>1, <2>2 DEF Distinct, Mapped
  <1>10. puts \in Seq(Put) /\ DOMAIN puts = DOMAIN order
         /\ \A i \in DOMAIN order : puts[i].cb = "put" /\ puts[i].task = tasks[i]
    <2>1. \A m \in Node : [cb |-> "put", task |-> [req |-> r, node |-> m]] \in Put
      BY <1>5, CallbackTypes DEF Created, PlainCallback
    <2>2. Len(order) \in Nat /\ DOMAIN order = 1 .. Len(order)
      BY <1>6, LenProperties
    <2> HIDE DEF Put, r
    <2>3. puts \in Seq(Put)
      BY <1>7, <2>1, <2>2
    <2> QED
      BY <2>3
  <1>11. tasks \in [DOMAIN order -> Task] /\ IsInjective(tasks)
         /\ ToSet(tasks) = { [req |-> r, node |-> m] : m \in new }
    <2> HIDE DEF r
    <2>1. tasks \in [DOMAIN order -> Task]
      BY <1>5, <1>7
    <2>2. IsInjective(tasks)
      BY <1>6 DEF IsInjective
    <2>3. ToSet(tasks) = { [req |-> r, node |-> m] : m \in new }
      BY <1>6 DEF ToSet
    <2> QED
      BY <2>1, <2>2, <2>3
  <1>12. /\ \A i \in DOMAIN notify : notify[i].cb = "notify"
         /\ \A i \in DOMAIN free : free[i].cb = "free"
    OBVIOUS
  <1>13. Put \subseteq PlainCallback /\ Put \subseteq Callback
         /\ \A c \in Put : c.cb \in {"notify", "put", "free"}
    BY DEF PlainCallback
  <1> DEFINE a == notify \o puts
             b == a \o free
             created == b \o wake
  <1>14. ready' = ready \o created
    BY <1>4
  <1> HIDE DEF notify, puts, free, wake, Put, tasks, r, n
  <1>15. a \in Seq(Put) /\ b \in Seq(Put) /\ b \in Seq(PlainCallback)
    <2>1. a \in Seq(Put)
      BY <1>8, <1>10, ConcatProperties
    <2> HIDE DEF a
    <2>2. b \in Seq(Put)
      BY <1>8, <2>1, ConcatProperties
    <2> QED
      BY <1>13, <2>1, <2>2, SeqMonotonic
  <1>16. a \in Seq(Callback) /\ b \in Seq(Callback) /\ notify \in Seq(Callback)
         /\ puts \in Seq(Callback) /\ free \in Seq(Callback)
    BY <1>8, <1>10, <1>13, <1>15, SeqMonotonic
  <1>17. /\ \A i \in DOMAIN created : created[i].cb \notin {"start", "dispatch"}
         /\ \A i \in DOMAIN created :
              created[i].cb = "wake" => created[i].req = r /\ IsRequestComplete(r, n)
         /\ created \in Seq(Callback)
    <2> HIDE DEF b
    <2>1. /\ created \in Seq(Callback)
          /\ \A i \in DOMAIN created :
               \/ i \in DOMAIN b /\ created[i] = b[i]
               \/ i - Len(b) \in DOMAIN wake /\ created[i] = wake[i - Len(b)]
      <3>1. /\ created \in Seq(Callback)
            /\ \A i \in DOMAIN b : created[i] = b[i]
            /\ \A i \in DOMAIN wake : created[Len(b) + i] = wake[i]
            /\ \A i \in DOMAIN created :
                 i \in DOMAIN b \/ (i - Len(b) \in DOMAIN wake /\ i = Len(b) + (i - Len(b)))
        BY <1>8, <1>16, Positions
      <3> HIDE DEF created
      <3> QED
        BY <3>1
    <2>2. \A i \in DOMAIN b : b[i].cb \in {"notify", "put", "free"}
      <3>1. \A i \in DOMAIN b : b[i] \in Put
        BY <1>15, ElementOfSeq, LenProperties
      <3> QED
        BY <1>13, <3>1
    <2> HIDE DEF created
    <2>3. \A i \in DOMAIN created :
            \/ created[i].cb \in {"notify", "put", "free"}
            \/ /\ created[i].cb = "wake" /\ created[i].req = r
               /\ IsRequestComplete(r, n)
      BY <1>8, <2>1, <2>2
    <2> QED
      BY <2>1, <2>3
  <1>18. Distinct(Mapped(Requested, created))
    <2> HIDE DEF b
    <2>1. Distinct(Mapped(Requested, b)) /\ Tasks(Mapped(Requested, b)) = {}
      BY <1>15, PlainCalls
    <2>2. Requested \in [Callback -> Seq(Request)]
      BY RequestedType
    <2>3. b \in Seq(Callback) /\ wake \in Seq(Callback)
      BY <1>8, <1>16
    <2>4. Tasks(Mapped(Requested, b)) \cap Tasks(Mapped(Requested, wake)) = {}
      BY <2>1
    <2>5. Distinct(Mapped(Requested, b)) /\ Distinct(Mapped(Requested, wake))
      BY <1>9, <2>1
    <2> QED
      BY <2>2, <2>3, <2>4, <2>5, QueueGrown
  <1>19. /\ Distinct(Mapped(Carried, created))
         /\ Tasks(Mapped(Carried, created)) = ToSet(tasks)
    <2>1. Carried \in [Callback -> Seq(Task)]
      BY CarryTypes
    <2>2. /\ Distinct(Mapped(Carried, notify)) /\ Tasks(Mapped(Carried, notify)) = {}
          /\ Distinct(Mapped(Carried, free)) /\ Tasks(Mapped(Carried, free)) = {}
          /\ Distinct(Mapped(Carried, wake)) /\ Tasks(Mapped(Carried, wake)) = {}
      <3>1. ASSUME NEW c \in Seq(Callback),
                   \A i \in DOMAIN c : c[i].cb \in {"notify", "free", "wake"}
            PROVE  Distinct(Mapped(Carried, c)) /\ Tasks(Mapped(Carried, c)) = {}
        <4>1. \A i \in DOMAIN c : c[i] \in Callback
          BY ElementOfSeq, LenProperties
        <4>2. \A i \in DOMAIN c : Carried[c[i]] = <<>>
          BY <3>1, <4>1 DEF Carried
        <4> QED
          BY <2>1, <4>2, Bare
      <3>2. /\ \A i \in DOMAIN notify : notify[i].cb \in {"notify", "free", "wake"}
            /\ \A i \in DOMAIN free : free[i].cb \in {"notify", "free", "wake"}
            /\ \A i \in DOMAIN wake : wake[i].cb \in {"notify", "free", "wake"}
        BY <1>8, <1>12
      <3> QED
        BY <1>8, <1>16, <3>1, <3>2
    <2>3. Distinct(Mapped(Carried, puts)) /\ Tasks(Mapped(Carried, puts)) = ToSet(tasks)
      <3> DEFINE L == Mapped(Carried, puts)
      <3>1. \A i \in DOMAIN puts : puts[i] \in Callback
        BY <1>16, ElementOfSeq, LenProperties
      <3>2. \A i \in DOMAIN puts : Carried[puts[i]] = <<tasks[i]>>
        BY <1>10, <3>1 DEF Carried
      <3>3. DOMAIN L = DOMAIN tasks /\ \A i \in DOMAIN L : L[i] = <<tasks[i]>>
        <4>1. DOMAIN tasks = DOMAIN order
          BY <1>11
        <4> QED
          BY <1>10, <3>2, <4>1 DEF Mapped
      <3>4. IsInjective(tasks)
        BY <1>11
      <3> HIDE DEF L
      <3>5. Distinct(L) /\ Tasks(L) = ToSet(tasks)
        BY <3>3, <3>4, Singles
      <3> QED
        BY <3>5 DEF L
    <2>4. Distinct(Mapped(Carried, a)) /\ Tasks(Mapped(Carried, a)) = ToSet(tasks)
      <3>1. Tasks(Mapped(Carried, notify)) \cap Tasks(Mapped(Carried, puts)) = {}
        BY <2>2
      <3>2. Distinct(Mapped(Carried, notify)) /\ Distinct(Mapped(Carried, puts))
        BY <2>2, <2>3
      <3>3. notify \in Seq(Callback) /\ puts \in Seq(Callback)
        BY <1>16
      <3> HIDE DEF a
      <3>4. /\ Distinct(Mapped(Carried, notify \o puts))
            /\ Tasks(Mapped(Carried, notify \o puts)) =
                 Tasks(Mapped(Carried, notify)) \cup Tasks(Mapped(Carried, puts))
        BY <2>1, <3>1, <3>2, <3>3, QueueGrown
      <3> QED
        BY <2>2, <2>3, <3>4 DEF a
    <2> HIDE DEF a
    <2>5. Distinct(Mapped(Carried, b)) /\ Tasks(Mapped(Carried, b)) = ToSet(tasks)
      <3>1. Tasks(Mapped(Carried, a)) \cap Tasks(Mapped(Carried, free)) = {}
        BY <2>2
      <3>2. Distinct(Mapped(Carried, a)) /\ Distinct(Mapped(Carried, free))
        BY <2>2, <2>4
      <3>3. a \in Seq(Callback) /\ free \in Seq(Callback)
        BY <1>16
      <3> HIDE DEF b
      <3>4. /\ Distinct(Mapped(Carried, a \o free))
            /\ Tasks(Mapped(Carried, a \o free)) =
                 Tasks(Mapped(Carried, a)) \cup Tasks(Mapped(Carried, free))
        BY <2>1, <3>1, <3>2, <3>3, QueueGrown
      <3> QED
        BY <2>2, <2>4, <3>4 DEF b
    <2> HIDE DEF b
    <2>6. Tasks(Mapped(Carried, b)) \cap Tasks(Mapped(Carried, wake)) = {}
      BY <2>2
    <2>7. Distinct(Mapped(Carried, b)) /\ Distinct(Mapped(Carried, wake))
      BY <2>2, <2>5
    <2>8. b \in Seq(Callback) /\ wake \in Seq(Callback)
      BY <1>8, <1>16
    <2> HIDE DEF created
    <2>9. /\ Distinct(Mapped(Carried, b \o wake))
          /\ Tasks(Mapped(Carried, b \o wake)) =
               Tasks(Mapped(Carried, b)) \cup Tasks(Mapped(Carried, wake))
      BY <2>1, <2>6, <2>7, <2>8, QueueGrown
    <2> QED
      BY <2>2, <2>5, <2>9 DEF created
  <1> HIDE DEF created
  <1>20. \E c \in Seq(Callback) :
           /\ ready' = ready \o c
           /\ \A i \in DOMAIN c : c[i].cb \notin {"start", "dispatch"}
           /\ \A i \in DOMAIN c :
                c[i].cb = "wake" => c[i].req = r /\ IsRequestComplete(r, n)
           /\ Distinct(Mapped(Requested, c)) /\ Distinct(Mapped(Carried, c))
           /\ Tasks(Mapped(Carried, c)) = { [req |-> r, node |-> m] : m \in new }
    BY <1>11, <1>14, <1>17, <1>18, <1>19
  <1> QED
    BY <1>20 DEF r, n, new

\* The next result is that of a pending task.
LEMMA NextResult ==
    ASSUME TypeOK, InPlace, results.rest # <<>>
    PROVE  LET res == Head(results.rest)
               L == Mapped(TaskIn, results.rest)
               M == Mapped(TaskIn, Tail(results.rest))
           IN  /\ res \in Response /\ TaskOf(res) \in Pending
               /\ L \in Seq(Task) /\ M \in Seq(Task)
               /\ IsInjective(L) /\ TaskOf(res) \in ToSet(L)
               /\ IsInjective(M) /\ ToSet(M) = ToSet(L) \ {TaskOf(res)}
  <1> DEFINE q == results.rest
             L == Mapped(TaskIn, q)
             M == Mapped(TaskIn, Tail(q))
  <1>1. /\ q \in Seq(Response) /\ q # <<>> /\ Head(q) \in Response
        /\ Tail(q) \in Seq(Response)
    BY HeadTailProperties DEF TypeOK, CoordinatorTypeOK, ResultsTypeOK
  <1>2. L \in Seq(Task) /\ M \in Seq(Task)
    BY <1>1, CarryTypes
  <1>3. Lists[Of("gather")] = <<L>> /\ Of("gather") \in Lane
    BY ListsAre, LanesAre DEF LaneContents
  <1>4. TaskIn[Head(q)] = TaskOf(Head(q))
    BY <1>1 DEF TaskIn
  <1>5. L # <<>> /\ Head(L) = TaskOf(Head(q)) /\ Tail(L) = M
    <2>1. q \in Seq(Entry \cup Response)
      BY <1>1, CarryTypes
    <2> HIDE DEF q
    <2>2. /\ Mapped(TaskIn, q) # <<>> /\ Head(Mapped(TaskIn, q)) = TaskIn[Head(q)]
          /\ Tail(Mapped(TaskIn, q)) = Mapped(TaskIn, Tail(q))
      BY <1>1, <2>1, MappedTail
    <2> QED
      BY <1>4, <2>2
  <1> HIDE DEF L, M, q
  <1>6. Distinct(<<L>>) /\ Tasks(<<L>>) \subseteq Pending
    BY <1>3 DEF InPlace, Apart, Everywhere
  <1>7. IsInjective(L) /\ ToSet(L) \subseteq Pending
    <2>1. Tasks(<<L>>) = ToSet(L) /\ (Distinct(<<L>>) <=> IsInjective(L))
      BY <1>2, OneList
    <2> QED
      BY <1>6, <2>1
  <1>8. /\ IsInjective(M) /\ TaskOf(Head(q)) \in ToSet(L)
        /\ ToSet(M) = ToSet(L) \ {TaskOf(Head(q))}
    BY <1>2, <1>5, <1>7, TailTask
  <1> QED
    BY <1>1, <1>2, <1>7, <1>8 DEF L, M, q

LEMMA GatherTaskCalls ==
    ASSUME TypeOK, CallsOnce, InPlace, GatherTask
    PROVE  CallsOnce'
  <1> DEFINE r == Head(results.rest).req
             n == Head(results.rest).node
  <1>1. /\ r \in Request /\ n \in Node /\ phase[r] = "live"
        /\ n \notin completedNodes[r]
    <2>1. results.rest # <<>>
      BY DEF GatherTask
    <2>2. Head(results.rest) \in Response /\ TaskOf(Head(results.rest)) \in Pending
      BY <2>1, NextResult
    <2> QED
      BY <2>2 DEF Pending, TaskOf, Response
  <1>2. PICK created \in Seq(Callback) :
          /\ ready' = ready \o created
          /\ \A i \in DOMAIN created : created[i].cb \notin {"start", "dispatch"}
          /\ \A i \in DOMAIN created :
               created[i].cb = "wake" => created[i].req = r /\ IsRequestComplete(r, n)
          /\ Distinct(Mapped(Requested, created))
    BY GatherTaskQueues
  <1>3. /\ phase' = phase
        /\ completedNodes' = [completedNodes EXCEPT ![r] = @ \cup {n}]
    BY DEF GatherTask
  <1> HIDE DEF r, n
  <1>4. \A q \in Request : completedNodes[q] \subseteq Node
    BY DEF TypeOK, CoordinatorTypeOK, RequestTypeOK
  <1>5. /\ completedNodes'[r] = completedNodes[r] \cup {n}
        /\ \A q \in Request : q # r => completedNodes'[q] = completedNodes[q]
    BY <1>1, <1>3 DEF TypeOK, CoordinatorTypeOK, RequestTypeOK
  <1>6. TimelyCallback \subseteq TimelyCallback'
    <2> SUFFICES ASSUME NEW c \in TimelyCallback PROVE c \in TimelyCallback'
      OBVIOUS
    <2>1. c \in Callback /\ (c.cb \in {"start", "wake"} => c.req \in Request)
      BY CallbackFields DEF TimelyCallback
    <2>2. c.cb = "wake" => completedNodes'[c.req] = completedNodes[c.req]
      BY <1>1, <1>5, <2>1 DEF TimelyCallback
    <2> QED
      BY <1>3, <2>1, <2>2 DEF TimelyCallback
  <1>7. \A i \in DOMAIN created : created[i] \in TimelyCallback'
    <2> SUFFICES ASSUME NEW i \in DOMAIN created PROVE created[i] \in TimelyCallback'
      OBVIOUS
    <2>1. created[i] \in Callback
      BY <1>2, ElementOfSeq, LenProperties
    <2>2. created[i].cb = "wake" =>
            created[i].req = r /\ completedNodes'[r] = Node /\ phase'[r] = "live"
      BY <1>1, <1>2, <1>3, <1>5 DEF IsRequestComplete
    <2> QED
      BY <1>2, <2>1, <2>2 DEF TimelyCallback
  <1>8. created \in Seq(TimelyCallback')
    <2>1. Len(created) \in Nat /\ created \in [1 .. Len(created) -> Callback]
      BY <1>2, LenProperties
    <2>2. created \in [1 .. Len(created) -> TimelyCallback']
      BY <1>7, <2>1
    <2> QED
      BY <2>1, <2>2
  <1>9. Tasks(Mapped(Requested, created)) \subseteq {r}
    <2>1. \A q \in Tasks(Mapped(Requested, created)) :
            \E i \in DOMAIN created : created[i].cb \in {"start", "wake"} /\ created[i].req = q
      BY <1>2, CallsSeen
    <2> QED
      BY <1>2, <2>1
  <1>10. r \notin Tasks(Calls)
    <2>1. ready \in Seq(Callback) /\ \A i \in DOMAIN ready : ready[i] \in TimelyCallback
      BY ElementOfSeq, LenProperties
         DEF CallsOnce, TypeOK, CoordinatorTypeOK, LoopTypeOK
    <2>2. \A q \in Tasks(Calls) :
            \E i \in DOMAIN ready : ready[i].cb \in {"start", "wake"} /\ ready[i].req = q
      BY <2>1, CallsSeen DEF Calls
    <2>3. \A q \in Tasks(Calls) : phase[q] = "starting" \/ completedNodes[q] = Node
      BY <2>1, <2>2 DEF TimelyCallback
    <2> QED
      BY <1>1, <2>3
  <1>11. Tasks(Calls) \cap Tasks(Mapped(Requested, created)) = {}
    BY <1>9, <1>10
  <1>12. ready' = ready \o created /\ Distinct(Mapped(Requested, created))
    BY <1>2
  <1> QED
    BY <1>6, <1>8, <1>11, <1>12, CallsGrown

-----------------------------------------------------------------------------
(* What a step does to the pending tasks *)

LEMMA PendingStable ==
    ASSUME NodesOfRequests, UNCHANGED <<phase, scheduledNodes, completedNodes>>
    PROVE  NodesOfRequests' /\ Pending' = Pending
  BY DEF NodesOfRequests, Pending

LEMMA LoopIterationPending ==
    ASSUME TypeOK, NodesOfRequests, NEW requests \in SUBSET Request, NEW due \in DueTimers,
           LoopIteration(requests, due)
    PROVE  NodesOfRequests' /\ Pending' = Pending
  <1>1. /\ \A r \in requests : phase[r] = "new" /\ phase'[r] = "starting"
        /\ \A r \in Request : r \notin requests => phase'[r] = phase[r]
        /\ UNCHANGED <<scheduledNodes, completedNodes>>
    BY DEF LoopIteration
  <1>2. NodesOfRequests'
    BY <1>1 DEF NodesOfRequests
  <1>3. \A r \in Request : phase'[r] = "live" <=> phase[r] = "live"
    BY <1>1
  <1>4. Pending' = Pending
    BY <1>1, <1>3 DEF Pending, Task
  <1> QED
    BY <1>2, <1>4

\* The request whose start or wake runs.
LEMMA HeadTimely ==
    ASSUME TypeOK, CallsOnce, NEW cb \in {"start", "wake"}, Runs(cb)
    PROVE  /\ Head(ready).req \in Request
           /\ cb = "start" => phase[Head(ready).req] = "starting"
           /\ cb = "wake" => /\ phase[Head(ready).req] = "live"
                             /\ completedNodes[Head(ready).req] = Node
  <1>1. ready # <<>> /\ Head(ready) \in Callback /\ Head(ready).cb = cb
    BY HeadRuns
  <1>2. Head(ready) \in TimelyCallback
    BY <1>1, HeadTailProperties DEF CallsOnce
  <1> QED
    BY <1>1, <1>2, CallbackFields DEF TimelyCallback

LEMMA StartRequestPending ==
    ASSUME TypeOK, CallsOnce, NodesOfRequests, StartRequest
    PROVE  LET new == { [req |-> Head(ready).req, node |-> n] : n \in Roots }
           IN  /\ NodesOfRequests' /\ Pending' = Pending \cup new
               /\ new \cap Pending = {}
  <1> DEFINE r == Head(ready).req
             new == { [req |-> r, node |-> n] : n \in Roots }
  <1>1. r \in Request /\ phase[r] = "starting"
    BY HeadTimely DEF StartRequest
  <1>2. /\ phase' = [phase EXCEPT ![r] = "live"]
        /\ scheduledNodes' = [scheduledNodes EXCEPT ![r] = Roots]
        /\ completedNodes' = completedNodes
    BY DEF StartRequest
  <1> HIDE DEF r
  <1>3. /\ phase'[r] = "live" /\ scheduledNodes'[r] = Roots /\ completedNodes'[r] = {}
        /\ \A q \in Request : q # r => /\ phase'[q] = phase[q]
                                       /\ scheduledNodes'[q] = scheduledNodes[q]
                                       /\ completedNodes'[q] = completedNodes[q]
    BY <1>1, <1>2 DEF TypeOK, CoordinatorTypeOK, RequestTypeOK, NodesOfRequests
  <1>4. NodesOfRequests'
    BY <1>3 DEF NodesOfRequests
  <1>5. new \cap Pending = {}
    BY <1>1 DEF Pending
  <1>6. Pending' = Pending \cup new
    <2>1. ASSUME NEW x \in Task, x.req # r
          PROVE  x \in Pending' <=> x \in Pending
      BY <1>3, <2>1 DEF Pending, Task
    <2>2. ASSUME NEW x \in Task, x.req = r
          PROVE  (x \in Pending' <=> x.node \in Roots) /\ x \notin Pending
      BY <1>1, <1>3, <2>2 DEF Pending
    <2>3. \A x \in Task : x \in new <=> (x.req = r /\ x.node \in Roots)
      BY DEF Task
    <2>4. new \subseteq Task /\ Pending \subseteq Task /\ Pending' \subseteq Task
      BY <1>1 DEF Task, Pending, Roots
    <2> HIDE DEF new
    <2> QED
      BY <2>1, <2>2, <2>3, <2>4
  <1> QED
    BY <1>4, <1>5, <1>6 DEF r

LEMMA FinishRequestPending ==
    ASSUME TypeOK, CallsOnce, NodesOfRequests, FinishRequest
    PROVE  NodesOfRequests' /\ Pending' = Pending
  <1> DEFINE r == Head(ready).req
  <1>1. r \in Request /\ completedNodes[r] = Node
    BY HeadTimely DEF FinishRequest
  <1>2. /\ phase' = [phase EXCEPT ![r] = "done"]
        /\ scheduledNodes' = [scheduledNodes EXCEPT ![r] = {}]
        /\ completedNodes' = [completedNodes EXCEPT ![r] = {}]
    BY DEF FinishRequest
  <1> HIDE DEF r
  <1>3. /\ phase'[r] = "done" /\ scheduledNodes'[r] = {} /\ completedNodes'[r] = {}
        /\ \A q \in Request : q # r => /\ phase'[q] = phase[q]
                                       /\ scheduledNodes'[q] = scheduledNodes[q]
                                       /\ completedNodes'[q] = completedNodes[q]
    BY <1>1, <1>2 DEF TypeOK, CoordinatorTypeOK, RequestTypeOK
  <1>4. NodesOfRequests'
    BY <1>3 DEF NodesOfRequests
  <1>5. ASSUME NEW x \in Task
        PROVE  x \in Pending' <=> x \in Pending
    BY <1>1, <1>3 DEF Pending, Task
  <1>6. Pending' = Pending
    BY <1>5 DEF Pending
  <1> QED
    BY <1>4, <1>6

LEMMA GatherTaskPending ==
    ASSUME TypeOK, NodesOfRequests, InPlace, GatherTask
    PROVE  LET task == TaskOf(Head(results.rest))
               new == { [req |-> task.req, node |-> m] : m \in NewlyReady(task.req, task.node) }
           IN  /\ NodesOfRequests' /\ Pending' = (Pending \ {task}) \cup new
               /\ new \cap Pending = {}
  <1> DEFINE task == TaskOf(Head(results.rest))
             r == task.req
             n == task.node
             fresh == NewlyReady(r, n)
             new == { [req |-> r, node |-> m] : m \in fresh }
  <1>1. /\ task \in Pending /\ Head(results.rest).req = r /\ Head(results.rest).node = n
    <2>1. results.rest # <<>>
      BY DEF GatherTask
    <2>2. Head(results.rest) \in Response /\ TaskOf(Head(results.rest)) \in Pending
      BY <2>1, NextResult
    <2> QED
      BY <2>2 DEF TaskOf
  <1>2. /\ phase' = phase
        /\ scheduledNodes' = [scheduledNodes EXCEPT ![r] = @ \cup fresh]
        /\ completedNodes' = [completedNodes EXCEPT ![r] = @ \cup {n}]
    BY <1>1 DEF GatherTask
  <1>3. fresh \subseteq Node \ scheduledNodes[r]
    BY DEF NewlyReady, Successors
  <1>4. /\ task \in Task /\ task = [req |-> r, node |-> n] /\ r \in Request /\ n \in Node
        /\ phase[r] = "live" /\ n \in scheduledNodes[r] /\ n \notin completedNodes[r]
    BY <1>1 DEF Pending, Task
  <1> HIDE DEF task, r, n, fresh
  <1>5. /\ phase'[r] = "live" /\ scheduledNodes'[r] = scheduledNodes[r] \cup fresh
        /\ completedNodes'[r] = completedNodes[r] \cup {n}
        /\ \A q \in Request : q # r => /\ phase'[q] = phase[q]
                                       /\ scheduledNodes'[q] = scheduledNodes[q]
                                       /\ completedNodes'[q] = completedNodes[q]
    BY <1>2, <1>4 DEF TypeOK, CoordinatorTypeOK, RequestTypeOK
  <1>6. NodesOfRequests'
    BY <1>4, <1>5 DEF NodesOfRequests
  <1>7. completedNodes[r] \subseteq scheduledNodes[r]
    BY <1>4 DEF NodesOfRequests
  <1>8. new \cap Pending = {}
    BY <1>3 DEF Pending
  <1>9. Pending' = (Pending \ {task}) \cup new
    <2>1. ASSUME NEW x \in Task, x.req # r
          PROVE  x \in Pending' <=> x \in Pending
      BY <1>5, <2>1 DEF Pending, Task
    <2>2. ASSUME NEW x \in Task, x.req = r
          PROVE  x \in Pending' <=> \/ x.node \in fresh
                                    \/ x \in Pending /\ x.node # n
      BY <1>3, <1>4, <1>5, <1>7, <2>2 DEF Pending
    <2>3. \A x \in Task : /\ x \in new <=> (x.req = r /\ x.node \in fresh)
                          /\ x = task <=> (x.req = r /\ x.node = n)
      BY <1>4 DEF Task
    <2>4. new \subseteq Task /\ Pending \subseteq Task /\ Pending' \subseteq Task
      BY <1>3, <1>4 DEF Task, Pending
    <2> HIDE DEF new
    <2> QED
      BY <2>1, <2>2, <2>3, <2>4
  <1> QED
    BY <1>6, <1>8, <1>9 DEF r, n, fresh, task

-----------------------------------------------------------------------------
(* The lanes a step leaves alone, and those it changes *)

LEMMA Frame ==
    ASSUME TypeOK, TypeOK', NEW K,
           Of("ready") \in K \/ ready' = ready,
           Of("list") \in K \/ readyTasks' = readyTasks,
           Of("group") \in K \/ group' = group,
           Of("gather") \in K \/ results' = results,
           \A w \in Worker :
             /\ <<"queue", w>> \in K \/ taskQueue'[w] = taskQueue[w]
             /\ <<"run", w>> \in K \/ current'[w].entries = current[w].entries
             /\ <<"result", w>> \in K \/ resultQueue'[w] = resultQueue[w]
    PROVE  \A l \in Lane : l \notin K => Lists'[l] = Lists[l]
  <1>1. LaneContents
    BY ListsAre
  <1>2. LaneContents'
    BY ListsAreNext
  <1>3. /\ Of("ready") \notin K => Lists'[Of("ready")] = Lists[Of("ready")]
        /\ Of("list") \notin K => Lists'[Of("list")] = Lists[Of("list")]
        /\ Of("group") \notin K => Lists'[Of("group")] = Lists[Of("group")]
        /\ Of("gather") \notin K => Lists'[Of("gather")] = Lists[Of("gather")]
    BY <1>1, <1>2 DEF LaneContents
  <1>4. ASSUME NEW w \in Worker
        PROVE  /\ <<"queue", w>> \notin K => Lists'[<<"queue", w>>] = Lists[<<"queue", w>>]
               /\ <<"run", w>> \notin K => Lists'[<<"run", w>>] = Lists[<<"run", w>>]
               /\ <<"result", w>> \notin K => Lists'[<<"result", w>>] = Lists[<<"result", w>>]
    BY <1>1, <1>2, ZenonT(60) DEF LaneContents
  <1> SUFFICES ASSUME NEW l \in Lane, l \notin K PROVE Lists'[l] = Lists[l]
    OBVIOUS
  <1>5. CASE \E name \in {"ready", "list", "group", "gather"} : l = Of(name)
    BY <1>3, <1>5
  <1>6. CASE \E name \in {"queue", "run", "result"}, w \in Worker : l = <<name, w>>
    BY <1>4, <1>6, ZenonT(60)
  <1> QED
    BY <1>5, <1>6, LanesAre

\* No list changes.
LEMMA Unmoved ==
    ASSUME TypeOK, TypeOK', InPlace, Pending' = Pending,
           UNCHANGED <<ready, readyTasks, group, results>>,
           \A w \in Worker : /\ taskQueue'[w] = taskQueue[w]
                             /\ current'[w].entries = current[w].entries
                             /\ resultQueue'[w] = resultQueue[w]
    PROVE  InPlace'
  <1> DEFINE K == {}
  <1>0. \A l \in Lane : l \notin K
    OBVIOUS
  <1> HIDE DEF K
  <1>1. \A l \in Lane : l \notin K => Lists'[l] = Lists[l]
    <2>1. ready' = ready /\ readyTasks' = readyTasks /\ group' = group /\ results' = results
      OBVIOUS
    <2> QED
      BY <2>1, Frame
  <1>2. Apart(Lists') /\ Everywhere(Lists') = Everywhere(Lists)
    BY <1>0, <1>1 DEF InPlace, Apart, Everywhere
  <1> QED
    BY <1>2 DEF InPlace

\* The callbacks run: the head gives up what it carries.
LEMMA ReadyRan ==
    ASSUME TypeOK, InPlace, ready # <<>>, Ran(<<>>)
    PROVE  LET g == Carried[Head(ready)]
           IN  /\ IsInjective(g) /\ ToSet(g) \subseteq Tasks(Lists[Of("ready")])
               /\ Distinct(Mapped(Carried, ready'))
               /\ Tasks(Mapped(Carried, ready')) = Tasks(Lists[Of("ready")]) \ ToSet(g)
  <1>1. ready \in Seq(Callback) /\ Carried \in [Callback -> Seq(Task)]
    BY CarryTypes DEF TypeOK, CoordinatorTypeOK, LoopTypeOK
  <1>2. Lists[Of("ready")] = Mapped(Carried, ready) /\ Of("ready") \in Lane
    BY ListsAre, LanesAre DEF LaneContents
  <1>3. Distinct(Mapped(Carried, ready))
    BY <1>2 DEF InPlace, Apart
  <1>4. ready' = Tail(ready)
    <2>1. Tail(ready) \in Seq(Callback)
      BY <1>1, HeadTailProperties
    <2>2. Tail(ready) \o <<>> = Tail(ready)
      BY <2>1, ConcatEmptySeq
    <2> QED
      BY <2>2 DEF Ran
  <1> QED
    BY <1>1, <1>2, <1>3, <1>4, QueueTail

\* Callbacks are created: they carry tasks that are nowhere else.
LEMMA ReadyGrown ==
    ASSUME TypeOK, InPlace, NEW c \in Seq(Callback), ready' = ready \o c,
           Distinct(Mapped(Carried, c)),
           Tasks(Lists[Of("ready")]) \cap Tasks(Mapped(Carried, c)) = {}
    PROVE  /\ Distinct(Mapped(Carried, ready'))
           /\ Tasks(Mapped(Carried, ready')) =
                Tasks(Lists[Of("ready")]) \cup Tasks(Mapped(Carried, c))
  <1>1. ready \in Seq(Callback) /\ Carried \in [Callback -> Seq(Task)]
    BY CarryTypes DEF TypeOK, CoordinatorTypeOK, LoopTypeOK
  <1>2. Lists[Of("ready")] = Mapped(Carried, ready) /\ Of("ready") \in Lane
    BY ListsAre, LanesAre DEF LaneContents
  <1>3. /\ Distinct(Mapped(Carried, ready))
        /\ Tasks(Mapped(Carried, ready)) \cap Tasks(Mapped(Carried, c)) = {}
    BY <1>2 DEF InPlace, Apart
  <1>4. /\ Distinct(Mapped(Carried, ready \o c))
        /\ Tasks(Mapped(Carried, ready \o c)) =
             Tasks(Mapped(Carried, ready)) \cup Tasks(Mapped(Carried, c))
    BY <1>1, <1>3, QueueGrown
  <1> QED
    BY <1>2, <1>4

\* Only the callbacks change, and carry the same tasks.
LEMMA ReadyRelisted ==
    ASSUME TypeOK, TypeOK', InPlace, Pending' = Pending,
           Distinct(Mapped(Carried, ready')),
           Tasks(Mapped(Carried, ready')) = Tasks(Lists[Of("ready")]),
           UNCHANGED <<readyTasks, group, results>>,
           \A w \in Worker : /\ taskQueue'[w] = taskQueue[w]
                             /\ current'[w].entries = current[w].entries
                             /\ resultQueue'[w] = resultQueue[w]
    PROVE  InPlace'
  <1> DEFINE k == Of("ready")
  <1>1. k \in Lane /\ Lists'[k] = Mapped(Carried, ready')
    BY ListsAreNext, LanesAre DEF LaneContents
  <1>2. \A l \in Lane : l \notin {k} => Lists'[l] = Lists[l]
    BY Frame
  <1>3. /\ Distinct(Lists'[k]) /\ Tasks(Lists'[k]) = Tasks(Lists[k])
        /\ Apart(Lists) /\ Everywhere(Lists) = Pending
    BY <1>1 DEF InPlace
  <1> HIDE DEF k
  <1>4. Apart(Lists') /\ Everywhere(Lists') = Everywhere(Lists)
    BY <1>1, <1>2, <1>3, Relisted
  <1> QED
    BY <1>3, <1>4 DEF InPlace

\* Tasks of lane k go to lane l, or leave the lanes, or are new.
LEMMA Moved ==
    ASSUME TypeOK, TypeOK', InPlace, NEW k \in Lane, NEW l \in Lane, k # l,
           NEW G, NEW N, Distinct(Lists'[k]), Distinct(Lists'[l]),
           G \subseteq Tasks(Lists[k]), N \cap Pending \subseteq G,
           Tasks(Lists'[k]) = Tasks(Lists[k]) \ G,
           Tasks(Lists'[l]) = Tasks(Lists[l]) \cup N,
           \A m \in Lane : m \notin {k, l} => Lists'[m] = Lists[m],
           Pending' = (Pending \ G) \cup N
    PROVE  InPlace'
  <1>1. Apart(Lists) /\ Everywhere(Lists) = Pending
    BY DEF InPlace
  <1>2. Moves(Lists, Lists', k, l, G, N)
    BY <1>1 DEF Moves
  <1>3. Apart(Lists') /\ Everywhere(Lists') = (Everywhere(Lists) \ G) \cup N
    BY <1>1, <1>2, Rearranged
  <1> QED
    BY <1>1, <1>3 DEF InPlace

\* What is in a lane: lists that share nothing, of pending tasks.
LEMMA LanePending ==
    ASSUME InPlace, NEW l \in Lane
    PROVE  Distinct(Lists[l]) /\ Tasks(Lists[l]) \subseteq Pending
  BY DEF InPlace, Apart, Everywhere

LEMMA LanesDisjoint ==
    ASSUME InPlace, NEW k \in Lane, NEW l \in Lane, k # l
    PROVE  Tasks(Lists[k]) \cap Tasks(Lists[l]) = {}
  BY DEF InPlace, Apart

-----------------------------------------------------------------------------
(* The steps of the event loop *)

LEMMA NothingCarried ==
    \A c \in Callback : c.cb \notin {"put", "dispatch"} =>
        Carried[c] = <<>> /\ ToSet(Carried[c]) = {}
  <1>1. ToSet(<<>>) = {}
    BY DEF ToSet
  <1> QED
    BY <1>1 DEF Carried

\* Callbacks that carry nothing are added.
LEMMA ReadyGrownBare ==
    ASSUME TypeOK, InPlace, NEW c \in Seq(Callback), ready' = ready \o c,
           \A i \in DOMAIN c : c[i].cb \notin {"put", "dispatch"}
    PROVE  /\ Distinct(Mapped(Carried, ready'))
           /\ Tasks(Mapped(Carried, ready')) = Tasks(Lists[Of("ready")])
  <1>1. \A i \in DOMAIN c : Carried[c[i]] = <<>>
    <2>1. \A i \in DOMAIN c : c[i] \in Callback
      BY ElementOfSeq, LenProperties
    <2> QED
      BY <2>1, NothingCarried
  <1>2. Carried \in [Callback -> Seq(Task)]
    BY CarryTypes
  <1>3. Distinct(Mapped(Carried, c)) /\ Tasks(Mapped(Carried, c)) = {}
    BY <1>1, <1>2, Bare
  <1>4. Tasks(Lists[Of("ready")]) \cap Tasks(Mapped(Carried, c)) = {}
    BY <1>3
  <1> QED
    BY <1>3, <1>4, ReadyGrown

LEMMA LoopIterationInPlace ==
    ASSUME TypeOK, TypeOK', NodesOfRequests, InPlace,
           NEW requests \in SUBSET Request, NEW due \in DueTimers,
           LoopIteration(requests, due), UNCHANGED workerVars
    PROVE  InPlace'
  <1>1. PICK starts, turns \in Seq(Callback) :
             /\ ready' = ready \o (starts \o turns)
             /\ \A i \in DOMAIN turns : turns[i].cb \in Loops
             /\ \A i \in DOMAIN starts : starts[i].cb = "start" /\ starts[i].req \in requests
    BY LoopIterationQueues
  <1> DEFINE c == starts \o turns
  <1>2. /\ c \in Seq(Callback) /\ \A i \in DOMAIN starts : c[i] = starts[i]
        /\ \A i \in DOMAIN turns : c[Len(starts) + i] = turns[i]
        /\ \A i \in DOMAIN c : \/ i \in DOMAIN starts
                               \/ /\ i - Len(starts) \in DOMAIN turns
                                  /\ i = Len(starts) + (i - Len(starts))
    BY Positions
  <1>3. ready' = ready \o c
    BY <1>1
  <1> HIDE DEF c
  <1>4. \A i \in DOMAIN c : c[i].cb \notin {"put", "dispatch"}
    BY <1>1, <1>2 DEF Loops
  <1>5. /\ Distinct(Mapped(Carried, ready'))
        /\ Tasks(Mapped(Carried, ready')) = Tasks(Lists[Of("ready")])
    BY <1>2, <1>3, <1>4, ReadyGrownBare
  <1>6. Pending' = Pending
    BY LoopIterationPending
  <1>7. /\ UNCHANGED <<readyTasks, group, results>>
        /\ \A w \in Worker : /\ taskQueue'[w] = taskQueue[w]
                             /\ current'[w].entries = current[w].entries
                             /\ resultQueue'[w] = resultQueue[w]
    BY DEF LoopIteration, scheduleVars, channelVars, workerVars
  <1> QED
    BY <1>5, <1>6, <1>7, ReadyRelisted

\* A callback that carries no task and starts no request.
LEMMA BareCallbackInPlace ==
    ASSUME TypeOK, TypeOK', CallsOnce, NodesOfRequests, InPlace, UNCHANGED workerVars,
           \/ NotifyLazyInputAvailable \/ UpdateFreeTensorDict \/ FinishRequest
           \/ SchedulerWake \/ GatherWake
    PROVE  InPlace'
  <1>1. PICK cb \in {"notify", "free", "wake", "scheduler", "gather"} :
          Runs(cb) /\ Ran(<<>>)
    BY DEF NotifyLazyInputAvailable, UpdateFreeTensorDict, FinishRequest, SchedulerWake,
           GatherWake
  <1>2. ready # <<>> /\ Head(ready) \in Callback /\ Head(ready).cb = cb
    BY <1>1, HeadRuns
  <1>3. ToSet(Carried[Head(ready)]) = {}
    BY <1>2, NothingCarried
  <1>4. /\ Distinct(Mapped(Carried, ready'))
        /\ Tasks(Mapped(Carried, ready')) = Tasks(Lists[Of("ready")])
    BY <1>1, <1>2, <1>3, ReadyRan
  <1>5. Pending' = Pending
    <2>1. CASE FinishRequest
      BY <2>1, FinishRequestPending
    <2>2. CASE ~FinishRequest
      BY <2>2, PendingStable DEF NotifyLazyInputAvailable, UpdateFreeTensorDict,
         SchedulerWake, GatherWake, requestVars
    <2> QED
      BY <2>1, <2>2
  <1>6. UNCHANGED <<readyTasks, group, results, taskQueue, resultQueue, current>>
    BY DEF NotifyLazyInputAvailable, UpdateFreeTensorDict, FinishRequest, SchedulerWake,
           GatherWake, scheduleVars, channelVars, workerVars
  <1> QED
    BY <1>4, <1>5, <1>6, ReadyRelisted

\* The roots of a request that starts go to the end of the list.
LEMMA StartRequestInPlace ==
    ASSUME TypeOK, TypeOK', CallsOnce, NodesOfRequests, InPlace, UNCHANGED workerVars,
           StartRequest
    PROVE  InPlace'
  <1> DEFINE r == Head(ready).req
             new == { [req |-> r, node |-> n] : n \in Roots }
             k == Of("ready")
             l == Of("list")
  <1>1. k \in Lane /\ l \in Lane /\ k # l
    BY LanesAre
  <1>2. /\ Lists[l] = <<readyTasks>> /\ Lists'[l] = <<readyTasks'>>
        /\ Lists'[k] = Mapped(Carried, ready') /\ readyTasks \in Seq(Task)
    BY ListsAre, ListsAreNext
       DEF LaneContents, TypeOK, CoordinatorTypeOK, ScheduleTypeOK
  <1>3. Pending' = Pending \cup new /\ new \cap Pending = {} /\ r \in Request
    BY StartRequestPending, HeadTimely DEF StartRequest
  <1>4. Distinct(Lists'[k]) /\ Tasks(Lists'[k]) = Tasks(Lists[k])
    <2>1. ready # <<>> /\ Head(ready) \in Callback /\ Head(ready).cb = "start" /\ Ran(<<>>)
      BY HeadRuns DEF StartRequest
    <2>2. ToSet(Carried[Head(ready)]) = {}
      BY <2>1, NothingCarried
    <2> QED
      BY <1>2, <2>1, <2>2, ReadyRan
  <1>5. PICK order \in SetToSeqs(Roots) :
          readyTasks' = readyTasks \o [i \in DOMAIN order |-> [req |-> r, node |-> order[i]]]
    BY DEF StartRequest
  <1>6. order \in Seq(Roots) /\ IsInjective(order) /\ ToSet(order) = Roots
    <2>1. IsFiniteSet(Roots)
      BY FS_Subset, WorkflowAssumption DEF Roots
    <2> QED
      BY <1>5, <2>1, OrderOfSet
  <1> DEFINE tasks == [i \in DOMAIN order |-> [req |-> r, node |-> order[i]]]
  <1> HIDE DEF r, k, l
  <1>7. tasks \in Seq(Task) /\ IsInjective(tasks) /\ ToSet(tasks) = new
    <2>1. Len(order) \in Nat /\ DOMAIN order = 1 .. Len(order)
          /\ \A i \in 1 .. Len(order) : order[i] \in Node
      BY <1>6, ElementOfSeq, LenProperties DEF Roots
    <2>2. tasks \in [1 .. Len(order) -> Task]
      BY <1>3, <2>1 DEF Task
    <2>3. IsInjective(tasks)
      BY <1>6 DEF IsInjective
    <2>4. ToSet(tasks) = new
      BY <1>6 DEF ToSet
    <2> QED
      BY <2>1, <2>2, <2>3, <2>4
  <1>8. readyTasks' = readyTasks \o tasks
    BY <1>5
  <1> HIDE DEF tasks, new
  <1>9. /\ IsInjective(readyTasks) /\ ToSet(readyTasks) = Tasks(Lists[l])
        /\ ToSet(readyTasks) \cap new = {}
    BY <1>1, <1>2, <1>3, LanePending, OneList
  <1>10. /\ IsInjective(readyTasks') /\ ToSet(readyTasks') = Tasks(Lists[l]) \cup new
         /\ readyTasks' \in Seq(Task)
    BY <1>2, <1>7, <1>8, <1>9, JoinedList
  <1>11. Distinct(Lists'[l]) /\ Tasks(Lists'[l]) = Tasks(Lists[l]) \cup new
    BY <1>2, <1>10, OneList
  <1>12. \A m \in Lane : m \notin {k, l} => Lists'[m] = Lists[m]
    <2> DEFINE K == {k, l}
    <2>1. Of("ready") \in K /\ Of("list") \in K
      BY DEF k, l
    <2> HIDE DEF K
    <2>2. UNCHANGED <<group, results, taskQueue, resultQueue, current>>
      BY DEF StartRequest, channelVars, workerVars
    <2>3. \A m \in Lane : m \notin K => Lists'[m] = Lists[m]
      BY <2>1, <2>2, Frame
    <2> QED
      BY <2>3 DEF K
  <1> DEFINE G == {}
  <1>13. /\ G \subseteq Tasks(Lists[k]) /\ new \cap Pending \subseteq G
         /\ Tasks(Lists'[k]) = Tasks(Lists[k]) \ G /\ Pending' = (Pending \ G) \cup new
    BY <1>3, <1>4
  <1> HIDE DEF G
  <1> QED
    BY <1>1, <1>4, <1>11, <1>12, <1>13, Moved

\* The task of the first element of a lane that is one list.
LEMMA OneListLane ==
    ASSUME NEW T, NEW s \in Seq(T), NEW L, L = <<s>>
    PROVE  Tasks(L) = ToSet(s) /\ (Distinct(L) <=> IsInjective(s))
  BY OneList

\* How many places of a list there are in a set of places.
LEMMA Places ==
    ASSUME NEW n \in Nat, NEW D \in SUBSET (1 .. n)
    PROVE  Cardinality(D) \in 0 .. n
  <1>1. IsFiniteSet(1 .. n) /\ Cardinality(1 .. n) = n
    BY FS_Interval
  <1>2. IsFiniteSet(D) /\ Cardinality(D) <= n
    BY <1>1, FS_Subset
  <1>3. Cardinality(D) \in Nat
    BY <1>2, FS_CardinalityType
  <1> QED
    BY <1>2, <1>3

\* A task put: from its callback to the list.
LEMMA PutTaskInPlace ==
    ASSUME TypeOK, TypeOK', NodesOfRequests, InPlace, UNCHANGED workerVars, PutTask
    PROVE  InPlace'
  <1> DEFINE x == Head(ready).task
             k == Of("ready")
             l == Of("list")
  <1>1. k \in Lane /\ l \in Lane /\ k # l
    BY LanesAre
  <1>2. /\ Lists[l] = <<readyTasks>> /\ Lists'[l] = <<readyTasks'>>
        /\ Lists'[k] = Mapped(Carried, ready')
        /\ readyTasks \in Seq(Task) /\ readyTasks' \in Seq(Task)
    BY ListsAre, ListsAreNext
       DEF LaneContents, TypeOK, CoordinatorTypeOK, ScheduleTypeOK
  <1>3. /\ ready # <<>> /\ Ran(<<>>) /\ Head(ready) \in Callback /\ x \in Task
        /\ Carried[Head(ready)] = <<x>>
    <2>1. /\ ready # <<>> /\ Head(ready) \in Callback /\ Head(ready).cb = "put"
          /\ Ran(<<>>)
      BY HeadRuns DEF PutTask
    <2> QED
      BY <2>1, CallbackFields DEF Carried
  <1>4. ToSet(<<x>>) = {x}
    BY DEF ToSet
  <1>5. /\ {x} \subseteq Tasks(Lists[k]) /\ Distinct(Lists'[k])
        /\ Tasks(Lists'[k]) = Tasks(Lists[k]) \ {x}
    BY <1>2, <1>3, <1>4, ReadyRan
  <1>6. IsInjective(readyTasks) /\ ToSet(readyTasks) = Tasks(Lists[l])
    BY <1>1, <1>2, LanePending, OneListLane
  <1>7. x \notin ToSet(readyTasks) /\ x \in Pending
    BY <1>1, <1>5, <1>6, LanesDisjoint, LanePending
  <1> HIDE DEF x, k, l
  <1>8. IsInjective(readyTasks') /\ ToSet(readyTasks') = Tasks(Lists[l]) \cup {x}
    <2> DEFINE C == Cardinality({ i \in DOMAIN readyTasks : NotAfter(readyTasks[i], x) })
    <2>1. readyTasks' = InsertAt(readyTasks, 1 + C, x)
      BY DEF PutTask, Enqueued, x
    <2>2. 1 + C \in 1 .. (Len(readyTasks) + 1)
      <3>0. Len(readyTasks) \in Nat /\ DOMAIN readyTasks = 1 .. Len(readyTasks)
        BY <1>2, LenProperties
      <3> DEFINE D == { i \in DOMAIN readyTasks : NotAfter(readyTasks[i], x) }
      <3>2. D \in SUBSET (1 .. Len(readyTasks))
        BY <3>0
      <3> HIDE DEF D
      <3>3. Cardinality(D) \in 0 .. Len(readyTasks)
        BY <3>0, <3>2, Places
      <3>5. C = Cardinality(D)
        BY DEF D
      <3> HIDE DEF C
      <3> QED
        BY <3>0, <3>3, <3>5
    <2> HIDE DEF C
    <2> QED
      BY <1>2, <1>3, <1>6, <1>7, <2>1, <2>2, InsertedTask
  <1>9. Distinct(Lists'[l]) /\ Tasks(Lists'[l]) = Tasks(Lists[l]) \cup {x}
    BY <1>2, <1>8, OneListLane
  <1>10. \A m \in Lane : m \notin {k, l} => Lists'[m] = Lists[m]
    <2> DEFINE K == {k, l}
    <2>1. Of("ready") \in K /\ Of("list") \in K
      BY DEF k, l
    <2> HIDE DEF K
    <2>2. UNCHANGED <<group, results, taskQueue, resultQueue, current>>
      BY DEF PutTask, channelVars, workerVars
    <2>3. \A m \in Lane : m \notin K => Lists'[m] = Lists[m]
      BY <2>1, <2>2, Frame
    <2> QED
      BY <2>3 DEF K
  <1>11. Pending' = (Pending \ {x}) \cup {x} /\ {x} \cap Pending \subseteq {x}
    <2>1. Pending' = Pending
      BY PendingStable DEF PutTask, requestVars
    <2> QED
      BY <1>7, <2>1
  <1> QED
    BY <1>1, <1>5, <1>9, <1>10, <1>11, Moved

\* A group is sent: from its callback to the worker's queue.
LEMMA ScheduleTaskGroupInPlace ==
    ASSUME TypeOK, TypeOK', NodesOfRequests, InPlace, UNCHANGED workerVars,
           ScheduleTaskGroup
    PROVE  InPlace'
  <1> DEFINE g == Head(ready).group
             w == Head(ready).dst
             m == [entries |-> [i \in DOMAIN g |-> EntryFor(g[i])], free |-> freeDict[w]]
             k == Of("ready")
             l == <<"queue", w>>
  <1>1. /\ ready # <<>> /\ Head(ready) \in Callback /\ Head(ready).cb = "dispatch"
        /\ Ran(<<>>)
    BY HeadRuns DEF ScheduleTaskGroup
  <1>2. g \in Seq(Task) /\ w \in Worker /\ Carried[Head(ready)] = g
    BY <1>1, CallbackFields DEF Carried
  <1>3. k \in Lane /\ l \in Lane /\ k # l
    BY <1>2, LanesAre
  <1>4. /\ Lists[l] = Mapped(Sent, taskQueue[w]) /\ Lists'[l] = Mapped(Sent, taskQueue'[w])
        /\ Lists'[k] = Mapped(Carried, ready') /\ Lists[l] \in Seq(Seq(Task))
        /\ taskQueue \in [Worker -> Seq(TaskMessage)]
    BY <1>2, <1>3, ListsAre, ListsAreNext
       DEF LaneContents, TypeOK, CoordinatorTypeOK, ChannelTypeOK
  <1>5. /\ IsInjective(g) /\ ToSet(g) \subseteq Tasks(Lists[k])
        /\ Distinct(Lists'[k]) /\ Tasks(Lists'[k]) = Tasks(Lists[k]) \ ToSet(g)
    BY <1>1, <1>2, <1>4, ReadyRan
  <1>6. m \in TaskMessage /\ Sent[m] = g
    <2>1. \A i \in DOMAIN g : g[i] \in Task
      BY <1>2, ElementOfSeq, LenProperties
    <2> DEFINE entries == [i \in DOMAIN g |-> EntryFor(g[i])]
    <2> HIDE DEF g
    <2>2. \A i \in DOMAIN g : /\ EntryFor(g[i]) \in Entry
                              /\ TaskIn[EntryFor(g[i])] = g[i]
      <3> SUFFICES ASSUME NEW i \in DOMAIN g
                   PROVE  EntryFor(g[i]) \in Entry /\ TaskIn[EntryFor(g[i])] = g[i]
        OBVIOUS
      <3>1. /\ EntryFor(g[i]) \in Entry /\ EntryFor(g[i]).req = g[i].req
            /\ EntryFor(g[i]).node = g[i].node
        BY <2>1, EntryForType
      <3>2. TaskIn[EntryFor(g[i])] = [req |-> g[i].req, node |-> g[i].node]
        BY <3>1 DEF TaskIn, TaskOf
      <3> QED
        BY <2>1, <3>1, <3>2 DEF Task
    <2>3. entries \in Seq(Entry)
      <3>1. Len(g) \in Nat /\ DOMAIN g = 1 .. Len(g)
        BY <1>2, LenProperties
      <3>2. entries \in [1 .. Len(g) -> Entry]
        BY <2>2, <3>1
      <3> QED
        BY <3>1, <3>2
    <2>4. Mapped(TaskIn, entries) = g
      <3>1. Mapped(TaskIn, entries) = [i \in DOMAIN g |-> g[i]]
        BY <2>2 DEF Mapped
      <3>2. g = [i \in DOMAIN g |-> g[i]]
        BY <1>2, LenProperties
      <3> QED
        BY <3>1, <3>2
    <2>5. freeDict[w] \subseteq Buffer
      BY <1>2 DEF TypeOK, CoordinatorTypeOK, TensorTypeOK
    <2>6. m = [entries |-> entries, free |-> freeDict[w]]
      OBVIOUS
    <2> HIDE DEF entries, m
    <2>7. m \in TaskMessage
      BY <2>3, <2>5, <2>6 DEF TaskMessage
    <2>8. Sent[m] = Mapped(TaskIn, entries)
      BY <2>6, <2>7 DEF Sent
    <2> QED
      BY <2>4, <2>7, <2>8
  <1>7. taskQueue' = [taskQueue EXCEPT ![w] = Append(@, m)]
    BY DEF ScheduleTaskGroup
  <1> HIDE DEF g, w, m, k, l
  <1>8. taskQueue'[w] = Append(taskQueue[w], m)
        /\ \A v \in Worker : v # w => taskQueue'[v] = taskQueue[v]
    BY <1>2, <1>4, <1>7
  <1>9. Lists'[l] = Append(Lists[l], g)
    <2>1. taskQueue[w] \in Seq(TaskMessage)
      BY <1>2, <1>4
    <2>2. Mapped(Sent, Append(taskQueue[w], m)) = Append(Mapped(Sent, taskQueue[w]), Sent[m])
      BY <1>6, <2>1, MappedAppend
    <2> QED
      BY <1>4, <1>6, <1>8, <2>2
  <1>10. Distinct(Lists'[l]) /\ Tasks(Lists'[l]) = Tasks(Lists[l]) \cup ToSet(g)
    <2>1. Distinct(Lists[l]) /\ Tasks(Lists[l]) \cap ToSet(g) = {}
      BY <1>3, <1>5, LanePending, LanesDisjoint
    <2> QED
      BY <1>2, <1>4, <1>5, <1>9, <2>1, AppendList
  <1>11. \A n \in Lane : n \notin {k, l} => Lists'[n] = Lists[n]
    <2> DEFINE K == {k, l}
    <2>1. Of("ready") \in K /\ <<"queue", w>> \in K
      BY DEF k, l
    <2> HIDE DEF K
    <2>2. UNCHANGED <<readyTasks, group, results, resultQueue, current>>
      BY DEF ScheduleTaskGroup, scheduleVars, workerVars
    <2>3. \A v \in Worker : <<"queue", v>> \in K \/ taskQueue'[v] = taskQueue[v]
      BY <1>8, <2>1
    <2>4. \A n \in Lane : n \notin K => Lists'[n] = Lists[n]
      BY <2>1, <2>2, <2>3, Frame
    <2> QED
      BY <2>4 DEF K
  <1>12. /\ Pending' = (Pending \ ToSet(g)) \cup ToSet(g)
         /\ ToSet(g) \cap Pending \subseteq ToSet(g)
    <2>1. Pending' = Pending
      BY PendingStable DEF ScheduleTaskGroup, requestVars
    <2>2. ToSet(g) \subseteq Pending
      BY <1>3, <1>5, LanePending
    <2> QED
      BY <2>1, <2>2
  <1> QED
    BY <1>3, <1>5, <1>10, <1>11, <1>12, Moved

-----------------------------------------------------------------------------
(* The steps of the two loops *)

\* The list and the group, as lanes.
LEMMA ListAndGroup ==
    ASSUME TypeOK, TypeOK', InPlace
    PROVE  /\ Of("list") \in Lane /\ Of("group") \in Lane /\ Of("list") # Of("group")
           /\ readyTasks \in Seq(Task) /\ group \in Seq(Task)
           /\ IsInjective(readyTasks) /\ Tasks(Lists[Of("list")]) = ToSet(readyTasks)
           /\ IsInjective(group) /\ Tasks(Lists[Of("group")]) = ToSet(group)
           /\ Distinct(Lists'[Of("list")]) <=> IsInjective(readyTasks')
           /\ Tasks(Lists'[Of("list")]) = ToSet(readyTasks')
           /\ Distinct(Lists'[Of("group")]) <=> IsInjective(group')
           /\ Tasks(Lists'[Of("group")]) = ToSet(group')
           /\ ToSet(readyTasks) \cap ToSet(group) = {}
           /\ ToSet(readyTasks) \subseteq Pending /\ ToSet(group) \subseteq Pending
  <1>1. Of("list") \in Lane /\ Of("group") \in Lane /\ Of("list") # Of("group")
    BY LanesAre
  <1>2. /\ Lists[Of("list")] = <<readyTasks>> /\ Lists'[Of("list")] = <<readyTasks'>>
        /\ Lists[Of("group")] = <<group>> /\ Lists'[Of("group")] = <<group'>>
        /\ readyTasks \in Seq(Task) /\ readyTasks' \in Seq(Task)
        /\ group \in Seq(Task) /\ group' \in Seq(Task)
    BY ListsAre, ListsAreNext
       DEF LaneContents, TypeOK, CoordinatorTypeOK, ScheduleTypeOK
  <1>3. /\ Tasks(Lists[Of("list")]) = ToSet(readyTasks)
        /\ Distinct(Lists[Of("list")]) <=> IsInjective(readyTasks)
        /\ Tasks(Lists'[Of("list")]) = ToSet(readyTasks')
        /\ Distinct(Lists'[Of("list")]) <=> IsInjective(readyTasks')
    BY <1>2, OneListLane
  <1>4. /\ Tasks(Lists[Of("group")]) = ToSet(group)
        /\ Distinct(Lists[Of("group")]) <=> IsInjective(group)
        /\ Tasks(Lists'[Of("group")]) = ToSet(group')
        /\ Distinct(Lists'[Of("group")]) <=> IsInjective(group')
    BY <1>2, OneListLane
  <1> QED
    BY <1>1, <1>2, <1>3, <1>4, LanePending, LanesDisjoint

\* A task goes from the list to the group.
LEMMA TaskJoins ==
    ASSUME TypeOK, TypeOK', InPlace, NEW x \in ToSet(readyTasks),
           IsInjective(readyTasks'), ToSet(readyTasks') = ToSet(readyTasks) \ {x},
           IsInjective(group'), ToSet(group') = ToSet(group) \cup {x},
           Pending' = Pending, UNCHANGED <<ready, results, channelVars, workerVars>>
    PROVE  InPlace'
  <1> DEFINE k == Of("list")
             l == Of("group")
  <1>1. /\ k \in Lane /\ l \in Lane /\ k # l
        /\ Distinct(Lists'[k]) /\ Distinct(Lists'[l])
        /\ {x} \subseteq Tasks(Lists[k]) /\ Tasks(Lists'[k]) = Tasks(Lists[k]) \ {x}
        /\ Tasks(Lists'[l]) = Tasks(Lists[l]) \cup {x} /\ x \in Pending
    BY ListAndGroup
  <1>2. \A m \in Lane : m \notin {k, l} => Lists'[m] = Lists[m]
    <2> DEFINE K == {k, l}
    <2>1. Of("list") \in K /\ Of("group") \in K
      OBVIOUS
    <2> HIDE DEF K
    <2>2. UNCHANGED <<ready, results, taskQueue, resultQueue, current>>
      BY DEF channelVars, workerVars
    <2>3. \A m \in Lane : m \notin K => Lists'[m] = Lists[m]
      BY <2>1, <2>2, Frame
    <2> QED
      BY <2>3 DEF K
  <1>3. Pending' = (Pending \ {x}) \cup {x} /\ {x} \cap Pending \subseteq {x}
    BY <1>1
  <1> HIDE DEF k, l
  <1> QED
    BY <1>1, <1>2, <1>3, Moved

LEMMA PickFirstTaskInPlace ==
    ASSUME TypeOK, TypeOK', NodesOfRequests, InPlace, UNCHANGED workerVars, PickFirstTask
    PROVE  InPlace'
  <1> DEFINE x == Head(readyTasks)
  <1>1. readyTasks # <<>> /\ group = <<>> /\ group' = <<x>> /\ readyTasks' = Tail(readyTasks)
    BY DEF PickFirstTask, CanSchedule
  <1>2. readyTasks \in Seq(Task) /\ IsInjective(readyTasks)
    BY ListAndGroup
  <1>3. /\ x \in ToSet(readyTasks) /\ IsInjective(readyTasks')
        /\ ToSet(readyTasks') = ToSet(readyTasks) \ {x}
    BY <1>1, <1>2, TailTask
  <1> HIDE DEF x
  <1>4. IsInjective(group') /\ ToSet(group') = ToSet(group) \cup {x}
    BY <1>1 DEF IsInjective, ToSet
  <1>5. Pending' = Pending
    BY PendingStable DEF PickFirstTask, requestVars
  <1>6. UNCHANGED <<ready, results, channelVars, workerVars>>
    BY DEF PickFirstTask, loopVars
  <1> QED
    BY <1>3, <1>4, <1>5, <1>6, TaskJoins

LEMMA JoinGroupInPlace ==
    ASSUME TypeOK, TypeOK', NodesOfRequests, InPlace, UNCHANGED workerVars, JoinGroup
    PROVE  InPlace'
  <1>1. PICK i \in DOMAIN readyTasks :
          group' = Append(group, readyTasks[i]) /\ readyTasks' = RemoveAt(readyTasks, i)
    BY DEF JoinGroup
  <1> DEFINE x == readyTasks[i]
  <1>2. /\ readyTasks \in Seq(Task) /\ IsInjective(readyTasks)
        /\ group \in Seq(Task) /\ IsInjective(group)
        /\ ToSet(readyTasks) \cap ToSet(group) = {}
    BY ListAndGroup
  <1>3. /\ IsInjective(readyTasks') /\ x \in ToSet(readyTasks)
        /\ ToSet(readyTasks') = ToSet(readyTasks) \ {x}
    BY <1>1, <1>2, RemovedTask
  <1>4. x \in Task
    BY <1>2, ElementOfSeq, LenProperties
  <1>5. group' = Append(group, x) /\ x \notin ToSet(group)
    BY <1>1, <1>2, <1>3
  <1> HIDE DEF x
  <1>6. IsInjective(group') /\ ToSet(group') = ToSet(group) \cup {x}
    BY <1>2, <1>4, <1>5, AppendTask
  <1>7. Pending' = Pending
    BY PendingStable DEF JoinGroup, requestVars
  <1>8. UNCHANGED <<ready, results, channelVars, workerVars>>
    BY DEF JoinGroup, loopVars
  <1> QED
    BY <1>3, <1>6, <1>7, <1>8, TaskJoins

\* The group goes to the callback that will send it.
LEMMA AssignGroupInPlace ==
    ASSUME TypeOK, TypeOK', NodesOfRequests, InPlace, UNCHANGED workerVars, AssignGroup
    PROVE  InPlace'
  <1>1. PICK w \in Worker :
          ready' = Append(ready, [cb |-> "dispatch", group |-> group, dst |-> w])
    BY DEF AssignGroup
  <1> DEFINE c == [cb |-> "dispatch", group |-> group, dst |-> w]
             created == <<c>>
             G == ToSet(group)
             k == Of("group")
             l == Of("ready")
  <1>2. c \in Callback /\ c.cb = "dispatch" /\ Carried[c] = group
    <2>1. group \in Seq(Task)
      BY DEF TypeOK, CoordinatorTypeOK, ScheduleTypeOK
    <2>2. c \in Callback
      BY <2>1, CallbackTypes
    <2> QED
      BY <2>2 DEF Carried
  <1> HIDE DEF c
  <1>3. created \in Seq(Callback) /\ Mapped(Carried, created) = <<group>>
    BY <1>2 DEF Mapped
  <1>4. ready' = ready \o created
    <2>1. ready \in Seq(Callback)
      BY DEF TypeOK, CoordinatorTypeOK, LoopTypeOK
    <2> QED
      BY <1>1, <1>2, <2>1, AppendIsConcat DEF c
  <1> HIDE DEF created
  <1>5. /\ group \in Seq(Task) /\ IsInjective(group) /\ Tasks(Lists[k]) = G
        /\ G \subseteq Pending /\ k \in Lane
        /\ Distinct(Lists'[k]) <=> IsInjective(group')
        /\ Tasks(Lists'[k]) = ToSet(group')
    BY ListAndGroup
  <1>6. l \in Lane /\ k # l /\ Lists'[l] = Mapped(Carried, ready')
    BY LanesAre, ListsAreNext DEF LaneContents
  <1> HIDE DEF k, l, G
  <1>7. Distinct(Mapped(Carried, created)) /\ Tasks(Mapped(Carried, created)) = G
    BY <1>3, <1>5, OneListLane DEF G
  <1>8. Distinct(Lists'[l]) /\ Tasks(Lists'[l]) = Tasks(Lists[l]) \cup G
    <2>1. Tasks(Lists[l]) \cap Tasks(Mapped(Carried, created)) = {}
      BY <1>5, <1>6, <1>7, LanesDisjoint
    <2>2. /\ Distinct(Mapped(Carried, ready'))
          /\ Tasks(Mapped(Carried, ready')) =
               Tasks(Lists[l]) \cup Tasks(Mapped(Carried, created))
      BY <1>3, <1>4, <1>7, <2>1, ReadyGrown DEF l
    <2> QED
      BY <1>6, <1>7, <2>2
  <1>9. /\ G \subseteq Tasks(Lists[k]) /\ Distinct(Lists'[k])
        /\ Tasks(Lists'[k]) = Tasks(Lists[k]) \ G
    <2>1. group' = <<>>
      BY DEF AssignGroup
    <2>2. IsInjective(group') /\ ToSet(group') = {}
      BY <2>1 DEF IsInjective, ToSet
    <2> QED
      BY <1>5, <2>2
  <1>10. \A m \in Lane : m \notin {k, l} => Lists'[m] = Lists[m]
    <2> DEFINE K == {k, l}
    <2>1. Of("group") \in K /\ Of("ready") \in K
      BY DEF k, l
    <2> HIDE DEF K
    <2>2. UNCHANGED <<readyTasks, results, taskQueue, resultQueue, current>>
      BY DEF AssignGroup, channelVars, workerVars
    <2>3. \A m \in Lane : m \notin K => Lists'[m] = Lists[m]
      BY <2>1, <2>2, Frame
    <2> QED
      BY <2>3 DEF K
  <1>11. Pending' = (Pending \ G) \cup G /\ G \cap Pending \subseteq G
    <2>1. Pending' = Pending
      BY PendingStable DEF AssignGroup, requestVars
    <2> QED
      BY <1>5, <2>1
  <1> QED
    BY <1>5, <1>6, <1>8, <1>9, <1>10, <1>11, Moved

LEMMA LoopSleepInPlace ==
    ASSUME TypeOK, TypeOK', NodesOfRequests, InPlace, UNCHANGED workerVars,
           SchedulerSleep \/ GatherSleep
    PROVE  InPlace'
  <1>1. Pending' = Pending
    BY PendingStable DEF SchedulerSleep, GatherSleep, requestVars
  <1>2. UNCHANGED <<ready, readyTasks, group, results, taskQueue, resultQueue, current>>
    BY DEF SchedulerSleep, GatherSleep, scheduleVars, channelVars, workerVars
  <1> QED
    BY <1>1, <1>2, Unmoved

\* A result is taken from the queue of a worker.
LEMMA ResultTaken ==
    ASSUME TypeOK, TypeOK', InPlace, NEW w \in Worker, NEW type, Gathers(w, type)
    PROVE  LET m == Head(resultQueue[w])
               k == <<"result", w>>
           IN  /\ m \in ResultMessage /\ m.type = type /\ k \in Lane
               /\ IsInjective(Answered[m]) /\ ToSet(Answered[m]) \subseteq Tasks(Lists[k])
               /\ Distinct(Lists'[k])
               /\ Tasks(Lists'[k]) = Tasks(Lists[k]) \ ToSet(Answered[m])
               /\ \A v \in Worker : v # w => resultQueue'[v] = resultQueue[v]
  <1> DEFINE q == resultQueue[w]
             k == <<"result", w>>
  <1>1. /\ resultQueue \in [Worker -> Seq(ResultMessage)]
        /\ q # <<>> /\ Head(q).type = type
        /\ resultQueue' = [resultQueue EXCEPT ![w] = Tail(@)]
    BY DEF Gathers, TypeOK, CoordinatorTypeOK, ChannelTypeOK
  <1>2. q \in Seq(ResultMessage) /\ resultQueue'[w] = Tail(q)
        /\ \A v \in Worker : v # w => resultQueue'[v] = resultQueue[v]
    BY <1>1
  <1>3. /\ k \in Lane /\ Lists[k] = Mapped(Answered, q)
        /\ Lists'[k] = Mapped(Answered, resultQueue'[w])
    BY LanesAre, ListsAre, ListsAreNext DEF LaneContents
  <1>4. Distinct(Mapped(Answered, q))
    BY <1>3, LanePending
  <1>7. q # <<>>
    BY <1>1
  <1>8. q \in Seq(ResultMessage)
    BY <1>2
  <1> HIDE DEF q, k
  <1>5. Answered \in [ResultMessage -> Seq(Task)]
    BY CarryTypes
  <1>6. /\ Head(q) \in ResultMessage
        /\ Distinct(Mapped(Answered, Tail(q))) /\ IsInjective(Answered[Head(q)])
        /\ ToSet(Answered[Head(q)]) \subseteq Tasks(Mapped(Answered, q))
        /\ Tasks(Mapped(Answered, Tail(q))) =
             Tasks(Mapped(Answered, q)) \ ToSet(Answered[Head(q)])
    BY <1>4, <1>5, <1>7, <1>8, QueueTail
  <1> QED
    BY <1>1, <1>2, <1>3, <1>6 DEF q, k

LEMMA GatherTensorBatchInPlace ==
    ASSUME TypeOK, TypeOK', NodesOfRequests, InPlace, UNCHANGED workerVars,
           NEW w \in Worker, GatherTensorBatch(w)
    PROVE  InPlace'
  <1> DEFINE k == <<"result", w>>
             l == Of("ready")
             G == {}
  <1>1. Gathers(w, "tensor_batch_ready")
    BY DEF GatherTensorBatch
  <1>2. /\ k \in Lane /\ Distinct(Lists'[k])
        /\ Tasks(Lists'[k]) = Tasks(Lists[k]) \ G
        /\ \A v \in Worker : v # w => resultQueue'[v] = resultQueue[v]
    <2> DEFINE m == Head(resultQueue[w])
    <2>1. /\ m \in ResultMessage /\ m.type = "tensor_batch_ready" /\ k \in Lane
          /\ Distinct(Lists'[k])
          /\ Tasks(Lists'[k]) = Tasks(Lists[k]) \ ToSet(Answered[m])
          /\ \A v \in Worker : v # w => resultQueue'[v] = resultQueue[v]
      BY <1>1, ResultTaken
    <2> HIDE DEF m
    <2>2. Answered[m] = <<>>
      BY <2>1 DEF Answered
    <2>3. ToSet(Answered[m]) = {}
      BY <2>2 DEF ToSet
    <2> QED
      BY <2>1, <2>3
  <1>3. PICK created \in Seq(Notice) : ready' = ready \o created
    BY GatherTensorBatchCreates
  <1>4. l \in Lane /\ k # l /\ Lists'[l] = Mapped(Carried, ready')
    BY LanesAre, ListsAreNext DEF LaneContents
  <1>5. Distinct(Lists'[l]) /\ Tasks(Lists'[l]) = Tasks(Lists[l]) \cup G
    <2>1. Notice \subseteq Callback
      BY DEF Notice, Created
    <2>2. created \in Seq(Callback)
      BY <2>1, SeqMonotonic
    <2>3. \A i \in DOMAIN created : created[i].cb \notin {"put", "dispatch"}
      <3>1. \A i \in DOMAIN created : created[i] \in Notice
        BY ElementOfSeq, LenProperties
      <3> QED
        BY <3>1 DEF Notice
    <2> QED
      BY <1>3, <1>4, <2>2, <2>3, ReadyGrownBare
  <1>6. \A m \in Lane : m \notin {k, l} => Lists'[m] = Lists[m]
    <2> DEFINE K == {k, l}
    <2>1. <<"result", w>> \in K /\ Of("ready") \in K
      OBVIOUS
    <2> HIDE DEF K
    <2>2. UNCHANGED <<readyTasks, group, results, taskQueue, current>>
      BY DEF GatherTensorBatch, scheduleVars, workerVars
    <2>3. \A v \in Worker : <<"result", v>> \in K \/ resultQueue'[v] = resultQueue[v]
      BY <1>2, <2>1
    <2>4. \A m \in Lane : m \notin K => Lists'[m] = Lists[m]
      BY <2>1, <2>2, <2>3, Frame
    <2> QED
      BY <2>4 DEF K
  <1>7. Pending' = (Pending \ G) \cup G /\ G \cap Pending \subseteq G
        /\ G \subseteq Tasks(Lists[k])
    <2>1. Pending' = Pending
      BY PendingStable DEF GatherTensorBatch, requestVars
    <2> QED
      BY <2>1
  <1> HIDE DEF k, l, G
  <1> QED
    BY <1>2, <1>4, <1>5, <1>6, <1>7, Moved

\* A task_complete: its tasks go from the result queue to the gather loop.
LEMMA GatherTaskCompleteInPlace ==
    ASSUME TypeOK, TypeOK', NodesOfRequests, InPlace, UNCHANGED workerVars,
           NEW w \in Worker, GatherTaskComplete(w)
    PROVE  InPlace'
  <1> DEFINE m == Head(resultQueue[w])
             g == Mapped(TaskIn, m.data)
             G == ToSet(g)
             k == <<"result", w>>
             l == Of("gather")
  <1>1. Gathers(w, "task_complete") /\ results.rest = <<>> /\ results'.rest = m.data
    BY DEF GatherTaskComplete, Gathers
  <1>2. /\ m \in ResultMessage /\ m.type = "task_complete" /\ k \in Lane
        /\ IsInjective(Answered[m]) /\ ToSet(Answered[m]) \subseteq Tasks(Lists[k])
        /\ Distinct(Lists'[k])
        /\ Tasks(Lists'[k]) = Tasks(Lists[k]) \ ToSet(Answered[m])
        /\ \A v \in Worker : v # w => resultQueue'[v] = resultQueue[v]
    BY <1>1, ResultTaken
  <1>3. Answered[m] = g /\ g \in Seq(Task)
    BY <1>2, ResultMessageFields, CarryTypes DEF Answered
  <1>4. /\ l \in Lane /\ k # l /\ Lists[l] = << Mapped(TaskIn, results.rest) >>
        /\ Lists'[l] = << Mapped(TaskIn, results'.rest) >>
    BY LanesAre, ListsAre, ListsAreNext DEF LaneContents
  <1> HIDE DEF m
  <1>5. Lists'[l] = <<g>> /\ Lists[l] = << <<>> >>
    BY <1>1, <1>4 DEF Mapped
  <1> HIDE DEF g, k, l
  <1>6. Distinct(Lists'[l]) /\ Tasks(Lists'[l]) = Tasks(Lists[l]) \cup G
    <2>1. Tasks(Lists[l]) = {}
      BY <1>5, NoList
    <2>2. Tasks(Lists'[l]) = ToSet(g) /\ (Distinct(Lists'[l]) <=> IsInjective(g))
      BY <1>3, <1>5, OneListLane
    <2> QED
      BY <1>2, <1>3, <2>1, <2>2
  <1>7. \A n \in Lane : n \notin {k, l} => Lists'[n] = Lists[n]
    <2> DEFINE K == {k, l}
    <2>1. <<"result", w>> \in K /\ Of("gather") \in K
      BY DEF k, l
    <2> HIDE DEF K
    <2>2. UNCHANGED <<ready, readyTasks, group, taskQueue, current>>
      BY DEF GatherTaskComplete, loopVars, scheduleVars, workerVars
    <2>3. \A v \in Worker : <<"result", v>> \in K \/ resultQueue'[v] = resultQueue[v]
      BY <1>2, <2>1
    <2>4. \A n \in Lane : n \notin K => Lists'[n] = Lists[n]
      BY <2>1, <2>2, <2>3, Frame
    <2> QED
      BY <2>4 DEF K
  <1>8. /\ G \subseteq Tasks(Lists[k]) /\ Tasks(Lists'[k]) = Tasks(Lists[k]) \ G
    BY <1>2, <1>3
  <1>9. Pending' = (Pending \ G) \cup G /\ G \cap Pending \subseteq G
    <2>1. Pending' = Pending
      BY PendingStable DEF GatherTaskComplete, requestVars
    <2>2. G \subseteq Pending
      BY <1>2, <1>8, LanePending
    <2> QED
      BY <2>1, <2>2
  <1> HIDE DEF G
  <1> QED
    BY <1>2, <1>4, <1>6, <1>7, <1>8, <1>9, Moved

\* A result is handled: its task leaves, and the tasks it made ready enter.
LEMMA GatherTaskInPlace ==
    ASSUME TypeOK, TypeOK', NodesOfRequests, InPlace, UNCHANGED workerVars, GatherTask
    PROVE  InPlace'
  <1> DEFINE res == Head(results.rest)
             x == TaskOf(res)
             new == { [req |-> x.req, node |-> m] : m \in NewlyReady(x.req, x.node) }
             k == Of("gather")
             l == Of("ready")
  <1>1. k \in Lane /\ l \in Lane /\ k # l
    BY LanesAre
  <1>2. /\ results.rest # <<>> /\ results'.rest = Tail(results.rest)
    BY DEF GatherTask, TypeOK, CoordinatorTypeOK, ResultsTypeOK
  <1> DEFINE L == Mapped(TaskIn, results.rest)
             M == Mapped(TaskIn, Tail(results.rest))
  <1>3. /\ x \in Pending /\ L \in Seq(Task) /\ M \in Seq(Task)
        /\ IsInjective(L) /\ x \in ToSet(L)
        /\ IsInjective(M) /\ ToSet(M) = ToSet(L) \ {x}
    BY <1>2, NextResult
  <1>4. /\ Lists[k] = <<L>> /\ Lists'[k] = <<M>>
        /\ Lists'[l] = Mapped(Carried, ready')
    BY <1>2, ListsAre, ListsAreNext DEF LaneContents
  <1>5. /\ Pending' = (Pending \ {x}) \cup new /\ new \cap Pending = {}
    BY GatherTaskPending
  <1>6. PICK created \in Seq(Callback) :
          /\ ready' = ready \o created /\ Distinct(Mapped(Carried, created))
          /\ Tasks(Mapped(Carried, created)) = new
    <2>1. x.req = res.req /\ x.node = res.node
      BY DEF TaskOf
    <2> QED
      BY <2>1, GatherTaskQueues
  <1> HIDE DEF L, M, res, x, new
  <1>7. /\ {x} \subseteq Tasks(Lists[k]) /\ Distinct(Lists'[k])
        /\ Tasks(Lists'[k]) = Tasks(Lists[k]) \ {x}
    <2>1. Tasks(Lists[k]) = ToSet(L)
      BY <1>3, <1>4, OneListLane
    <2>2. Tasks(Lists'[k]) = ToSet(M) /\ (Distinct(Lists'[k]) <=> IsInjective(M))
      BY <1>3, <1>4, OneListLane
    <2> QED
      BY <1>3, <2>1, <2>2
  <1>8. Distinct(Lists'[l]) /\ Tasks(Lists'[l]) = Tasks(Lists[l]) \cup new
    <2>1. Tasks(Lists[l]) \cap Tasks(Mapped(Carried, created)) = {}
      BY <1>1, <1>5, <1>6, LanePending
    <2>2. /\ Distinct(Mapped(Carried, ready'))
          /\ Tasks(Mapped(Carried, ready')) =
               Tasks(Lists[l]) \cup Tasks(Mapped(Carried, created))
      BY <1>6, <2>1, ReadyGrown
    <2> QED
      BY <1>4, <1>6, <2>2
  <1>9. \A m \in Lane : m \notin {k, l} => Lists'[m] = Lists[m]
    <2> DEFINE K == {k, l}
    <2>1. Of("gather") \in K /\ Of("ready") \in K
      OBVIOUS
    <2> HIDE DEF K
    <2>2. UNCHANGED <<readyTasks, group, taskQueue, resultQueue, current>>
      BY DEF GatherTask, scheduleVars, channelVars, workerVars
    <2>3. \A m \in Lane : m \notin K => Lists'[m] = Lists[m]
      BY <2>1, <2>2, Frame
    <2> QED
      BY <2>3 DEF K
  <1>10. new \cap Pending \subseteq {x}
    BY <1>5
  <1> HIDE DEF k, l
  <1> QED
    BY <1>1, <1>5, <1>7, <1>8, <1>9, <1>10, Moved

-----------------------------------------------------------------------------
(* The steps of the workers *)

\* A worker's step touches no request, and none of the coordinator's lists.
LEMMA WorkerSide ==
    ASSUME NodesOfRequests, UNCHANGED coordinatorSide
    PROVE  /\ NodesOfRequests' /\ Pending' = Pending
           /\ UNCHANGED <<ready, readyTasks, group, results, phase, completedNodes>>
  <1>1. UNCHANGED <<phase, scheduledNodes, completedNodes>>
    BY DEF coordinatorSide, requestVars
  <1>2. UNCHANGED <<ready, readyTasks, group, results>>
    BY DEF coordinatorSide, loopVars, scheduleVars
  <1> QED
    BY <1>1, <1>2, PendingStable

\* A result is put in the queue of a worker, with tasks that were not in it.
LEMMA ResultSent ==
    ASSUME TypeOK, TypeOK', InPlace, NEW w \in Worker, NEW m \in ResultMessage,
           resultQueue' = [resultQueue EXCEPT ![w] = Append(@, m)],
           IsInjective(Answered[m]),
           Tasks(Lists[<<"result", w>>]) \cap ToSet(Answered[m]) = {}
    PROVE  LET l == <<"result", w>>
           IN  /\ l \in Lane /\ Distinct(Lists'[l])
               /\ Tasks(Lists'[l]) = Tasks(Lists[l]) \cup ToSet(Answered[m])
               /\ \A v \in Worker : v # w => resultQueue'[v] = resultQueue[v]
  <1> DEFINE q == resultQueue[w]
             l == <<"result", w>>
             g == Answered[m]
  <1>1. resultQueue \in [Worker -> Seq(ResultMessage)]
    BY DEF TypeOK, CoordinatorTypeOK, ChannelTypeOK
  <1>2. /\ resultQueue'[w] = Append(q, m) /\ q \in Seq(ResultMessage)
        /\ \A v \in Worker : v # w => resultQueue'[v] = resultQueue[v]
    BY <1>1
  <1>3. /\ l \in Lane /\ Lists[l] = Mapped(Answered, q)
        /\ Lists'[l] = Mapped(Answered, resultQueue'[w]) /\ Lists[l] \in Seq(Seq(Task))
    BY LanesAre, ListsAre, ListsAreNext DEF LaneContents
  <1>4. g \in Seq(Task)
    BY CarryTypes
  <1>5. Distinct(Lists[l])
    BY <1>3, LanePending
  <1>6. IsInjective(g) /\ Tasks(Lists[l]) \cap ToSet(g) = {}
    OBVIOUS
  <1> HIDE DEF q, l
  <1>7. Lists'[l] = Append(Lists[l], g)
    <2>1. Mapped(Answered, Append(q, m)) = Append(Mapped(Answered, q), Answered[m])
      BY <1>2, MappedAppend
    <2> QED
      BY <1>2, <1>3, <2>1
  <1> HIDE DEF g
  <1>8. Distinct(Lists'[l]) /\ Tasks(Lists'[l]) = Tasks(Lists[l]) \cup ToSet(g)
    <2>1. Lists[l] \in Seq(Seq(Task))
      BY <1>3
    <2> QED
      BY <1>4, <1>5, <1>6, <1>7, <2>1, AppendList
  <1> QED
    BY <1>2, <1>3, <1>8 DEF g, l

\* The tasks a worker runs, as a lane.
LEMMA Running ==
    ASSUME TypeOK, TypeOK', NEW w \in Worker
    PROVE  LET l == <<"run", w>>
               g == Mapped(TaskIn, current[w].entries)
               h == Mapped(TaskIn, current'[w].entries)
           IN  /\ l \in Lane /\ g \in Seq(Task) /\ h \in Seq(Task)
               /\ Tasks(Lists[l]) = ToSet(g) /\ (Distinct(Lists[l]) <=> IsInjective(g))
               /\ Tasks(Lists'[l]) = ToSet(h) /\ (Distinct(Lists'[l]) <=> IsInjective(h))
  <1> DEFINE l == <<"run", w>>
             g == Mapped(TaskIn, current[w].entries)
             h == Mapped(TaskIn, current'[w].entries)
  <1>1. l \in Lane /\ Lists[l] = <<g>> /\ Lists'[l] = <<h>>
    BY LanesAre, ListsAre, ListsAreNext DEF LaneContents
  <1>2. current[w].entries \in Seq(Entry) /\ current'[w].entries \in Seq(Entry)
    BY DEF TypeOK, WorkerTypeOK
  <1>3. g \in Seq(Task) /\ h \in Seq(Task)
    BY <1>2, CarryTypes
  <1> HIDE DEF g, h, l
  <1>4. Tasks(Lists[l]) = ToSet(g) /\ (Distinct(Lists[l]) <=> IsInjective(g))
    BY <1>1, <1>3, OneListLane
  <1>5. Tasks(Lists'[l]) = ToSet(h) /\ (Distinct(Lists'[l]) <=> IsInjective(h))
    BY <1>1, <1>3, OneListLane
  <1> QED
    BY <1>1, <1>3, <1>4, <1>5 DEF g, h, l

\* A group is taken from the worker's queue and runs.
LEMMA StartGroupInPlace ==
    ASSUME TypeOK, TypeOK', NodesOfRequests, InPlace, NEW w \in Worker, StartGroup(w)
    PROVE  InPlace'
  <1> DEFINE q == taskQueue[w]
             m == Head(q)
             g == Sent[m]
             G == ToSet(g)
             k == <<"queue", w>>
             l == <<"run", w>>
  <1>1. taskQueue \in [Worker -> Seq(TaskMessage)]
    BY DEF TypeOK, CoordinatorTypeOK, ChannelTypeOK
  <1>2. q # <<>> /\ taskQueue' = [taskQueue EXCEPT ![w] = Tail(@)]
    BY DEF StartGroup
  <1>3. /\ q \in Seq(TaskMessage) /\ taskQueue'[w] = Tail(q)
        /\ \A v \in Worker : v # w => taskQueue'[v] = taskQueue[v]
    BY <1>1, <1>2
  <1>4. /\ k \in Lane /\ Lists[k] = Mapped(Sent, q)
        /\ Lists'[k] = Mapped(Sent, taskQueue'[w])
    BY LanesAre, ListsAre, ListsAreNext DEF LaneContents
  <1>5. Distinct(Mapped(Sent, q))
    BY <1>4, LanePending
  <1>6. Sent \in [TaskMessage -> Seq(Task)]
    BY CarryTypes
  <1>7. q # <<>> /\ q \in Seq(TaskMessage)
    BY <1>2, <1>3
  <1>8. current[w].entries = <<>> /\ current'[w].entries = m.entries
        /\ \A v \in Worker : v # w => current'[v] = current[v]
    <2>1. \E lazy, yields : current' = [current EXCEPT ![w] =
            [entries |-> m.entries, lazy |-> lazy, yields |-> yields]]
      BY DEF StartGroup
    <2>2. current[w].entries = <<>>
      BY DEF StartGroup
    <2> HIDE DEF m
    <2> QED
      BY <2>1, <2>2 DEF TypeOK, WorkerTypeOK
  <1> HIDE DEF q
  <1>9. /\ m \in TaskMessage /\ IsInjective(g) /\ G \subseteq Tasks(Lists[k])
        /\ Distinct(Lists'[k]) /\ Tasks(Lists'[k]) = Tasks(Lists[k]) \ G
    <2>1. /\ Head(q) \in TaskMessage
          /\ Distinct(Mapped(Sent, Tail(q))) /\ IsInjective(Sent[Head(q)])
          /\ ToSet(Sent[Head(q)]) \subseteq Tasks(Mapped(Sent, q))
          /\ Tasks(Mapped(Sent, Tail(q))) =
               Tasks(Mapped(Sent, q)) \ ToSet(Sent[Head(q)])
      BY <1>5, <1>6, <1>7, QueueTail
    <2> QED
      BY <1>3, <1>4, <2>1
  <1> HIDE DEF m
  <1>10. l \in Lane /\ k # l /\ Distinct(Lists'[l]) /\ Tasks(Lists'[l]) = Tasks(Lists[l]) \cup G
    <2>1. g = Mapped(TaskIn, m.entries)
      BY <1>9 DEF Sent
    <2>2. ToSet(Mapped(TaskIn, <<>>)) = {}
      BY DEF Mapped, ToSet
    <2> QED
      BY <1>8, <1>9, <2>1, <2>2, Running
  <1> HIDE DEF g
  <1>11. UNCHANGED coordinatorSide /\ UNCHANGED resultQueue
    BY DEF StartGroup
  <1>12. Pending' = Pending /\ UNCHANGED <<ready, readyTasks, group, results>>
    BY <1>11, WorkerSide
  <1>13. \A n \in Lane : n \notin {k, l} => Lists'[n] = Lists[n]
    <2> DEFINE K == {k, l}
    <2>1. <<"queue", w>> \in K /\ <<"run", w>> \in K
      OBVIOUS
    <2> HIDE DEF K
    <2>2. \A v \in Worker : /\ <<"queue", v>> \in K \/ taskQueue'[v] = taskQueue[v]
                            /\ <<"run", v>> \in K \/ current'[v].entries = current[v].entries
      BY <1>3, <1>8, <2>1
    <2>3. ready' = ready /\ readyTasks' = readyTasks /\ group' = group /\ results' = results
          /\ \A v \in Worker : resultQueue'[v] = resultQueue[v]
      BY <1>11, <1>12
    <2>4. \A n \in Lane : n \notin K => Lists'[n] = Lists[n]
      BY <2>2, <2>3, Frame
    <2> QED
      BY <2>4 DEF K
  <1>14. Pending' = (Pending \ G) \cup G /\ G \cap Pending \subseteq G
    <2>1. G \subseteq Pending
      BY <1>4, <1>9, LanePending
    <2> QED
      BY <1>12, <2>1
  <1> HIDE DEF k, l, G
  <1> QED
    BY <1>4, <1>9, <1>10, <1>13, <1>14, Moved

LEMMA LazyStepInPlace ==
    ASSUME TypeOK, TypeOK', NodesOfRequests, InPlace, NEW w \in Worker,
           FetchLazy(w) \/ AcquireLazy(w)
    PROVE  InPlace'
  <1>1. UNCHANGED coordinatorSide /\ UNCHANGED <<taskQueue, resultQueue>>
    BY DEF FetchLazy, AcquireLazy, channelVars
  <1>2. Pending' = Pending /\ UNCHANGED <<ready, readyTasks, group, results>>
    BY <1>1, WorkerSide
  <1>3. \A v \in Worker : current'[v].entries = current[v].entries
    <2>1. CASE FetchLazy(w)
      BY <2>1 DEF FetchLazy
    <2>2. CASE AcquireLazy(w)
      <3>1. PICK b : current' = [current EXCEPT ![w].lazy = @ \ {b}]
        BY <2>2 DEF AcquireLazy
      <3> QED
        BY <3>1 DEF TypeOK, WorkerTypeOK
    <2> QED
      BY <2>1, <2>2
  <1> QED
    BY <1>1, <1>2, <1>3, Unmoved

\* An early output is announced: a result without a task.
LEMMA YieldOutputInPlace ==
    ASSUME TypeOK, TypeOK', NodesOfRequests, InPlace, NEW w \in Worker, YieldOutput(w)
    PROVE  InPlace'
  <1> DEFINE k == <<"result", w>>
  <1>1. PICK buffers \in SUBSET current[w].yields :
          /\ current' = [current EXCEPT ![w].yields = @ \ buffers]
          /\ resultQueue' = [resultQueue EXCEPT ![w] = Append(@,
               [type |-> "tensor_batch_ready", buffers |-> buffers])]
    BY DEF YieldOutput
  <1> DEFINE m == [type |-> "tensor_batch_ready", buffers |-> buffers]
  <1>2. m \in ResultMessage /\ Answered[m] = <<>>
    <2>1. buffers \subseteq Buffer
      BY DEF TypeOK, WorkerTypeOK
    <2>2. m \in ResultMessage
      BY <2>1 DEF ResultMessage
    <2> QED
      BY <2>2 DEF Answered
  <1>3. resultQueue' = [resultQueue EXCEPT ![w] = Append(@, m)]
    BY <1>1
  <1> HIDE DEF m
  <1>4. IsInjective(Answered[m]) /\ ToSet(Answered[m]) = {}
    BY <1>2 DEF IsInjective, ToSet
  <1>5. Tasks(Lists[<<"result", w>>]) \cap ToSet(Answered[m]) = {}
    BY <1>4
  <1>6. /\ k \in Lane /\ Distinct(Lists'[k])
        /\ Tasks(Lists'[k]) = Tasks(Lists[k])
        /\ \A v \in Worker : v # w => resultQueue'[v] = resultQueue[v]
    BY <1>2, <1>3, <1>4, <1>5, ResultSent
  <1>7. UNCHANGED coordinatorSide /\ UNCHANGED taskQueue
    BY DEF YieldOutput
  <1>8. Pending' = Pending /\ UNCHANGED <<ready, readyTasks, group, results>>
    BY <1>7, WorkerSide
  <1>9. \A v \in Worker : current'[v].entries = current[v].entries
    BY <1>1 DEF TypeOK, WorkerTypeOK
  <1>10. \A l \in Lane : l # k => Lists'[l] = Lists[l]
    <2> DEFINE K == {k}
    <2>1. <<"result", w>> \in K
      OBVIOUS
    <2> HIDE DEF K
    <2>2. \A v \in Worker : <<"result", v>> \in K \/ resultQueue'[v] = resultQueue[v]
      BY <1>6, <2>1
    <2>3. ready' = ready /\ readyTasks' = readyTasks /\ group' = group /\ results' = results
          /\ taskQueue' = taskQueue
      BY <1>7, <1>8
    <2>4. \A l \in Lane : l \notin K => Lists'[l] = Lists[l]
      BY <1>9, <2>2, <2>3, Frame
    <2> QED
      BY <2>4 DEF K
  <1>11. Apart(Lists) /\ Everywhere(Lists) = Pending
    BY DEF InPlace
  <1> HIDE DEF k
  <1>12. Apart(Lists') /\ Everywhere(Lists') = Everywhere(Lists)
    BY <1>6, <1>10, <1>11, Relisted
  <1> QED
    BY <1>8, <1>11, <1>12 DEF InPlace

\* The group completes: its tasks go to the result queue.
LEMMA CompleteGroupInPlace ==
    ASSUME TypeOK, TypeOK', NodesOfRequests, InPlace, NEW w \in Worker, CompleteGroup(w)
    PROVE  InPlace'
  <1> DEFINE entries == current[w].entries
             data == [i \in DOMAIN entries |->
                        [req |-> entries[i].req, node |-> entries[i].node,
                         tensors |-> Reported(entries[i], w)]]
             m == [type |-> "task_complete", data |-> data]
             g == Mapped(TaskIn, entries)
             G == ToSet(g)
             k == <<"run", w>>
             l == <<"result", w>>
  <1>1. resultQueue' = [resultQueue EXCEPT ![w] = Append(@, m)]
        /\ current' = [current EXCEPT ![w] = Idle]
    BY DEF CompleteGroup
  <1>2. entries \in Seq(Entry)
    BY DEF TypeOK, WorkerTypeOK
  <1>3. m \in ResultMessage /\ Answered[m] = g
    <2>1. \A i \in DOMAIN entries : entries[i] \in Entry
      BY <1>2, ElementOfSeq, LenProperties
    <2> HIDE DEF entries
    <2>2. \A i \in DOMAIN entries :
            [req |-> entries[i].req, node |-> entries[i].node,
             tensors |-> Reported(entries[i], w)] \in Response
      BY <2>1, EntryTypes DEF Reported, Response
    <2>3. data \in Seq(Response)
      BY <1>2, <2>2, LenProperties
    <2>4. \A i \in DOMAIN entries : TaskIn[data[i]] = TaskIn[entries[i]]
      <3> SUFFICES ASSUME NEW i \in DOMAIN entries
                   PROVE  TaskIn[data[i]] = TaskIn[entries[i]]
        OBVIOUS
      <3>1. /\ data[i] \in Response /\ data[i].req = entries[i].req
            /\ data[i].node = entries[i].node
        BY <2>2
      <3> QED
        BY <2>1, <3>1 DEF TaskIn, TaskOf
    <2>5. DOMAIN data = DOMAIN entries
      OBVIOUS
    <2> HIDE DEF data
    <2>6. Mapped(TaskIn, data) = g
      BY <2>4, <2>5 DEF Mapped
    <2>7. m \in ResultMessage /\ m.type = "task_complete" /\ m.data = data
      BY <2>3 DEF ResultMessage
    <2> HIDE DEF m, g
    <2> QED
      BY <2>6, <2>7 DEF Answered
  <1>4. /\ k \in Lane /\ g \in Seq(Task) /\ Tasks(Lists[k]) = G
        /\ Distinct(Lists[k]) <=> IsInjective(g)
    BY Running
  <1>5. Distinct(Lists'[k]) /\ Tasks(Lists'[k]) = {} /\ current'[w].entries = <<>>
        /\ \A v \in Worker : v # w => current'[v] = current[v]
    <2>1. current'[w].entries = <<>>
          /\ \A v \in Worker : v # w => current'[v] = current[v]
      BY <1>1 DEF Idle, TypeOK, WorkerTypeOK
    <2>2. Mapped(TaskIn, <<>>) = <<>>
      BY DEF Mapped
    <2>3. ToSet(<<>>) = {} /\ IsInjective(<<>>)
      BY DEF ToSet, IsInjective
    <2> QED
      BY <2>1, <2>2, <2>3, Running
  <1> HIDE DEF entries, data, m, g
  <1>6. l \in Lane /\ k # l
    BY LanesAre
  <1>7. IsInjective(g) /\ Tasks(Lists[l]) \cap G = {} /\ G \subseteq Pending
    BY <1>4, <1>6, LanePending, LanesDisjoint
  <1>8. /\ Distinct(Lists'[l]) /\ Tasks(Lists'[l]) = Tasks(Lists[l]) \cup G
        /\ \A v \in Worker : v # w => resultQueue'[v] = resultQueue[v]
    <2>1. resultQueue' = [resultQueue EXCEPT ![w] = Append(@, m)]
      BY <1>1
    <2>2. IsInjective(Answered[m])
          /\ Tasks(Lists[<<"result", w>>]) \cap ToSet(Answered[m]) = {}
      BY <1>3, <1>7
    <2> QED
      BY <1>3, <2>1, <2>2, ResultSent
  <1>9. UNCHANGED coordinatorSide /\ UNCHANGED taskQueue
    BY DEF CompleteGroup
  <1>10. Pending' = Pending /\ UNCHANGED <<ready, readyTasks, group, results>>
    BY <1>9, WorkerSide
  <1>11. \A n \in Lane : n \notin {k, l} => Lists'[n] = Lists[n]
    <2> DEFINE K == {k, l}
    <2>1. <<"run", w>> \in K /\ <<"result", w>> \in K
      OBVIOUS
    <2> HIDE DEF K
    <2>2. \A v \in Worker :
            /\ <<"result", v>> \in K \/ resultQueue'[v] = resultQueue[v]
            /\ <<"run", v>> \in K \/ current'[v].entries = current[v].entries
      BY <1>5, <1>8, <2>1
    <2>3. ready' = ready /\ readyTasks' = readyTasks /\ group' = group /\ results' = results
          /\ taskQueue' = taskQueue
      BY <1>9, <1>10
    <2>4. \A n \in Lane : n \notin K => Lists'[n] = Lists[n]
      BY <2>2, <2>3, Frame
    <2> QED
      BY <2>4 DEF K
  <1>12. /\ G \subseteq Tasks(Lists[k]) /\ Tasks(Lists'[k]) = Tasks(Lists[k]) \ G
         /\ Pending' = (Pending \ G) \cup G /\ G \cap Pending \subseteq G
    BY <1>4, <1>5, <1>7, <1>10
  <1> HIDE DEF k, l, G
  <1> QED
    BY <1>4, <1>5, <1>6, <1>8, <1>11, <1>12, Moved

-----------------------------------------------------------------------------
(* The invariant *)

LEMMA InitTasks == Init => TaskInv
  <1> SUFFICES ASSUME Init PROVE TaskInv
    OBVIOUS
  <1>1. TypeOK
    BY InitType
  <1>2. /\ ready = <<[cb |-> "scheduler"], [cb |-> "gather"]>>
        /\ readyTasks = <<>> /\ group = <<>> /\ results.rest = <<>>
        /\ \A r \in Request : phase[r] = "new" /\ completedNodes[r] = {}
        /\ \A w \in Worker : /\ taskQueue[w] = <<>> /\ resultQueue[w] = <<>>
                             /\ current[w].entries = <<>>
    BY DEF Init, CoordinatorInit, WorkerInit, Idle
  <1>3. /\ ready \in Seq(Callback)
        /\ \A i \in DOMAIN ready : ready[i] \in Callback /\ ready[i].cb \in Loops
    BY <1>1, <1>2, ElementOfSeq, LenProperties
       DEF TypeOK, CoordinatorTypeOK, LoopTypeOK, Loops
  <1>4. CallsOnce
    <2>1. \A i \in DOMAIN ready : ready[i] \in PlainCallback
      BY <1>3 DEF PlainCallback, Loops
    <2>2. ready \in Seq(TimelyCallback)
      <3>1. PlainCallback \subseteq TimelyCallback
        BY DEF PlainCallback, TimelyCallback
      <3>2. Len(ready) \in Nat /\ ready \in [1 .. Len(ready) -> Callback]
        BY <1>3, LenProperties
      <3>3. ready \in [1 .. Len(ready) -> TimelyCallback]
        BY <2>1, <3>1, <3>2
      <3> QED
        BY <3>2, <3>3
    <2>3. \A i \in DOMAIN ready : Requested[ready[i]] = <<>>
      BY <2>1, RequestedType DEF PlainCallback
    <2>4. Distinct(Mapped(Requested, ready))
      BY <1>3, <2>3, RequestedType, Bare
    <2> QED
      BY <2>2, <2>4 DEF CallsOnce, Calls
  <1>5. NodesOfRequests /\ Pending = {}
    BY <1>2 DEF NodesOfRequests, Pending, Task
  <1>6. LaneContents
    BY <1>1, ListsAre
  <1>7. \A f : Mapped(f, <<>>) = <<>>
    BY DEF Mapped
  <1>8. Distinct(Lists[Of("ready")]) /\ Tasks(Lists[Of("ready")]) = {}
    <2>1. \A i \in DOMAIN ready : Carried[ready[i]] = <<>>
      BY <1>3, NothingCarried DEF Loops
    <2>2. Carried \in [Callback -> Seq(Task)]
      BY CarryTypes
    <2>3. Distinct(Mapped(Carried, ready)) /\ Tasks(Mapped(Carried, ready)) = {}
      BY <1>3, <2>1, <2>2, Bare
    <2> QED
      BY <1>6, <2>3 DEF LaneContents
  <1>9. /\ Lists[Of("list")] = << <<>> >> /\ Lists[Of("group")] = << <<>> >>
        /\ Lists[Of("gather")] = << <<>> >>
    BY <1>2, <1>6, <1>7 DEF LaneContents
  <1>10. \A w \in Worker : /\ Lists[<<"queue", w>>] = <<>> /\ Lists[<<"result", w>>] = <<>>
                           /\ Lists[<<"run", w>>] = << <<>> >>
    BY <1>2, <1>6, <1>7 DEF LaneContents
  <1>11. \A l \in Lane : Distinct(Lists[l]) /\ Tasks(Lists[l]) = {}
    <2> SUFFICES ASSUME NEW l \in Lane PROVE Distinct(Lists[l]) /\ Tasks(Lists[l]) = {}
      OBVIOUS
    <2>1. CASE \E name \in {"ready", "list", "group", "gather"} : l = Of(name)
      BY <1>8, <1>9, <2>1, NoList
    <2>2. CASE \E name \in {"queue", "run", "result"}, w \in Worker : l = <<name, w>>
      BY <1>10, <2>2, NoList
    <2> QED
      BY <2>1, <2>2, LanesAre
  <1>12. InPlace
    BY <1>5, <1>11 DEF InPlace, Apart, Everywhere
  <1> QED
    BY <1>1, <1>4, <1>5, <1>12 DEF TaskInv

\* The coordinator's steps.
LEMMA CoordinatorTasks ==
    ASSUME TaskInv, TypeOK', CoordinatorNext, UNCHANGED workerVars
    PROVE  CallsOnce' /\ NodesOfRequests' /\ InPlace'
  <1>1. TypeOK /\ CallsOnce /\ NodesOfRequests /\ InPlace
    BY DEF TaskInv
  <1>2. ASSUME NEW requests \in SUBSET Request, NEW due \in DueTimers,
               LoopIteration(requests, due)
        PROVE  CallsOnce' /\ NodesOfRequests' /\ InPlace'
    BY <1>1, <1>2, LoopIterationCalls, LoopIterationPending, LoopIterationInPlace
  <1>3. CASE StartRequest
    BY <1>1, <1>3, StartRequestCalls, StartRequestPending, StartRequestInPlace
  <1>4. CASE FinishRequest
    BY <1>1, <1>4, FinishRequestCalls, FinishRequestPending, BareCallbackInPlace
  <1>5. CASE \/ PutTask \/ ScheduleTaskGroup \/ NotifyLazyInputAvailable
             \/ UpdateFreeTensorDict \/ SchedulerWake \/ GatherWake
    <2>1. CallsOnce'
      BY <1>1, <1>5, CallbackCalls
    <2>2. NodesOfRequests'
      BY <1>1, <1>5, PendingStable
         DEF PutTask, ScheduleTaskGroup, NotifyLazyInputAvailable, UpdateFreeTensorDict,
             SchedulerWake, GatherWake, requestVars
    <2>3. InPlace'
      BY <1>1, <1>5, PutTaskInPlace, ScheduleTaskGroupInPlace, BareCallbackInPlace
    <2> QED
      BY <2>1, <2>2, <2>3
  <1>6. CASE PickFirstTask \/ JoinGroup \/ SchedulerSleep \/ GatherSleep
    <2>1. CallsOnce'
      BY <1>1, <1>6, CallsUnchanged
         DEF PickFirstTask, JoinGroup, SchedulerSleep, GatherSleep, loopVars, requestVars
    <2>2. NodesOfRequests'
      BY <1>1, <1>6, PendingStable
         DEF PickFirstTask, JoinGroup, SchedulerSleep, GatherSleep, requestVars
    <2>3. InPlace'
      BY <1>1, <1>6, PickFirstTaskInPlace, JoinGroupInPlace, LoopSleepInPlace
    <2> QED
      BY <2>1, <2>2, <2>3
  <1>7. CASE AssignGroup
    <2>1. NodesOfRequests'
      BY <1>1, <1>7, PendingStable DEF AssignGroup, requestVars
    <2> QED
      BY <1>1, <1>7, <2>1, AssignGroupCalls, AssignGroupInPlace
  <1>8. ASSUME NEW w \in Worker, GatherTensorBatch(w)
        PROVE  CallsOnce' /\ NodesOfRequests' /\ InPlace'
    <2>1. NodesOfRequests'
      BY <1>1, <1>8, PendingStable DEF GatherTensorBatch, requestVars
    <2> QED
      BY <1>1, <1>8, <2>1, GatherTensorBatchCalls, GatherTensorBatchInPlace
  <1>9. ASSUME NEW w \in Worker, GatherTaskComplete(w)
        PROVE  CallsOnce' /\ NodesOfRequests' /\ InPlace'
    <2>1. NodesOfRequests'
      BY <1>1, <1>9, PendingStable DEF GatherTaskComplete, requestVars
    <2>2. CallsOnce'
      BY <1>1, <1>9, CallsUnchanged DEF GatherTaskComplete, loopVars, requestVars
    <2> QED
      BY <1>1, <1>9, <2>1, <2>2, GatherTaskCompleteInPlace
  <1>10. CASE GatherTask
    BY <1>1, <1>10, GatherTaskCalls, GatherTaskPending, GatherTaskInPlace
  <1> QED
    BY <1>2, <1>3, <1>4, <1>5, <1>6, <1>7, <1>8, <1>9, <1>10
       DEF CoordinatorNext, RunCallback, SchedulerStep

LEMMA WorkerTasks ==
    ASSUME TaskInv, TypeOK', WorkerNext
    PROVE  CallsOnce' /\ NodesOfRequests' /\ InPlace'
  <1>1. TypeOK /\ CallsOnce /\ NodesOfRequests /\ InPlace
    BY DEF TaskInv
  <1>2. UNCHANGED coordinatorSide
    BY DEF WorkerNext, StartGroup, FetchLazy, AcquireLazy, YieldOutput, CompleteGroup
  <1>3. CallsOnce' /\ NodesOfRequests'
    <2>1. NodesOfRequests' /\ UNCHANGED <<ready, phase, completedNodes>>
      BY <1>1, <1>2, WorkerSide
    <2> QED
      BY <1>1, <2>1, CallsUnchanged
  <1>4. InPlace'
    BY <1>1, StartGroupInPlace, LazyStepInPlace, YieldOutputInPlace, CompleteGroupInPlace
       DEF WorkerNext
  <1> QED
    BY <1>3, <1>4

LEMMA StepTasks ==
    ASSUME TaskInv, [Next]_vars
    PROVE  TaskInv'
  <1>1. TypeOK /\ CallsOnce /\ NodesOfRequests /\ InPlace
    BY DEF TaskInv
  <1>2. TypeOK'
    BY <1>1, StepType
  <1>3. CASE CoordinatorNext /\ UNCHANGED workerVars
    BY <1>2, <1>3, CoordinatorTasks DEF TaskInv
  <1>4. CASE WorkerNext
    BY <1>2, <1>4, WorkerTasks DEF TaskInv
  <1>5. CASE UNCHANGED vars
    <2>1. /\ UNCHANGED <<ready, readyTasks, group, results, taskQueue, resultQueue, current>>
          /\ UNCHANGED <<phase, scheduledNodes, completedNodes>>
      BY <1>5 DEF vars, coordinatorVars, loopVars, scheduleVars, requestVars, channelVars,
                  workerVars
    <2>2. CallsOnce' /\ NodesOfRequests' /\ Pending' = Pending
      BY <1>1, <2>1, CallsUnchanged, PendingStable
    <2>3. InPlace'
      BY <1>1, <1>2, <2>1, <2>2, Unmoved
    <2> QED
      BY <1>2, <2>2, <2>3 DEF TaskInv
  <1> QED
    BY <1>3, <1>4, <1>5 DEF Next

-----------------------------------------------------------------------------
(* The places of the property are the positions in the lanes *)

\* What the positions hold.
LEMMA Positioned ==
    ASSUME TypeOK
    PROVE  /\ DOMAIN Lists[Of("ready")] = DOMAIN ready
           /\ \A i \in DOMAIN ready :
                /\ ready[i].cb = "put" => Lists[Of("ready")][i] = <<ready[i].task>>
                /\ ready[i].cb = "dispatch" => Lists[Of("ready")][i] = ready[i].group
                /\ ready[i].cb \notin {"put", "dispatch"} => Lists[Of("ready")][i] = <<>>
           /\ Lists[Of("list")] = <<readyTasks>> /\ Lists[Of("group")] = <<group>>
           /\ Lists[Of("gather")] =
                << [j \in DOMAIN results.rest |-> TaskOf(results.rest[j])] >>
           /\ \A w \in Worker :
                /\ Lists[<<"queue", w>>] = [i \in DOMAIN taskQueue[w] |->
                     [j \in DOMAIN taskQueue[w][i].entries |->
                        TaskOf(taskQueue[w][i].entries[j])]]
                /\ Lists[<<"run", w>>] =
                     << [j \in DOMAIN current[w].entries |-> TaskOf(current[w].entries[j])] >>
                /\ DOMAIN Lists[<<"result", w>>] = DOMAIN resultQueue[w]
                /\ \A i \in DOMAIN resultQueue[w] :
                     /\ resultQueue[w][i].type = "task_complete" =>
                          Lists[<<"result", w>>][i] =
                            [j \in DOMAIN resultQueue[w][i].data |->
                               TaskOf(resultQueue[w][i].data[j])]
                     /\ resultQueue[w][i].type # "task_complete" =>
                          Lists[<<"result", w>>][i] = <<>>
  <1>1. LaneContents
    BY ListsAre
  <1>2. /\ ready \in Seq(Callback) /\ results.rest \in Seq(Response)
        /\ \A w \in Worker : /\ taskQueue[w] \in Seq(TaskMessage)
                             /\ resultQueue[w] \in Seq(ResultMessage)
                             /\ current[w].entries \in Seq(Entry)
    BY DEF TypeOK, CoordinatorTypeOK, LoopTypeOK, ResultsTypeOK, ChannelTypeOK,
           WorkerTypeOK
  <1>3. \A s \in Seq(Entry) \cup Seq(Response) :
          Mapped(TaskIn, s) = [j \in DOMAIN s |-> TaskOf(s[j])]
    <2> SUFFICES ASSUME NEW s \in Seq(Entry) \cup Seq(Response)
                 PROVE  Mapped(TaskIn, s) = [j \in DOMAIN s |-> TaskOf(s[j])]
      OBVIOUS
    <2>1. s \in Seq(Entry \cup Response)
      BY CarryTypes
    <2>2. \A j \in DOMAIN s : s[j] \in Entry \cup Response
      BY <2>1, ElementOfSeq, LenProperties
    <2>3. \A j \in DOMAIN s : TaskIn[s[j]] = TaskOf(s[j])
      BY <2>2 DEF TaskIn
    <2> QED
      BY <2>3 DEF Mapped
  <1>4. \A i \in DOMAIN ready : ready[i] \in Callback
    BY <1>2, ElementOfSeq, LenProperties
  <1>5. /\ DOMAIN Lists[Of("ready")] = DOMAIN ready
        /\ \A i \in DOMAIN ready : Lists[Of("ready")][i] = Carried[ready[i]]
    BY <1>1 DEF LaneContents, Mapped
  <1>6. \A i \in DOMAIN ready :
          /\ ready[i].cb = "put" => Lists[Of("ready")][i] = <<ready[i].task>>
          /\ ready[i].cb = "dispatch" => Lists[Of("ready")][i] = ready[i].group
          /\ ready[i].cb \notin {"put", "dispatch"} => Lists[Of("ready")][i] = <<>>
    <2> SUFFICES ASSUME NEW i \in DOMAIN ready
                 PROVE  /\ ready[i].cb = "put" => Carried[ready[i]] = <<ready[i].task>>
                        /\ ready[i].cb = "dispatch" => Carried[ready[i]] = ready[i].group
                        /\ ready[i].cb \notin {"put", "dispatch"} => Carried[ready[i]] = <<>>
      BY <1>5
    <2>1. ready[i] \in Callback
      BY <1>4
    <2> QED
      BY <2>1 DEF Carried
  <1>7. Lists[Of("gather")] = << [j \in DOMAIN results.rest |-> TaskOf(results.rest[j])] >>
    BY <1>1, <1>2, <1>3 DEF LaneContents
  <1>8. ASSUME NEW w \in Worker
        PROVE  /\ Lists[<<"queue", w>>] = [i \in DOMAIN taskQueue[w] |->
                    [j \in DOMAIN taskQueue[w][i].entries |->
                       TaskOf(taskQueue[w][i].entries[j])]]
               /\ Lists[<<"run", w>>] =
                    << [j \in DOMAIN current[w].entries |-> TaskOf(current[w].entries[j])] >>
    <2> DEFINE q == taskQueue[w]
    <2>1. \A i \in DOMAIN q : q[i] \in TaskMessage
      BY <1>2, ElementOfSeq, LenProperties
    <2>2. Lists[<<"queue", w>>] = Mapped(Sent, q)
      BY <1>1 DEF LaneContents
    <2> HIDE DEF q
    <2>3. \A i \in DOMAIN q :
            Sent[q[i]] = [j \in DOMAIN q[i].entries |-> TaskOf(q[i].entries[j])]
      <3> SUFFICES ASSUME NEW i \in DOMAIN q
                   PROVE  Sent[q[i]] = [j \in DOMAIN q[i].entries |-> TaskOf(q[i].entries[j])]
        OBVIOUS
      <3>1. q[i] \in TaskMessage /\ q[i].entries \in Seq(Entry)
        BY <2>1 DEF TaskMessage
      <3>2. Sent[q[i]] = Mapped(TaskIn, q[i].entries)
        BY <3>1 DEF Sent
      <3> QED
        BY <1>3, <3>1, <3>2
    <2>4. Lists[<<"queue", w>>] =
            [i \in DOMAIN q |-> [j \in DOMAIN q[i].entries |-> TaskOf(q[i].entries[j])]]
      BY <2>2, <2>3 DEF Mapped
    <2>5. Lists[<<"run", w>>] = << Mapped(TaskIn, current[w].entries) >>
      BY <1>1 DEF LaneContents
    <2> QED
      BY <1>2, <1>3, <2>4, <2>5 DEF q
  <1>9. ASSUME NEW w \in Worker
        PROVE  /\ DOMAIN Lists[<<"result", w>>] = DOMAIN resultQueue[w]
               /\ \A i \in DOMAIN resultQueue[w] :
                     /\ resultQueue[w][i].type = "task_complete" =>
                          Lists[<<"result", w>>][i] =
                            [j \in DOMAIN resultQueue[w][i].data |->
                               TaskOf(resultQueue[w][i].data[j])]
                     /\ resultQueue[w][i].type # "task_complete" =>
                          Lists[<<"result", w>>][i] = <<>>
    <2> DEFINE q == resultQueue[w]
    <2>1. \A i \in DOMAIN q : q[i] \in ResultMessage
      BY <1>2, ElementOfSeq, LenProperties
    <2>2. /\ DOMAIN Lists[<<"result", w>>] = DOMAIN q
          /\ \A i \in DOMAIN q : Lists[<<"result", w>>][i] = Answered[q[i]]
      BY <1>1, ZenonT(60) DEF LaneContents, Mapped
    <2> HIDE DEF q
    <2>3. ASSUME NEW i \in DOMAIN q
          PROVE  /\ q[i].type = "task_complete" =>
                      Answered[q[i]] = [j \in DOMAIN q[i].data |-> TaskOf(q[i].data[j])]
                 /\ q[i].type # "task_complete" => Answered[q[i]] = <<>>
      <3>1. q[i] \in ResultMessage
        BY <2>1
      <3>2. CASE q[i].type = "task_complete"
        <4>1. q[i].data \in Seq(Response) /\ Answered[q[i]] = Mapped(TaskIn, q[i].data)
          BY <3>1, <3>2, ResultMessageFields DEF Answered
        <4> QED
          BY <1>3, <3>2, <4>1
      <3>3. CASE q[i].type # "task_complete"
        BY <3>1, <3>3 DEF Answered
      <3> QED
        BY <3>2, <3>3
    <2> QED
      BY <2>2, <2>3 DEF q
  <1> QED
    BY <1>1, <1>5, <1>6, <1>7, <1>8, <1>9 DEF LaneContents

\* Task j of list i of lane l, and the place it is.
Spot(l, i, j) == l \in Lane /\ i \in DOMAIN Lists[l] /\ j \in DOMAIN Lists[l][i]

Place(l, i, j) ==
    LET x == Lists[l][i][j]
    IN  CASE l[1] = "ready" -> IF ready[i].cb = "put" THEN <<"put", i, x>>
                                                      ELSE <<"dispatch", i, j, x>>
          [] l[1] = "list" -> <<"ready", j, x>>
          [] l[1] = "group" -> <<"group", j, x>>
          [] l[1] = "gather" -> <<"gathering", j, x>>
          [] l[1] = "queue" -> <<"queued", l[2], i, j, x>>
          [] l[1] = "run" -> <<"running", l[2], j, x>>
          [] l[1] = "result" -> <<"reported", l[2], i, j, x>>

LoopPlaces ==
    { <<"put", i, ready[i].task>> : i \in { k \in DOMAIN ready : ready[k].cb = "put" } }
    \cup { <<"ready", i, readyTasks[i]>> : i \in DOMAIN readyTasks }
    \cup { <<"group", i, group[i]>> : i \in DOMAIN group }
    \cup { <<"gathering", i, TaskOf(results.rest[i])>> : i \in DOMAIN results.rest }

DispatchPlaces ==
    UNION { { <<"dispatch", i, j, ready[i].group[j]>> : j \in DOMAIN ready[i].group } :
            i \in { k \in DOMAIN ready : ready[k].cb = "dispatch" } }

QueuePlaces(w) ==
    UNION { { <<"queued", w, i, j, TaskOf(taskQueue[w][i].entries[j])>> :
                j \in DOMAIN taskQueue[w][i].entries } : i \in DOMAIN taskQueue[w] }

RunPlaces(w) ==
    { <<"running", w, j, TaskOf(current[w].entries[j])>> : j \in DOMAIN current[w].entries }

ResultPlaces(w) ==
    UNION { { <<"reported", w, i, j, TaskOf(resultQueue[w][i].data[j])>> :
                j \in DOMAIN resultQueue[w][i].data } :
            i \in { k \in DOMAIN resultQueue[w] : resultQueue[w][k].type = "task_complete" } }

LEMMA OccurrencesAre ==
    Occurrences = LoopPlaces \cup DispatchPlaces
                    \cup UNION { QueuePlaces(w) \cup RunPlaces(w) \cup ResultPlaces(w) :
                                 w \in Worker }
  <1> DEFINE Q == UNION { QueuePlaces(w) : w \in Worker }
             R == UNION { RunPlaces(w) : w \in Worker }
             S == UNION { ResultPlaces(w) : w \in Worker }
  <1>1. Occurrences = LoopPlaces \cup DispatchPlaces \cup Q \cup R \cup S
    BY DEF Occurrences, LoopPlaces, DispatchPlaces, QueuePlaces, RunPlaces, ResultPlaces
  <1>2. Q \cup R \cup S = UNION { QueuePlaces(w) \cup RunPlaces(w) \cup ResultPlaces(w) :
                                 w \in Worker }
    OBVIOUS
  <1> HIDE DEF Q, R, S
  <1> QED
    BY <1>1, <1>2

LEMMA WorkerPlaces ==
    ASSUME NEW w \in Worker
    PROVE  /\ QueuePlaces(w) \subseteq Occurrences
           /\ RunPlaces(w) \subseteq Occurrences
           /\ ResultPlaces(w) \subseteq Occurrences
  <1> DEFINE P(v) == QueuePlaces(v) \cup RunPlaces(v) \cup ResultPlaces(v)
  <1>1. P(w) \in { P(v) : v \in Worker }
    OBVIOUS
  <1> HIDE DEF P
  <1>2. P(w) \subseteq UNION { P(v) : v \in Worker }
    BY <1>1
  <1>3. UNION { P(v) : v \in Worker } \subseteq Occurrences
    BY OccurrencesAre DEF P
  <1> QED
    BY <1>2, <1>3 DEF P

\* Every occurrence is the place of a position.
LEMMA OccurrenceSpot ==
    ASSUME TypeOK, NEW o \in Occurrences
    PROVE  \E l \in Lane : \E i \in DOMAIN Lists[l] : \E j \in DOMAIN Lists[l][i] :
             o = Place(l, i, j) /\ o[Len(o)] = Lists[l][i][j]
  <1> DEFINE Placed(l, i, j) ==
        /\ l \in Lane /\ i \in DOMAIN Lists[l] /\ j \in DOMAIN Lists[l][i]
        /\ o = Place(l, i, j) /\ o[Len(o)] = Lists[l][i][j]
  <1> SUFFICES \E l, i, j : Placed(l, i, j)
    OBVIOUS
  <1>0. /\ \A name \in {"ready", "list", "group", "gather"} : Of(name) \in Lane
        /\ \A name \in {"queue", "run", "result"}, w \in Worker : <<name, w>> \in Lane
    BY LanesAre
  <1>1. CASE o \in { <<"put", i, ready[i].task>> :
                       i \in { k \in DOMAIN ready : ready[k].cb = "put" } }
    <2>1. PICK i \in DOMAIN ready : ready[i].cb = "put" /\ o = <<"put", i, ready[i].task>>
      BY <1>1
    <2>2. Lists[Of("ready")][i] = <<ready[i].task>> /\ i \in DOMAIN Lists[Of("ready")]
      BY <2>1, Positioned
    <2>3. Placed(Of("ready"), i, 1)
      BY <1>0, <2>1, <2>2 DEF Place, Of
    <2> QED
      BY <2>3
  <1>2. CASE o \in { <<"ready", i, readyTasks[i]>> : i \in DOMAIN readyTasks }
    <2>1. PICK j \in DOMAIN readyTasks : o = <<"ready", j, readyTasks[j]>>
      BY <1>2
    <2>2. Lists[Of("list")] = <<readyTasks>>
      BY Positioned
    <2>3. Placed(Of("list"), 1, j)
      BY <1>0, <2>1, <2>2 DEF Place, Of
    <2> QED
      BY <2>3
  <1>3. CASE o \in { <<"group", i, group[i]>> : i \in DOMAIN group }
    <2>1. PICK j \in DOMAIN group : o = <<"group", j, group[j]>>
      BY <1>3
    <2>2. Lists[Of("group")] = <<group>>
      BY Positioned
    <2>3. Placed(Of("group"), 1, j)
      BY <1>0, <2>1, <2>2 DEF Place, Of
    <2> QED
      BY <2>3
  <1>4. CASE o \in { <<"gathering", i, TaskOf(results.rest[i])>> : i \in DOMAIN results.rest }
    <2>1. PICK j \in DOMAIN results.rest : o = <<"gathering", j, TaskOf(results.rest[j])>>
      BY <1>4
    <2>2. Lists[Of("gather")] =
            << [n \in DOMAIN results.rest |-> TaskOf(results.rest[n])] >>
      BY Positioned
    <2>3. Placed(Of("gather"), 1, j)
      BY <1>0, <2>1, <2>2 DEF Place, Of
    <2> QED
      BY <2>3
  <1>5. CASE o \in DispatchPlaces
    <2>1. PICK i \in DOMAIN ready : /\ ready[i].cb = "dispatch"
                                    /\ \E j \in DOMAIN ready[i].group :
                                         o = <<"dispatch", i, j, ready[i].group[j]>>
      BY <1>5 DEF DispatchPlaces
    <2>2. PICK j \in DOMAIN ready[i].group : o = <<"dispatch", i, j, ready[i].group[j]>>
      BY <2>1
    <2>3. Lists[Of("ready")][i] = ready[i].group /\ i \in DOMAIN Lists[Of("ready")]
      BY <2>1, Positioned
    <2>4. Placed(Of("ready"), i, j)
      BY <1>0, <2>1, <2>2, <2>3 DEF Place, Of
    <2> QED
      BY <2>4
  <1>6. ASSUME NEW w \in Worker, o \in QueuePlaces(w)
        PROVE  \E l, i, j : Placed(l, i, j)
    <2>1. PICK i \in DOMAIN taskQueue[w] : \E j \in DOMAIN taskQueue[w][i].entries :
            o = <<"queued", w, i, j, TaskOf(taskQueue[w][i].entries[j])>>
      BY <1>6 DEF QueuePlaces
    <2>2. PICK j \in DOMAIN taskQueue[w][i].entries :
            o = <<"queued", w, i, j, TaskOf(taskQueue[w][i].entries[j])>>
      BY <2>1
    <2> DEFINE l == <<"queue", w>>
               L == Lists[l]
    <2>0. L = [n \in DOMAIN taskQueue[w] |-> [m \in DOMAIN taskQueue[w][n].entries |->
                 TaskOf(taskQueue[w][n].entries[m])]]
      BY Positioned
    <2>3. /\ i \in DOMAIN L /\ j \in DOMAIN L[i]
          /\ L[i][j] = TaskOf(taskQueue[w][i].entries[j])
      <3> HIDE DEF L, l
      <3> QED
        BY <2>0
    <2>4. Placed(l, i, j)
      BY <1>0, <2>2, <2>3 DEF Place
    <2> QED
      BY <2>4
  <1>7. ASSUME NEW w \in Worker, o \in RunPlaces(w)
        PROVE  \E l, i, j : Placed(l, i, j)
    <2>1. PICK j \in DOMAIN current[w].entries :
            o = <<"running", w, j, TaskOf(current[w].entries[j])>>
      BY <1>7 DEF RunPlaces
    <2> DEFINE l == <<"run", w>>
    <2>2. Lists[l] = << [n \in DOMAIN current[w].entries |-> TaskOf(current[w].entries[n])] >>
      BY Positioned
    <2>3. Placed(l, 1, j)
      BY <1>0, <2>1, <2>2 DEF Place
    <2> QED
      BY <2>3
  <1>8. ASSUME NEW w \in Worker, o \in ResultPlaces(w)
        PROVE  \E l, i, j : Placed(l, i, j)
    <2>1. PICK i \in DOMAIN resultQueue[w] :
            /\ resultQueue[w][i].type = "task_complete"
            /\ \E j \in DOMAIN resultQueue[w][i].data :
                 o = <<"reported", w, i, j, TaskOf(resultQueue[w][i].data[j])>>
      BY <1>8 DEF ResultPlaces
    <2>2. PICK j \in DOMAIN resultQueue[w][i].data :
            o = <<"reported", w, i, j, TaskOf(resultQueue[w][i].data[j])>>
      BY <2>1
    <2> DEFINE l == <<"result", w>>
               L == Lists[l]
    <2>0. /\ DOMAIN L = DOMAIN resultQueue[w]
          /\ L[i] = [m \in DOMAIN resultQueue[w][i].data |->
                       TaskOf(resultQueue[w][i].data[m])]
      BY <2>1, Positioned
    <2>3. /\ i \in DOMAIN L /\ j \in DOMAIN L[i]
          /\ L[i][j] = TaskOf(resultQueue[w][i].data[j])
      <3> HIDE DEF L, l
      <3> QED
        BY <2>0
    <2>4. Placed(l, i, j)
      BY <1>0, <2>2, <2>3 DEF Place
    <2> QED
      BY <2>4
  <1> QED
    <2> HIDE DEF Placed
    <2>1. \/ o \in LoopPlaces
          \/ o \in DispatchPlaces
          \/ \E w \in Worker : o \in QueuePlaces(w) \cup RunPlaces(w) \cup ResultPlaces(w)
      BY OccurrencesAre
    <2>2. CASE o \in LoopPlaces
      BY <1>1, <1>2, <1>3, <1>4, <2>2 DEF LoopPlaces
    <2>3. ASSUME NEW w \in Worker, o \in QueuePlaces(w) \cup RunPlaces(w) \cup ResultPlaces(w)
          PROVE  \E l, i, j : Placed(l, i, j)
      <3>1. CASE o \in QueuePlaces(w)
        BY <1>6, <3>1
      <3>2. CASE o \in RunPlaces(w)
        BY <1>7, <3>2
      <3>3. CASE o \in ResultPlaces(w)
        BY <1>8, <3>3
      <3> QED
        BY <2>3, <3>1, <3>2, <3>3
    <2> QED
      BY <1>5, <2>1, <2>2, <2>3

\* The place of every position is an occurrence.
LEMMA SpotOccurs ==
    ASSUME TypeOK, NEW l \in Lane, NEW i \in DOMAIN Lists[l], NEW j \in DOMAIN Lists[l][i]
    PROVE  \E o \in Occurrences : o[Len(o)] = Lists[l][i][j]
  <1>1. CASE l = Of("ready")
    <2>1. i \in DOMAIN ready
      BY <1>1, Positioned
    <2>2. CASE ready[i].cb = "put"
      <3> DEFINE o == <<"put", i, ready[i].task>>
      <3>1. o \in LoopPlaces
        BY <2>1, <2>2 DEF LoopPlaces
      <3>2. Lists[l][i] = <<ready[i].task>>
        BY <1>1, <2>1, <2>2, Positioned
      <3>3. o[Len(o)] = Lists[l][i][j]
        BY <3>2
      <3> QED
        BY <3>1, <3>3, OccurrencesAre
    <2>3. CASE ready[i].cb = "dispatch"
      <3> DEFINE o == <<"dispatch", i, j, ready[i].group[j]>>
      <3>1. Lists[l][i] = ready[i].group
        BY <1>1, <2>1, <2>3, Positioned
      <3>2. o \in DispatchPlaces
        BY <2>1, <2>3, <3>1 DEF DispatchPlaces
      <3>3. o[Len(o)] = Lists[l][i][j]
        BY <3>1
      <3> QED
        BY <3>2, <3>3, OccurrencesAre
    <2>4. CASE ready[i].cb \notin {"put", "dispatch"}
      <3>1. Lists[l][i] = <<>>
        BY <1>1, <2>1, <2>4, Positioned
      <3> QED
        BY <3>1
    <2> QED
      BY <2>2, <2>3, <2>4
  <1>2. CASE l = Of("list")
    <2> DEFINE o == <<"ready", j, readyTasks[j]>>
    <2>1. Lists[l] = <<readyTasks>>
      BY <1>2, Positioned
    <2>2. o \in LoopPlaces /\ o[Len(o)] = Lists[l][i][j]
      BY <2>1 DEF LoopPlaces
    <2> QED
      BY <2>2, OccurrencesAre
  <1>3. CASE l = Of("group")
    <2> DEFINE o == <<"group", j, group[j]>>
    <2>1. Lists[l] = <<group>>
      BY <1>3, Positioned
    <2>2. o \in LoopPlaces /\ o[Len(o)] = Lists[l][i][j]
      BY <2>1 DEF LoopPlaces
    <2> QED
      BY <2>2, OccurrencesAre
  <1>4. CASE l = Of("gather")
    <2> DEFINE o == <<"gathering", j, TaskOf(results.rest[j])>>
    <2>1. Lists[l] = << [n \in DOMAIN results.rest |-> TaskOf(results.rest[n])] >>
      BY <1>4, Positioned
    <2>2. o \in LoopPlaces /\ o[Len(o)] = Lists[l][i][j]
      BY <2>1 DEF LoopPlaces
    <2> QED
      BY <2>2, OccurrencesAre
  <1>5. ASSUME NEW w \in Worker, l = <<"queue", w>>
        PROVE  \E o \in Occurrences : o[Len(o)] = Lists[l][i][j]
    <2> DEFINE o == <<"queued", w, i, j, TaskOf(taskQueue[w][i].entries[j])>>
    <2>1. Lists[l] = [n \in DOMAIN taskQueue[w] |-> [m \in DOMAIN taskQueue[w][n].entries |->
                        TaskOf(taskQueue[w][n].entries[m])]]
      BY <1>5, Positioned
    <2>2. o \in QueuePlaces(w) /\ o[Len(o)] = Lists[l][i][j]
      BY <2>1 DEF QueuePlaces
    <2> HIDE DEF o
    <2> QED
      BY <2>2, WorkerPlaces
  <1>6. ASSUME NEW w \in Worker, l = <<"run", w>>
        PROVE  \E o \in Occurrences : o[Len(o)] = Lists[l][i][j]
    <2> DEFINE o == <<"running", w, j, TaskOf(current[w].entries[j])>>
    <2>1. Lists[l] = << [n \in DOMAIN current[w].entries |-> TaskOf(current[w].entries[n])] >>
      BY <1>6, Positioned
    <2>2. o \in RunPlaces(w) /\ o[Len(o)] = Lists[l][i][j]
      BY <2>1 DEF RunPlaces
    <2> HIDE DEF o
    <2> QED
      BY <2>2, WorkerPlaces
  <1>7. ASSUME NEW w \in Worker, l = <<"result", w>>
        PROVE  \E o \in Occurrences : o[Len(o)] = Lists[l][i][j]
    <2> DEFINE o == <<"reported", w, i, j, TaskOf(resultQueue[w][i].data[j])>>
    <2>1. i \in DOMAIN resultQueue[w]
      BY <1>7, Positioned
    <2>2. CASE resultQueue[w][i].type = "task_complete"
      <3>1. Lists[l][i] = [m \in DOMAIN resultQueue[w][i].data |->
                             TaskOf(resultQueue[w][i].data[m])]
        BY <1>7, <2>1, <2>2, Positioned
      <3>2. o \in ResultPlaces(w) /\ o[Len(o)] = Lists[l][i][j]
        BY <2>1, <2>2, <3>1 DEF ResultPlaces
      <3> HIDE DEF o
      <3> QED
        BY <3>2, WorkerPlaces
    <2>3. CASE resultQueue[w][i].type # "task_complete"
      <3>1. Lists[l][i] = <<>>
        BY <1>7, <2>1, <2>3, Positioned
      <3> QED
        BY <3>1
    <2> QED
      BY <2>2, <2>3
  <1> QED
    BY <1>1, <1>2, <1>3, <1>4, <1>5, <1>6, <1>7, LanesAre

LEMMA PlacesCounted ==
    ASSUME TypeOK, InPlace
    PROVE  EveryTaskInOnePlace
  <1> SUFFICES ASSUME NEW r \in Request, NEW n \in Node
               PROVE  Cardinality({ o \in Occurrences : o[Len(o)] = [req |-> r, node |-> n] })
                        = IF phase[r] = "live" /\ n \in scheduledNodes[r] \ completedNodes[r]
                          THEN 1 ELSE 0
    BY DEF EveryTaskInOnePlace
  <1> DEFINE x == [req |-> r, node |-> n]
             O == { o \in Occurrences : o[Len(o)] = x }
  <1>1. x \in Pending <=> phase[r] = "live" /\ n \in scheduledNodes[r] \ completedNodes[r]
    BY DEF Pending, Task
  <1> HIDE DEF x
  <1>2. \A l \in Lane : \A i \in DOMAIN Lists[l] : \A j \in DOMAIN Lists[l][i] :
          Lists[l][i][j] \in Tasks(Lists[l])
    BY DEF Tasks, ToSet
  <1>3. CASE x \in Pending
    <2>1. PICK l \in Lane : x \in Tasks(Lists[l])
      BY <1>3 DEF InPlace, Everywhere
    <2>2. PICK i \in DOMAIN Lists[l] : x \in ToSet(Lists[l][i])
      BY <2>1 DEF Tasks
    <2>3. PICK j \in DOMAIN Lists[l][i] : Lists[l][i][j] = x
      BY <2>2 DEF ToSet
    <2>4. PICK o \in Occurrences : o[Len(o)] = x
      BY <2>3, SpotOccurs
    <2>5. ASSUME NEW p \in Occurrences, p[Len(p)] = x
          PROVE  p = Place(l, i, j)
      <3>1. PICK k \in Lane : \E a \in DOMAIN Lists[k] : \E b \in DOMAIN Lists[k][a] :
              p = Place(k, a, b) /\ p[Len(p)] = Lists[k][a][b]
        BY OccurrenceSpot
      <3>2. PICK a \in DOMAIN Lists[k] : \E b \in DOMAIN Lists[k][a] :
              p = Place(k, a, b) /\ p[Len(p)] = Lists[k][a][b]
        BY <3>1
      <3>3. PICK b \in DOMAIN Lists[k][a] : p = Place(k, a, b) /\ p[Len(p)] = Lists[k][a][b]
        BY <3>2
      <3>4. k = l
        <4>1. x \in Tasks(Lists[k])
          BY <1>2, <2>5, <3>3
        <4> QED
          BY <2>1, <4>1, LanesDisjoint
      <3>5. a = i /\ b = j
        <4>1. Distinct(Lists[l])
          BY LanePending
        <4> QED
          BY <2>3, <2>5, <3>3, <3>4, <4>1 DEF Distinct
      <3> QED
        BY <3>3, <3>4, <3>5
    <2>6. O = {o}
      BY <2>4, <2>5
    <2>7. Cardinality(O) = 1
      BY <2>6, FS_Singleton
    <2> QED
      BY <1>1, <1>3, <2>7 DEF x
  <1>4. CASE x \notin Pending
    <2>1. ASSUME NEW o \in Occurrences
          PROVE  o[Len(o)] # x
      <3>1. PICK l \in Lane : \E i \in DOMAIN Lists[l] : \E j \in DOMAIN Lists[l][i] :
              o[Len(o)] = Lists[l][i][j]
        BY OccurrenceSpot
      <3>2. o[Len(o)] \in Tasks(Lists[l])
        BY <1>2, <3>1
      <3> QED
        BY <1>4, <3>2, LanePending
    <2>2. O = {}
      BY <2>1
    <2>3. Cardinality(O) = 0
      BY <2>2, FS_EmptySet
    <2> QED
      BY <1>1, <1>4, <2>3 DEF x
  <1> QED
    BY <1>3, <1>4

\* No task is lost and none is in two places: a scheduled and not yet completed
\* task of a live request is in exactly one callback, list, group, message or
\* result, and no other task is anywhere.
THEOREM EveryTaskHasOnePlace == Spec => []EveryTaskInOnePlace
  <1>1. TaskInv => EveryTaskInOnePlace
    BY PlacesCounted DEF TaskInv
  <1> QED
    BY <1>1, InitTasks, StepTasks, PTL DEF Spec
=============================================================================
