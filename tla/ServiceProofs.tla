---------------------------- MODULE ServiceProofs ----------------------------
(***************************************************************************)
(* The flow of tensors: what a node takes is known when it is scheduled    *)
(* and when it completes, so that the serving system implements            *)
(* WorkflowService; the reference counts and the end of a request; the     *)
(* memory of the copies; where the copies that a location names are held,  *)
(* and how the lazy inputs reach the tasks that wait for them; the groups  *)
(* that the policies make, and the load they expect of a worker.           *)
(*                                                                         *)
(* A tensor becomes known to the coordinator when it handles the result    *)
(* that announces it.  A worker holds tensors it has not announced yet,    *)
(* or whose announcement is still in its queue of results; since the queue *)
(* keeps its order, everything a result presupposes was announced before.  *)
(***************************************************************************)
EXTENDS ServingProofs

Named(x, t) == [req |-> x.req, tensor |-> t]

Known == { b \in Buffer : Available(b.req, b.tensor) }

\* What a result announces.
ToldBy(data) == UNION { BuffersOf(res, res.tensors) : res \in ToSet(data) }

Announced(m) == IF m.type = "task_complete" THEN ToldBy(m.data) ELSE m.buffers

\* What is known once the coordinator has handled the rest of w's last result,
\* then the first i - 1 in its queue, then all of them.
KnownFrom(w) == Known \cup (IF results.from = w THEN ToldBy(results.rest) ELSE {})

Ahead(w, i) ==
    KnownFrom(w) \cup (UNION { Announced(resultQueue[w][k]) : k \in 1 .. (i - 1) })

AllTold(w) == Ahead(w, Len(resultQueue[w]) + 1)

\* Beyond what is in S, the result x presupposes only what it tells: outputs.
Explained(x, S) ==
    /\ \A t \in Inputs[x.node] : Named(x, t) \in S
    /\ \A t \in Outputs(x.node) \cup x.tensors :
         Named(x, t) \in S \/ t \in x.tensors \cap Outputs(x.node)

RunningAt(w) == ToSet(current[w].entries)

\* The completion of task x comes after the i-th result of w.
Behind(x, w, i) ==
    \/ \E k \in DOMAIN resultQueue[w] :
         /\ k > i /\ resultQueue[w][k].type = "task_complete"
         /\ \E res \in ToSet(resultQueue[w][k].data) : TaskOf(res) = x
    \/ \E e \in RunningAt(w) : TaskOf(e) = x

MakerOf(b) == [req |-> b.req, node |-> Producer[b.tensor]]

-----------------------------------------------------------------------------
(* The invariant *)

\* What a scheduled node waits for has completed; what a completed node took
\* and made is known.
NodesFed ==
    \A r \in Request : phase[r] = "live" =>
        /\ \A n \in scheduledNodes[r] : NonLazyPrerequisites(n) \subseteq completedNodes[r]
        /\ \A n \in completedNodes[r] :
             \A t \in Inputs[n] \cup Outputs(n) : Available(r, t)

EntryOK(e) ==
    /\ \A t \in Tensor : e.at[t] # {} => Available(e.req, t)
    /\ \A t \in Inputs[e.node] : e.at[t] # {} \/ t \in e.lazy

EntriesAt(w) ==
    (UNION { ToSet(m.entries) : m \in ToSet(taskQueue[w]) }) \cup RunningAt(w)

EntriesFed == \A w \in Worker : \A e \in EntriesAt(w) : EntryOK(e)

Started(r) == phase[r] \in {"live", "done"}

Sound(b) == Started(b.req) /\ (phase[b.req] = "live" => b \in Known)

\* A worker has only tensors it has announced, or fetched because they were.
StoresTold ==
    \A w \in Worker :
        /\ \A b \in store[w] : Started(b.req) /\ (phase[b.req] = "live" => b \in AllTold(w))
        /\ \A b \in received[w] : Sound(b)
        /\ \A m \in lazyQueue[w] : Sound(Named(m, m.tensor))

NoticesTold ==
    \A c \in ToSet(ready) : c.cb = "notify" => \A t \in c.tensors : Sound(Named(c, t))

\* The tensors of a running group are there or announced, except those its
\* operator still has to call for or to yield.
GroupsTold ==
    \A w \in Worker :
        /\ \A e \in RunningAt(w) :
             /\ \A t \in e.lazy : Named(e, t) \in current[w].lazy \cup AllTold(w)
             /\ e.node \in Generator => \A t \in Outputs(e.node) :
                  Named(e, t) \in current[w].yields \cup AllTold(w)
        /\ \A b \in current[w].yields :
             /\ Producer[b.tensor] \in Generator
             /\ \E e \in RunningAt(w) : TaskOf(e) = MakerOf(b)

\* A completion presupposes only what was announced before it, and an early
\* output comes before the completion of its node.
MessageOK(w, i) ==
    LET m == resultQueue[w][i]
    IN  IF m.type = "task_complete"
        THEN \A res \in ToSet(m.data) : Explained(res, Ahead(w, i))
        ELSE \A b \in m.buffers : /\ Producer[b.tensor] \in Generator
                                  /\ Behind(MakerOf(b), w, i)

ResultsTold ==
    /\ \A res \in ToSet(results.rest) : Explained(res, Known)
    /\ \A w \in Worker : \A i \in DOMAIN resultQueue[w] : MessageOK(w, i)

FlowInv ==
    /\ TaskInv
    /\ NodesFed /\ EntriesFed /\ StoresTold /\ NoticesTold /\ GroupsTold /\ ResultsTold

-----------------------------------------------------------------------------
(* What a step touches *)

\* The elements of a sequence.
LEMMA Elements ==
    ASSUME NEW T, NEW s \in Seq(T)
    PROVE  /\ ToSet(s) \subseteq T /\ \A i \in DOMAIN s : s[i] \in ToSet(s) /\ s[i] \in T
           /\ \A e : e \in ToSet(s) <=> \E i \in DOMAIN s : s[i] = e
           /\ s # <<>> => /\ Head(s) \in ToSet(s) /\ ToSet(Tail(s)) \subseteq ToSet(s)
                          /\ ToSet(s) = {Head(s)} \cup ToSet(Tail(s))
           /\ \A e : ToSet(Append(s, e)) = ToSet(s) \cup {e}
  <1>1. \A i \in DOMAIN s : s[i] \in T
    BY ElementOfSeq, LenProperties
  <1>2. s # <<>> => /\ Head(s) \in ToSet(s) /\ ToSet(Tail(s)) \subseteq ToSet(s)
                    /\ ToSet(s) = {Head(s)} \cup ToSet(Tail(s))
    <2> SUFFICES ASSUME s # <<>>
                 PROVE  /\ Head(s) \in ToSet(s) /\ ToSet(Tail(s)) \subseteq ToSet(s)
                        /\ ToSet(s) = {Head(s)} \cup ToSet(Tail(s))
      OBVIOUS
    <2>1. Head(s) = s[1] /\ 1 \in DOMAIN s
      BY HeadTailProperties, LenProperties, EmptySeq
    <2>2. /\ \A i \in DOMAIN Tail(s) : Tail(s)[i] = s[i + 1] /\ i + 1 \in DOMAIN s
          /\ \A i \in DOMAIN s : i = 1 \/ (i - 1 \in DOMAIN Tail(s) /\ i = (i - 1) + 1)
      BY HeadTailProperties, LenProperties
    <2> QED
      BY <2>1, <2>2 DEF ToSet
  <1>3. ASSUME NEW e
        PROVE  ToSet(Append(s, e)) = ToSet(s) \cup {e}
    <2>1. /\ DOMAIN s = 1 .. Len(s) /\ Len(s) \in Nat
          /\ DOMAIN Append(s, e) = 1 .. (Len(s) + 1)
          /\ \A i \in 1 .. Len(s) : Append(s, e)[i] = s[i]
          /\ Append(s, e)[Len(s) + 1] = e
      <3>1. s \in Seq(T \cup {e})
        OBVIOUS
      <3> QED
        BY <3>1, AppendProperties, LenProperties
    <2> QED
      BY <2>1 DEF ToSet
  <1> QED
    BY <1>1, <1>2, <1>3 DEF ToSet

\* Every entry, result and dispatched group is of pending tasks.
TasksPending ==
    /\ \A w \in Worker : \A e \in EntriesAt(w) : e \in Entry /\ TaskOf(e) \in Pending
    /\ \A res \in ToSet(results.rest) : res \in Response /\ TaskOf(res) \in Pending
    /\ \A w \in Worker : \A i \in DOMAIN resultQueue[w] :
         resultQueue[w][i].type = "task_complete" =>
            \A res \in ToSet(resultQueue[w][i].data) : res \in Response /\ TaskOf(res) \in Pending
    /\ \A i \in DOMAIN ready : ready[i].cb = "dispatch" =>
         \A x \in ToSet(ready[i].group) : x \in Pending

\* What is at a position of a lane is pending.
LEMMA SpotPending ==
    ASSUME InPlace, NEW l \in Lane, NEW i \in DOMAIN Lists[l], NEW j \in DOMAIN Lists[l][i]
    PROVE  Lists[l][i][j] \in Pending
  BY LanePending DEF Tasks, ToSet

LEMMA TasksArePending ==
    ASSUME TypeOK, InPlace
    PROVE  TasksPending
  <1>1. LaneContents
    BY ListsAre
  <1>2. ASSUME NEW w \in Worker, NEW i \in DOMAIN taskQueue[w],
               NEW j \in DOMAIN taskQueue[w][i].entries
        PROVE  TaskOf(taskQueue[w][i].entries[j]) \in Pending
    <2>1. <<"queue", w>> \in Lane
      BY LanesAre
    <2>2. Lists[<<"queue", w>>] = [h \in DOMAIN taskQueue[w] |->
            [k \in DOMAIN taskQueue[w][h].entries |-> TaskOf(taskQueue[w][h].entries[k])]]
      BY Positioned
    <2>3. /\ i \in DOMAIN Lists[<<"queue", w>>] /\ j \in DOMAIN Lists[<<"queue", w>>][i]
          /\ Lists[<<"queue", w>>][i][j] = TaskOf(taskQueue[w][i].entries[j])
      BY <2>2
    <2> QED
      BY <2>1, <2>3, SpotPending
  <1>3. ASSUME NEW w \in Worker, NEW j \in DOMAIN current[w].entries
        PROVE  TaskOf(current[w].entries[j]) \in Pending
    <2>1. <<"run", w>> \in Lane /\ Lists[<<"run", w>>] =
             << [k \in DOMAIN current[w].entries |-> TaskOf(current[w].entries[k])] >>
      BY LanesAre, Positioned
    <2>2. 1 \in DOMAIN Lists[<<"run", w>>]
      BY <2>1
    <2> QED
      BY <2>1, <2>2, SpotPending
  <1>4. ASSUME NEW j \in DOMAIN results.rest
        PROVE  TaskOf(results.rest[j]) \in Pending
    <2>1. Of("gather") \in Lane /\ Lists[Of("gather")] =
             << [k \in DOMAIN results.rest |-> TaskOf(results.rest[k])] >>
      BY LanesAre, Positioned
    <2>2. 1 \in DOMAIN Lists[Of("gather")]
      BY <2>1
    <2> QED
      BY <2>1, <2>2, SpotPending
  <1>5. ASSUME NEW w \in Worker, NEW i \in DOMAIN resultQueue[w],
               resultQueue[w][i].type = "task_complete",
               NEW j \in DOMAIN resultQueue[w][i].data
        PROVE  TaskOf(resultQueue[w][i].data[j]) \in Pending
    <2>1. <<"result", w>> \in Lane /\ i \in DOMAIN Lists[<<"result", w>>]
          /\ Lists[<<"result", w>>][i] = [k \in DOMAIN resultQueue[w][i].data |->
                                           TaskOf(resultQueue[w][i].data[k])]
      BY <1>5, LanesAre, Positioned
    <2> QED
      BY <2>1, SpotPending
  <1>6. ASSUME NEW i \in DOMAIN ready, ready[i].cb = "dispatch",
               NEW j \in DOMAIN ready[i].group
        PROVE  ready[i].group[j] \in Pending
    <2>1. Of("ready") \in Lane /\ i \in DOMAIN Lists[Of("ready")]
          /\ Lists[Of("ready")][i] = ready[i].group
      BY <1>6, LanesAre, Positioned
    <2> QED
      BY <2>1, SpotPending
  <1>7. ASSUME NEW w \in Worker
        PROVE  /\ taskQueue[w] \in Seq(TaskMessage) /\ resultQueue[w] \in Seq(ResultMessage)
               /\ current[w].entries \in Seq(Entry) /\ results.rest \in Seq(Response)
    BY DEF TypeOK, CoordinatorTypeOK, ChannelTypeOK, WorkerTypeOK, ResultsTypeOK
  <1>8. ASSUME NEW w \in Worker, NEW e \in EntriesAt(w)
        PROVE  e \in Entry /\ TaskOf(e) \in Pending
    <2>1. CASE e \in RunningAt(w)
      BY <1>3, <1>7, <2>1, Elements DEF RunningAt
    <2>2. CASE e \notin RunningAt(w)
      <3>1. PICK m \in ToSet(taskQueue[w]) : e \in ToSet(m.entries)
        BY <2>2 DEF EntriesAt
      <3>2. PICK i \in DOMAIN taskQueue[w] : taskQueue[w][i] = m
        BY <3>1, <1>7, Elements
      <3>3. m \in TaskMessage /\ m.entries \in Seq(Entry)
        <4>1. m \in TaskMessage
          BY <1>7, <3>2, Elements
        <4> QED
          BY <4>1 DEF TaskMessage
      <3>4. PICK j \in DOMAIN m.entries : m.entries[j] = e
        BY <3>1, <3>3, Elements
      <3> QED
        BY <1>2, <3>2, <3>3, <3>4, Elements
    <2> QED
      BY <2>1, <2>2
  <1>9. ASSUME NEW res \in ToSet(results.rest)
        PROVE  res \in Response /\ TaskOf(res) \in Pending
    <2>1. results.rest \in Seq(Response)
      BY DEF TypeOK, CoordinatorTypeOK, ResultsTypeOK
    <2> QED
      BY <1>4, <2>1, Elements
  <1>10. ASSUME NEW w \in Worker, NEW i \in DOMAIN resultQueue[w],
                resultQueue[w][i].type = "task_complete",
                NEW res \in ToSet(resultQueue[w][i].data)
         PROVE  res \in Response /\ TaskOf(res) \in Pending
    <2>1. resultQueue[w][i].data \in Seq(Response)
      BY <1>7, <1>10, Elements, ResultMessageFields
    <2> QED
      BY <1>5, <1>10, <2>1, Elements
  <1>11. ASSUME NEW i \in DOMAIN ready, ready[i].cb = "dispatch",
                NEW x \in ToSet(ready[i].group)
         PROVE  x \in Pending
    BY <1>6, <1>11 DEF ToSet
  <1> QED
    BY <1>8, <1>9, <1>10, <1>11 DEF TasksPending

LEMMA TasksArePendingNext == (TypeOK /\ InPlace => TasksPending)'
  <1>1. TypeOK /\ InPlace => TasksPending
    BY TasksArePending
  <1> QED
    BY <1>1, PTL

Accepts == \E requests \in SUBSET Request, due \in DueTimers : LoopIteration(requests, due)

\* The steps that change a variable, for the variables below.
Footprint ==
    /\ \/ UNCHANGED <<phase, scheduledNodes, completedNodes>>
       \/ Accepts \/ StartRequest \/ FinishRequest \/ GatherTask
    /\ \/ UNCHANGED tensorMap
       \/ FinishRequest \/ GatherTask \/ \E w \in Worker : GatherTensorBatch(w)
    /\ \/ UNCHANGED <<results, resultQueue>>
       \/ GatherTask
       \/ \E w \in Worker : \/ GatherTensorBatch(w) \/ GatherTaskComplete(w)
                            \/ YieldOutput(w) \/ CompleteGroup(w)
    /\ \/ UNCHANGED taskQueue
       \/ ScheduleTaskGroup \/ \E w \in Worker : StartGroup(w)
    /\ \/ UNCHANGED <<current, store>>
       \/ \E w \in Worker : \/ StartGroup(w) \/ AcquireLazy(w)
                            \/ YieldOutput(w) \/ CompleteGroup(w)
    /\ UNCHANGED received \/ \E w \in Worker : FetchLazy(w) \/ AcquireLazy(w)
    /\ \/ UNCHANGED lazyQueue
       \/ NotifyLazyInputAvailable \/ \E w \in Worker : FetchLazy(w)
    /\ \/ UNCHANGED ready \/ (RunCallback /\ Ran(<<>>))
       \/ Accepts \/ AssignGroup \/ GatherTask \/ \E w \in Worker : GatherTensorBatch(w)
    /\ UNCHANGED refCount \/ StartRequest \/ FinishRequest \/ UpdateFreeTensorDict
    /\ \/ UNCHANGED lazyDependents
       \/ ScheduleTaskGroup \/ NotifyLazyInputAvailable \/ FinishRequest

LEMMA Footprints ==
    ASSUME [Next]_vars
    PROVE  Footprint
  <1> USE DEF loopVars, scheduleVars, requestVars, tensorVars, channelVars
  <1>1. CASE UNCHANGED vars
    BY <1>1 DEF Footprint, vars, coordinatorVars, workerVars
  <1>2. ASSUME CoordinatorNext, UNCHANGED workerVars
        PROVE  Footprint
    <2>1. UNCHANGED <<current, store, received>>
      BY <1>2 DEF workerVars
    <2>2. ASSUME NEW requests \in SUBSET Request, NEW due \in DueTimers,
                 LoopIteration(requests, due)
          PROVE  Footprint
      <3>1. /\ Accepts
            /\ UNCHANGED <<results, resultQueue, tensorMap, taskQueue, lazyQueue, refCount,
                           lazyDependents>>
        BY <2>2 DEF Accepts, LoopIteration
      <3> QED
        BY <2>1, <3>1 DEF Footprint
    <2>3. CASE StartRequest
      BY <2>1, <2>3 DEF Footprint, RunCallback, StartRequest
    <2>4. CASE FinishRequest
      BY <2>1, <2>4 DEF Footprint, RunCallback, FinishRequest
    <2>5. CASE PutTask
      BY <2>1, <2>5 DEF Footprint, RunCallback, PutTask
    <2>6. CASE ScheduleTaskGroup
      BY <2>1, <2>6 DEF Footprint, RunCallback, ScheduleTaskGroup
    <2>7. CASE NotifyLazyInputAvailable
      BY <2>1, <2>7 DEF Footprint, RunCallback, NotifyLazyInputAvailable
    <2>8. CASE UpdateFreeTensorDict
      BY <2>1, <2>8 DEF Footprint, RunCallback, UpdateFreeTensorDict
    <2>9. CASE SchedulerWake \/ GatherWake
      BY <2>1, <2>9 DEF Footprint, RunCallback, SchedulerWake, GatherWake
    <2>10. CASE PickFirstTask \/ JoinGroup
      BY <2>1, <2>10 DEF Footprint, PickFirstTask, JoinGroup
    <2>11. CASE AssignGroup
      BY <2>1, <2>11 DEF Footprint, AssignGroup
    <2>12. CASE SchedulerSleep \/ GatherSleep
      BY <2>1, <2>12 DEF Footprint, SchedulerSleep, GatherSleep
    <2>13. ASSUME NEW w \in Worker, GatherTensorBatch(w)
           PROVE  Footprint
      BY <2>1, <2>13 DEF Footprint, GatherTensorBatch
    <2>14. ASSUME NEW w \in Worker, GatherTaskComplete(w)
           PROVE  Footprint
      BY <2>1, <2>14 DEF Footprint, GatherTaskComplete
    <2>15. CASE GatherTask
      BY <2>1, <2>15 DEF Footprint, GatherTask
    <2> QED
      BY <1>2, <2>2, <2>3, <2>4, <2>5, <2>6, <2>7, <2>8, <2>9, <2>10, <2>11, <2>12, <2>13,
         <2>14, <2>15 DEF CoordinatorNext, RunCallback, SchedulerStep
  <1>3. ASSUME NEW w \in Worker,
               \/ StartGroup(w) \/ FetchLazy(w) \/ AcquireLazy(w)
               \/ YieldOutput(w) \/ CompleteGroup(w)
        PROVE  Footprint
    <2>1. UNCHANGED <<phase, scheduledNodes, completedNodes, tensorMap, ready, refCount, results,
                      lazyDependents>>
      BY <1>3 DEF StartGroup, FetchLazy, AcquireLazy, YieldOutput, CompleteGroup,
                  coordinatorSide
    <2>2. CASE StartGroup(w)
      BY <2>1, <2>2 DEF Footprint, StartGroup
    <2>3. CASE FetchLazy(w)
      BY <2>1, <2>3 DEF Footprint, FetchLazy
    <2>4. CASE AcquireLazy(w)
      BY <2>1, <2>4 DEF Footprint, AcquireLazy
    <2>5. CASE YieldOutput(w)
      BY <2>1, <2>5 DEF Footprint, YieldOutput
    <2>6. CASE CompleteGroup(w)
      BY <2>1, <2>6 DEF Footprint, CompleteGroup
    <2> QED
      BY <1>3, <2>2, <2>3, <2>4, <2>5, <2>6
  <1> QED
    BY <1>1, <1>2, <1>3 DEF Next, WorkerNext

-----------------------------------------------------------------------------
(* A request that was started stays so, and its tensors stay known while   *)
(* it is live                                                              *)

\* The request a start begins, and the one a wake ends.
LEMMA StartedRequest ==
    ASSUME TypeOK, CallsOnce, StartRequest
    PROVE  LET r == Head(ready).req
           IN  /\ r \in Request /\ phase[r] = "starting" /\ phase'[r] = "live"
               /\ scheduledNodes'[r] = Roots /\ completedNodes' = completedNodes
               /\ \A q \in Request \ {r} : /\ phase'[q] = phase[q]
                                           /\ scheduledNodes'[q] = scheduledNodes[q]
  <1> DEFINE r == Head(ready).req
  <1>1. r \in Request /\ phase[r] = "starting"
    BY HeadTimely DEF StartRequest
  <1>2. /\ phase' = [phase EXCEPT ![r] = "live"]
        /\ scheduledNodes' = [scheduledNodes EXCEPT ![r] = Roots]
        /\ completedNodes' = completedNodes
    BY DEF StartRequest
  <1> HIDE DEF r
  <1> QED
    BY <1>1, <1>2 DEF TypeOK, CoordinatorTypeOK, RequestTypeOK, r

LEMMA FinishedRequest ==
    ASSUME TypeOK, CallsOnce, FinishRequest
    PROVE  LET r == Head(ready).req
           IN  /\ r \in Request /\ phase[r] = "live" /\ phase'[r] = "done"
               /\ completedNodes[r] = Node /\ completedNodes'[r] = {}
               /\ tensorMap'[r] = NoTensors
               /\ \A q \in Request \ {r} : /\ phase'[q] = phase[q]
                                           /\ scheduledNodes'[q] = scheduledNodes[q]
                                           /\ completedNodes'[q] = completedNodes[q]
                                           /\ tensorMap'[q] = tensorMap[q]
  <1> DEFINE r == Head(ready).req
  <1>1. r \in Request /\ phase[r] = "live" /\ completedNodes[r] = Node
    BY HeadTimely DEF FinishRequest
  <1>2. /\ phase' = [phase EXCEPT ![r] = "done"]
        /\ scheduledNodes' = [scheduledNodes EXCEPT ![r] = {}]
        /\ completedNodes' = [completedNodes EXCEPT ![r] = {}]
        /\ tensorMap' = [tensorMap EXCEPT ![r] = NoTensors]
    BY DEF FinishRequest
  <1> HIDE DEF r
  <1> QED
    BY <1>1, <1>2 DEF TypeOK, CoordinatorTypeOK, RequestTypeOK, TensorTypeOK, r

\* The result that is handled.
LEMMA HandledResult ==
    ASSUME TypeOK, InPlace, GatherTask
    PROVE  LET res == Head(results.rest)
               r == res.req
               n == res.node
           IN  /\ res \in Response /\ res \in ToSet(results.rest)
               /\ r \in Request /\ n \in Node /\ TaskOf(res) \in Pending
               /\ phase[r] = "live" /\ n \in scheduledNodes[r] /\ n \notin completedNodes[r]
               /\ phase' = phase
               /\ completedNodes'[r] = completedNodes[r] \cup {n}
               /\ scheduledNodes'[r] = scheduledNodes[r] \cup NewlyReady(r, n)
               /\ \A t \in Tensor : tensorMap'[r][t] =
                    IF t \in res.tensors THEN tensorMap[r][t] \cup {results.from}
                                         ELSE tensorMap[r][t]
               /\ \A q \in Request \ {r} : /\ scheduledNodes'[q] = scheduledNodes[q]
                                           /\ completedNodes'[q] = completedNodes[q]
                                           /\ tensorMap'[q] = tensorMap[q]
               /\ results.from \in Worker /\ results' = [results EXCEPT !.rest = Tail(@)]
               /\ resultQueue' = resultQueue /\ results.rest \in Seq(Response)
               /\ results.rest # <<>>
  <1> DEFINE res == Head(results.rest)
             r == res.req
             n == res.node
  <1>1. /\ results.rest # <<>> /\ results.rest \in Seq(Response) /\ results.from \in Worker
    BY DEF GatherTask, TypeOK, CoordinatorTypeOK, ResultsTypeOK
  <1>2. res \in Response /\ TaskOf(res) \in Pending /\ res \in ToSet(results.rest)
    BY <1>1, NextResult, Elements
  <1>3. r \in Request /\ n \in Node /\ phase[r] = "live" /\ n \in scheduledNodes[r]
        /\ n \notin completedNodes[r]
    BY <1>2 DEF Response, Pending, TaskOf
  <1>4. /\ tensorMap' = [tensorMap EXCEPT ![r] =
             [t \in Tensor |-> IF t \in res.tensors THEN @[t] \cup {results.from} ELSE @[t]]]
        /\ completedNodes' = [completedNodes EXCEPT ![r] = @ \cup {n}]
        /\ scheduledNodes' = [scheduledNodes EXCEPT ![r] = @ \cup NewlyReady(r, n)]
        /\ phase' = phase /\ results' = [results EXCEPT !.rest = Tail(@)]
        /\ resultQueue' = resultQueue
    BY DEF GatherTask, channelVars
  <1> HIDE DEF r, n, res
  <1>5. /\ completedNodes'[r] = completedNodes[r] \cup {n}
        /\ scheduledNodes'[r] = scheduledNodes[r] \cup NewlyReady(r, n)
        /\ \A q \in Request \ {r} : /\ scheduledNodes'[q] = scheduledNodes[q]
                                    /\ completedNodes'[q] = completedNodes[q]
    BY <1>3, <1>4 DEF TypeOK, CoordinatorTypeOK, RequestTypeOK
  <1>6. /\ tensorMap'[r] =
             [t \in Tensor |-> IF t \in res.tensors THEN tensorMap[r][t] \cup {results.from}
                                                    ELSE tensorMap[r][t]]
        /\ \A q \in Request \ {r} : tensorMap'[q] = tensorMap[q]
    BY <1>3, <1>4 DEF TypeOK, CoordinatorTypeOK, TensorTypeOK
  <1>7. \A t \in Tensor : tensorMap'[r][t] =
           IF t \in res.tensors THEN tensorMap[r][t] \cup {results.from} ELSE tensorMap[r][t]
    BY <1>6
  <1> QED
    BY <1>1, <1>2, <1>3, <1>4, <1>5, <1>6, <1>7 DEF r, n, res

\* The early outputs that are taken in.
LEMMA TakenBatch ==
    ASSUME TypeOK, NEW w \in Worker, GatherTensorBatch(w)
    PROVE  LET m == Head(resultQueue[w])
           IN  /\ Gathers(w, "tensor_batch_ready") /\ resultQueue[w] \in Seq(ResultMessage)
               /\ resultQueue[w] # <<>> /\ results.rest = <<>>
               /\ m \in ResultMessage /\ m.type = "tensor_batch_ready"
               /\ m.buffers \subseteq Buffer
               /\ \A r \in Request, t \in Tensor : tensorMap'[r][t] =
                    IF [req |-> r, tensor |-> t] \in m.buffers
                    THEN tensorMap[r][t] \cup {w} ELSE tensorMap[r][t]
               /\ resultQueue' = [resultQueue EXCEPT ![w] = Tail(@)] /\ results' = results
  <1> DEFINE buffers == Head(resultQueue[w]).buffers
             Names(r) == { b.tensor : b \in { c \in buffers : c.req = r } }
  <1>1. Gathers(w, "tensor_batch_ready") /\ results' = results
    BY DEF GatherTensorBatch
  <1>2. /\ resultQueue[w] \in Seq(ResultMessage) /\ resultQueue[w] # <<>>
        /\ Head(resultQueue[w]) \in ResultMessage
        /\ Head(resultQueue[w]).type = "tensor_batch_ready"
        /\ results.rest = <<>> /\ resultQueue' = [resultQueue EXCEPT ![w] = Tail(@)]
    <2>1. Head(resultQueue[w]) \in ResultMessage
      BY <1>1, GathersType
    <2>2. resultQueue[w] \in Seq(ResultMessage)
      BY DEF TypeOK, CoordinatorTypeOK, ChannelTypeOK
    <2> QED
      BY <1>1, <2>1, <2>2 DEF Gathers
  <1>3. buffers \subseteq Buffer
    BY <1>2, ResultMessageFields
  <1>4. tensorMap' = [r \in Request |-> [t \in Tensor |->
            IF t \in Names(r) THEN tensorMap[r][t] \cup {w} ELSE tensorMap[r][t]]]
    BY DEF GatherTensorBatch
  <1>5. \A r \in Request, t \in Tensor : t \in Names(r) <=> [req |-> r, tensor |-> t] \in buffers
    BY <1>3 DEF Buffer
  <1> HIDE DEF buffers, Names
  <1>6. \A r \in Request, t \in Tensor : tensorMap'[r][t] =
           IF [req |-> r, tensor |-> t] \in buffers THEN tensorMap[r][t] \cup {w}
                                                    ELSE tensorMap[r][t]
    BY <1>4, <1>5
  <1> QED
    BY <1>1, <1>2, <1>3, <1>6 DEF buffers

\* The same of one tensor.
LEMMA TakenFromBatch ==
    ASSUME TypeOK, NEW w \in Worker, GatherTensorBatch(w), NEW r \in Request, NEW t \in Tensor
    PROVE  /\ resultQueue[w] \in Seq(ResultMessage) /\ resultQueue[w] # <<>>
           /\ Head(resultQueue[w]).type = "tensor_batch_ready"
           /\ tensorMap'[r][t] =
                IF [req |-> r, tensor |-> t] \in Head(resultQueue[w]).buffers
                THEN tensorMap[r][t] \cup {w} ELSE tensorMap[r][t]
  BY TakenBatch, ZenonT(60)

Kept ==
    \A r \in Request : Started(r) =>
        /\ Started(r)'
        /\ phase'[r] = "live" =>
             /\ phase[r] = "live"
             /\ \A t \in Tensor : Available(r, t) => Available(r, t)'

LEMMA StepKeeps ==
    ASSUME TypeOK, CallsOnce, InPlace, [Next]_vars
    PROVE  Kept
  <1>1. Footprint
    BY Footprints
  <1>2. ASSUME NEW r \in Request, Started(r)
        PROVE  Started(r)' /\ (phase'[r] = "live" => phase[r] = "live")
    <2>1. CASE Accepts
      <3>1. PICK requests \in SUBSET Request : /\ \A q \in requests : phase[q] = "new"
               /\ phase' = [q \in Request |-> IF q \in requests THEN "starting" ELSE phase[q]]
        BY <2>1 DEF Accepts, LoopIteration
      <3> QED
        BY <1>2, <3>1 DEF Started
    <2>2. CASE StartRequest
      BY <1>2, <2>2, StartedRequest DEF Started
    <2>3. CASE FinishRequest
      BY <1>2, <2>3, FinishedRequest DEF Started
    <2>4. CASE GatherTask \/ UNCHANGED phase
      BY <1>2, <2>4 DEF Started, GatherTask
    <2> QED
      BY <1>1, <2>1, <2>2, <2>3, <2>4 DEF Footprint
  <1>3. ASSUME NEW r \in Request, phase'[r] = "live", phase[r] = "live", NEW t \in Tensor,
               Available(r, t)
        PROVE  Available(r, t)'
    <2>1. CASE UNCHANGED tensorMap
      BY <1>3, <2>1 DEF Available
    <2>2. CASE FinishRequest
      BY <1>3, <2>2, FinishedRequest DEF Available
    <2>3. CASE GatherTask
      BY <1>3, <2>3, HandledResult DEF Available
    <2>4. ASSUME NEW w \in Worker, GatherTensorBatch(w)
          PROVE  Available(r, t)'
      <3> DEFINE buffers == Head(resultQueue[w]).buffers
      <3>1. tensorMap'[r][t] = IF [req |-> r, tensor |-> t] \in buffers
                               THEN tensorMap[r][t] \cup {w} ELSE tensorMap[r][t]
        BY <2>4, TakenBatch, ZenonT(60)
      <3> QED
        BY <1>3, <3>1 DEF Available
    <2> QED
      BY <1>1, <2>1, <2>2, <2>3, <2>4 DEF Footprint
  <1> QED
    BY <1>2, <1>3 DEF Kept

LEMMA SoundKept ==
    ASSUME Kept, NEW b \in Buffer, Sound(b)
    PROVE  Sound(b)'
  BY DEF Kept, Sound, Known, Buffer

LEMMA EntryKept ==
    ASSUME Kept, NEW e \in Entry, Started(e.req), phase'[e.req] = "live", EntryOK(e)
    PROVE  EntryOK(e)'
  BY DEF Kept, EntryOK, Entry

\* A pending task's request is live.
LEMMA PendingLive ==
    ASSUME NEW e, e \in Entry \cup Response, TaskOf(e) \in Pending
    PROVE  /\ e.req \in Request /\ e.node \in Node /\ phase[e.req] = "live" /\ Started(e.req)
           /\ e.node \in scheduledNodes[e.req] /\ e.node \notin completedNodes[e.req]
  BY DEF TaskOf, Pending, Task, Started

LEMMA PendingLiveNext ==
    \A e \in Entry \cup Response : TaskOf(e) \in Pending' => phase'[e.req] = "live"
  BY DEF TaskOf, Pending, Task

-----------------------------------------------------------------------------
(* What the steps of a worker do to its group, its tensors and its results *)

LEMMA GroupStarts ==
    ASSUME TypeOK, NEW w \in Worker, StartGroup(w)
    PROVE  LET m == Head(taskQueue[w])
           IN  /\ taskQueue[w] \in Seq(TaskMessage) /\ taskQueue[w] # <<>>
               /\ m \in TaskMessage /\ m.entries \in Seq(Entry) /\ m.free \subseteq Buffer
               /\ taskQueue' = [taskQueue EXCEPT ![w] = Tail(@)]
               /\ taskQueue'[w] = Tail(taskQueue[w])
               /\ \A v \in Worker \ {w} : /\ taskQueue'[v] = taskQueue[v]
                                          /\ current'[v] = current[v]
                                          /\ store'[v] = store[v]
               /\ current[w].entries = <<>> /\ current'[w].entries = m.entries
               /\ \A b : b \in current'[w].lazy <=>
                    \E e \in ToSet(m.entries) : \E t \in e.lazy : b = Named(e, t)
               /\ \A b : b \in current'[w].yields <=>
                    \E e \in ToSet(m.entries) : /\ e.node \in Generator
                                                /\ \E t \in Outputs(e.node) : b = Named(e, t)
               /\ \A b : b \in store'[w] <=>
                    \/ b \in store[w] /\ b \notin m.free
                    \/ \E e \in ToSet(m.entries) : \E t \in Remote(e, w) : b = Named(e, t)
               /\ UNCHANGED <<coordinatorSide, lazyQueue, resultQueue, received>>
  <1> DEFINE m == Head(taskQueue[w])
             entries == m.entries
             lazy == OverEntries(entries, LAMBDA e : BuffersOf(e, e.lazy))
             yields == OverEntries(entries, LAMBDA e :
                         IF e.node \in Generator THEN BuffersOf(e, Outputs(e.node)) ELSE {})
             fetched == OverEntries(entries, LAMBDA e : BuffersOf(e, Remote(e, w)))
  <1>1. /\ taskQueue[w] # <<>> /\ current[w].entries = <<>>
        /\ taskQueue' = [taskQueue EXCEPT ![w] = Tail(@)]
        /\ current' = [current EXCEPT ![w] =
             [entries |-> entries, lazy |-> lazy, yields |-> yields]]
        /\ store' = [store EXCEPT ![w] = StoreAfterFree(w, m.free \cap store[w]) \cup fetched]
        /\ UNCHANGED <<coordinatorSide, lazyQueue, resultQueue, received>>
    BY DEF StartGroup
  <1>2. \A b : b \in lazy <=> \E e \in ToSet(entries) : \E t \in e.lazy : b = Named(e, t)
    BY DEF OverEntries, BuffersOf, ToSet, Named
  <1>3. \A b : b \in yields <=>
          \E e \in ToSet(entries) : /\ e.node \in Generator
                                    /\ \E t \in Outputs(e.node) : b = Named(e, t)
    BY DEF OverEntries, BuffersOf, ToSet, Named
  <1>4. \A b : b \in fetched <=>
          \E e \in ToSet(entries) : \E t \in Remote(e, w) : b = Named(e, t)
    BY DEF OverEntries, BuffersOf, ToSet, Named
  <1> HIDE DEF lazy, yields, fetched, m, entries
  <1>5. /\ taskQueue \in [Worker -> Seq(TaskMessage)] /\ store \in [Worker -> SUBSET Buffer]
        /\ DOMAIN current = Worker
    BY DEF TypeOK, CoordinatorTypeOK, ChannelTypeOK, WorkerTypeOK
  <1>6. m \in TaskMessage /\ m.entries \in Seq(Entry) /\ m.free \subseteq Buffer
    <2>1. taskQueue[w] \in Seq(TaskMessage) /\ m = Head(taskQueue[w])
      BY <1>5 DEF m
    <2>2. m \in TaskMessage
      BY <1>1, <2>1, HeadTailProperties
    <2> QED
      BY <2>2 DEF TaskMessage
  <1>7. /\ current'[w].entries = entries /\ current'[w].lazy = lazy
        /\ current'[w].yields = yields
        /\ \A v \in Worker \ {w} : /\ taskQueue'[v] = taskQueue[v]
                                   /\ current'[v] = current[v] /\ store'[v] = store[v]
        /\ taskQueue'[w] = Tail(taskQueue[w])
    BY <1>1, <1>5
  <1>8. \A b : b \in store'[w] <=> (b \in store[w] /\ b \notin m.free) \/ b \in fetched
    BY <1>1, <1>5 DEF StoreAfterFree
  <1>9. \A b : b \in store'[w] <=>
          \/ b \in store[w] /\ b \notin m.free
          \/ \E e \in ToSet(entries) : \E t \in Remote(e, w) : b = Named(e, t)
    BY <1>4, <1>8
  <1>10. /\ \A b : b \in current'[w].lazy <=>
              \E e \in ToSet(entries) : \E t \in e.lazy : b = Named(e, t)
         /\ \A b : b \in current'[w].yields <=>
              \E e \in ToSet(entries) : /\ e.node \in Generator
                                        /\ \E t \in Outputs(e.node) : b = Named(e, t)
    BY <1>2, <1>3, <1>7
  <1>11. taskQueue[w] \in Seq(TaskMessage)
    BY <1>5
  <1> QED
    BY <1>1, <1>6, <1>7, <1>9, <1>10, <1>11 DEF m, entries

LEMMA LazyAcquired ==
    ASSUME TypeOK, NEW w \in Worker, AcquireLazy(w)
    PROVE  \E b \in current[w].lazy :
             /\ b \in Buffer /\ (b \in store[w] \/ b \in received[w])
             /\ current'[w].entries = current[w].entries
             /\ current'[w].yields = current[w].yields
             /\ current'[w].lazy = current[w].lazy \ {b}
             /\ received'[w] \subseteq received[w] /\ received[w] \subseteq received'[w] \cup {b}
             /\ store'[w] = store[w] \cup {b}
             /\ \A v \in Worker \ {w} : /\ current'[v] = current[v]
                                        /\ received'[v] = received[v]
                                        /\ store'[v] = store[v]
             /\ UNCHANGED <<coordinatorSide, channelVars>>
  <1>1. PICK b \in current[w].lazy :
          /\ b \in store[w] \/ b \in received[w]
          /\ current' = [current EXCEPT ![w].lazy = @ \ {b}]
          /\ received' = IF b \in store[w] THEN received
                         ELSE [received EXCEPT ![w] = @ \ {b}]
          /\ store' = [store EXCEPT ![w] = @ \cup {b}]
          /\ UNCHANGED <<coordinatorSide, channelVars>>
    BY DEF AcquireLazy
  <1>2. /\ current \in [Worker -> [entries : Seq(Entry), lazy : SUBSET Buffer,
                                   yields : SUBSET Buffer]]
        /\ store \in [Worker -> SUBSET Buffer] /\ received \in [Worker -> SUBSET Buffer]
    BY DEF TypeOK, WorkerTypeOK
  <1>3. b \in Buffer
    BY <1>1, <1>2
  <1>4. /\ received'[w] \subseteq received[w] /\ received[w] \subseteq received'[w] \cup {b}
        /\ \A v \in Worker \ {w} : received'[v] = received[v]
    BY <1>1, <1>2
  <1>5. /\ store'[w] = store[w] \cup {b} /\ \A v \in Worker \ {w} : store'[v] = store[v]
        /\ \A v \in Worker \ {w} : current'[v] = current[v]
    BY <1>1, <1>2
  <1>6. /\ current'[w].entries = current[w].entries /\ current'[w].yields = current[w].yields
        /\ current'[w].lazy = current[w].lazy \ {b}
    BY <1>1, <1>2
  <1> QED
    BY <1>1, <1>3, <1>4, <1>5, <1>6

LEMMA OutputYielded ==
    ASSUME TypeOK, NEW w \in Worker, YieldOutput(w)
    PROVE  \E buffers \in SUBSET current[w].yields :
             /\ current'[w].entries = current[w].entries
             /\ current'[w].lazy = current[w].lazy
             /\ current'[w].yields = current[w].yields \ buffers
             /\ store'[w] = store[w] \cup buffers
             /\ \A v \in Worker \ {w} : current'[v] = current[v] /\ store'[v] = store[v]
             /\ resultQueue' = [resultQueue EXCEPT ![w] = Append(@,
                  [type |-> "tensor_batch_ready", buffers |-> buffers])]
             /\ UNCHANGED <<coordinatorSide, taskQueue, lazyQueue, received>>
  <1>1. PICK buffers \in SUBSET current[w].yields :
          /\ current' = [current EXCEPT ![w].yields = @ \ buffers]
          /\ store' = [store EXCEPT ![w] = @ \cup buffers]
          /\ resultQueue' = [resultQueue EXCEPT ![w] = Append(@,
               [type |-> "tensor_batch_ready", buffers |-> buffers])]
          /\ UNCHANGED <<coordinatorSide, taskQueue, lazyQueue, received>>
    BY DEF YieldOutput
  <1>2. /\ current \in [Worker -> [entries : Seq(Entry), lazy : SUBSET Buffer,
                                   yields : SUBSET Buffer]]
        /\ store \in [Worker -> SUBSET Buffer]
    BY DEF TypeOK, WorkerTypeOK
  <1>3. /\ store'[w] = store[w] \cup buffers
        /\ \A v \in Worker \ {w} : current'[v] = current[v] /\ store'[v] = store[v]
    BY <1>1, <1>2
  <1>4. /\ current'[w].entries = current[w].entries /\ current'[w].lazy = current[w].lazy
        /\ current'[w].yields = current[w].yields \ buffers
    BY <1>1, <1>2
  <1> QED
    BY <1>1, <1>3, <1>4

\* The message that reports the group of w.
Completion(w) ==
    [type |-> "task_complete",
     data |-> [i \in DOMAIN current[w].entries |->
                 [req |-> current[w].entries[i].req, node |-> current[w].entries[i].node,
                  tensors |-> Reported(current[w].entries[i], w)]]]

LEMMA GroupCompletes ==
    ASSUME TypeOK, NEW w \in Worker, CompleteGroup(w)
    PROVE  /\ current[w].entries # <<>> /\ current[w].lazy = {} /\ current[w].yields = {}
           /\ current'[w] = Idle /\ \A v \in Worker \ {w} : current'[v] = current[v]
           /\ \A b : b \in store'[w] <=>
                \/ b \in store[w]
                \/ \E e \in RunningAt(w) : \E t \in LateOutputs(e) : b = Named(e, t)
           /\ \A v \in Worker \ {w} : store'[v] = store[v]
           /\ resultQueue' = [resultQueue EXCEPT ![w] = Append(@, Completion(w))]
           /\ UNCHANGED <<coordinatorSide, taskQueue, lazyQueue, received>>
  <1> DEFINE new == OverEntries(current[w].entries, LAMBDA e : BuffersOf(e, LateOutputs(e)))
  <1>1. /\ current[w].entries # <<>> /\ current[w].lazy = {} /\ current[w].yields = {}
        /\ current' = [current EXCEPT ![w] = Idle]
        /\ store' = [store EXCEPT ![w] = @ \cup new]
        /\ resultQueue' = [resultQueue EXCEPT ![w] = Append(@, Completion(w))]
        /\ UNCHANGED <<coordinatorSide, taskQueue, lazyQueue, received>>
    BY DEF CompleteGroup, Completion
  <1>2. \A b : b \in new <=> \E e \in RunningAt(w) : \E t \in LateOutputs(e) : b = Named(e, t)
    BY DEF OverEntries, BuffersOf, ToSet, Named, RunningAt
  <1> HIDE DEF new
  <1>3. DOMAIN current = Worker /\ DOMAIN store = Worker
    BY DEF TypeOK, WorkerTypeOK
  <1>4. /\ current'[w] = Idle /\ store'[w] = store[w] \cup new
        /\ \A v \in Worker \ {w} : current'[v] = current[v] /\ store'[v] = store[v]
    BY <1>1, <1>3
  <1> QED
    BY <1>1, <1>2, <1>4

-----------------------------------------------------------------------------
(* The entries a worker has *)

\* The message a dispatch sends.
Dispatched ==
    [entries |-> [i \in DOMAIN Head(ready).group |-> EntryFor(Head(ready).group[i])],
     free |-> freeDict[Head(ready).dst]]

LEMMA QueueChanges ==
    ASSUME TypeOK, [Next]_vars, NEW w \in Worker
    PROVE  \/ taskQueue'[w] = taskQueue[w]
           \/ /\ ScheduleTaskGroup /\ w = Head(ready).dst
              /\ taskQueue'[w] = Append(taskQueue[w], Dispatched)
           \/ /\ StartGroup(w) /\ taskQueue[w] # <<>>
              /\ taskQueue'[w] = Tail(taskQueue[w])
  <1>1. Footprint /\ taskQueue \in [Worker -> Seq(TaskMessage)]
    BY Footprints DEF TypeOK, CoordinatorTypeOK, ChannelTypeOK
  <1>2. CASE ScheduleTaskGroup
    <2>1. taskQueue' = [taskQueue EXCEPT ![Head(ready).dst] = Append(@, Dispatched)]
      BY <1>2 DEF ScheduleTaskGroup, Dispatched
    <2> QED
      BY <1>1, <1>2, <2>1
  <1>3. ASSUME NEW v \in Worker, StartGroup(v)
        PROVE  \/ taskQueue'[w] = taskQueue[w]
               \/ /\ StartGroup(w) /\ taskQueue[w] # <<>>
                  /\ taskQueue'[w] = Tail(taskQueue[w])
    <2>1. taskQueue[v] # <<>> /\ taskQueue' = [taskQueue EXCEPT ![v] = Tail(@)]
      BY <1>3, GroupStarts
    <2> QED
      BY <1>1, <1>3, <2>1
  <1> QED
    BY <1>1, <1>2, <1>3 DEF Footprint

LEMMA CurrentChanges ==
    ASSUME TypeOK, [Next]_vars, NEW w \in Worker
    PROVE  \/ current'[w] = current[w]
           \/ /\ StartGroup(w) /\ current[w].entries = <<>> /\ taskQueue[w] # <<>>
              /\ current'[w].entries = Head(taskQueue[w]).entries
           \/ (AcquireLazy(w) \/ YieldOutput(w)) /\ current'[w].entries = current[w].entries
           \/ CompleteGroup(w) /\ current'[w] = Idle
  <1>1. /\ Footprint
        /\ current \in [Worker -> [entries : Seq(Entry), lazy : SUBSET Buffer,
                                   yields : SUBSET Buffer]]
    BY Footprints DEF TypeOK, WorkerTypeOK
  <1>2. ASSUME NEW v \in Worker, StartGroup(v)
        PROVE  \/ current'[w] = current[w]
               \/ /\ StartGroup(w) /\ current[w].entries = <<>> /\ taskQueue[w] # <<>>
                  /\ current'[w].entries = Head(taskQueue[w]).entries
    BY <1>2, GroupStarts
  <1>3. ASSUME NEW v \in Worker, AcquireLazy(v) \/ YieldOutput(v)
        PROVE  \/ current'[w] = current[w]
               \/ (AcquireLazy(w) \/ YieldOutput(w)) /\ current'[w].entries = current[w].entries
    BY <1>3, LazyAcquired, OutputYielded
  <1>4. ASSUME NEW v \in Worker, CompleteGroup(v)
        PROVE  \/ current'[w] = current[w]
               \/ CompleteGroup(w) /\ current'[w] = Idle
    BY <1>4, GroupCompletes
  <1> QED
    BY <1>1, <1>2, <1>3, <1>4 DEF Footprint

LEMMA EntriesStay ==
    ASSUME TypeOK, [Next]_vars, NEW w \in Worker, NEW e \in EntriesAt(w)'
    PROVE  \/ e \in EntriesAt(w)
           \/ /\ ScheduleTaskGroup
              /\ \E x \in ToSet(Head(ready).group) : e = EntryFor(x)
  <1>1. taskQueue[w] \in Seq(TaskMessage)
    BY DEF TypeOK, CoordinatorTypeOK, ChannelTypeOK
  <1>2. CASE e \in ToSet(current'[w].entries)
    <2>1. CASE current'[w].entries = current[w].entries
      BY <1>2, <2>1 DEF EntriesAt, RunningAt
    <2>2. CASE taskQueue[w] # <<>> /\ current'[w].entries = Head(taskQueue[w]).entries
      <3>1. Head(taskQueue[w]) \in ToSet(taskQueue[w])
        BY <1>1, <2>2, Elements
      <3> QED
        BY <1>2, <2>2, <3>1 DEF EntriesAt
    <2>3. CASE current'[w] = Idle
      BY <1>2, <2>3 DEF ToSet, Idle
    <2> QED
      BY <2>1, <2>2, <2>3, CurrentChanges
  <1>3. CASE e \notin ToSet(current'[w].entries)
    <2>1. PICK m \in ToSet(taskQueue'[w]) : e \in ToSet(m.entries)
      BY <1>3 DEF EntriesAt, RunningAt
    <2>2. CASE m \in ToSet(taskQueue[w])
      BY <2>1, <2>2 DEF EntriesAt
    <2>3. CASE m \notin ToSet(taskQueue[w])
      <3>1. ScheduleTaskGroup /\ m = Dispatched
        <4>1. taskQueue[w] # <<>> => ToSet(Tail(taskQueue[w])) \subseteq ToSet(taskQueue[w])
          BY <1>1, Elements
        <4>2. ToSet(Append(taskQueue[w], Dispatched)) = ToSet(taskQueue[w]) \cup {Dispatched}
          BY <1>1, Elements
        <4> QED
          BY <2>1, <2>3, <4>1, <4>2, QueueChanges
      <3>2. PICK i \in DOMAIN Head(ready).group : e = EntryFor(Head(ready).group[i])
        BY <2>1, <3>1 DEF Dispatched, ToSet
      <3> QED
        BY <3>1, <3>2 DEF ToSet
    <2> QED
      BY <2>2, <2>3
  <1> QED
    BY <1>2, <1>3

\* The tasks of the group that is dispatched.
LEMMA DispatchedTasks ==
    ASSUME TypeOK, InPlace, ScheduleTaskGroup
    PROVE  /\ Head(ready).dst \in Worker /\ Head(ready).group \in Seq(Task)
           /\ \A x \in ToSet(Head(ready).group) : x \in Task /\ x \in Pending
  <1>1. ready # <<>> /\ Head(ready) \in Callback /\ Head(ready).cb = "dispatch"
    BY HeadRuns DEF ScheduleTaskGroup
  <1>2. Head(ready) = ready[1] /\ 1 \in DOMAIN ready
    <2>1. ready \in Seq(Callback)
      BY DEF TypeOK, CoordinatorTypeOK, LoopTypeOK
    <2> QED
      BY <1>1, <2>1, HeadTailProperties, LenProperties, EmptySeq
  <1> QED
    BY <1>1, <1>2, CallbackFields, TasksArePending, Elements DEF TasksPending

\* What is sent of a task covers its inputs.
LEMMA EntrySound ==
    ASSUME TypeOK, NodesFed, NEW x \in Pending
    PROVE  EntryOK(EntryFor(x))
  <1> DEFINE e == EntryFor(x)
             r == x.req
             n == x.node
  <1>1. /\ x \in Task /\ r \in Request /\ n \in Node /\ phase[r] = "live"
        /\ n \in scheduledNodes[r]
    BY DEF Pending, Task
  <1>2. \A t \in EagerInputs(n) : t \in Tensor /\ Available(r, t)
    <2> SUFFICES ASSUME NEW t \in EagerInputs(n) PROVE t \in Tensor /\ Available(r, t)
      OBVIOUS
    <2>1. t \in Tensor /\ Producer[t] \in Node
      BY <1>1, WorkflowAssumption DEF EagerInputs
    <2>2. Producer[t] \in completedNodes[r]
      BY <1>1, EagerInputsAwaited DEF NodesFed
    <2>3. t \in Outputs(Producer[t])
      BY <2>1 DEF Outputs
    <2> QED
      BY <1>1, <2>1, <2>2, <2>3 DEF NodesFed
  <1>3. \A t \in LazyAvailable(x) : t \in Tensor /\ Available(r, t)
    BY <1>1, WorkflowAssumption DEF LazyAvailable
  <1>4. /\ e.req = r /\ e.node = n
        /\ \A t \in Tensor : e.at[t] =
             IF t \in EagerInputs(n) \cup LazyAvailable(x) THEN tensorMap[r][t] ELSE {}
        /\ e.lazy = LazyInputs[n] \ LazyAvailable(x)
    BY DEF EntryFor, LazyMissing
  <1>5. \A t \in Tensor : e.at[t] # {} => Available(e.req, t)
    BY <1>4 DEF Available
  <1>6. ASSUME NEW t \in Inputs[n]
        PROVE  e.at[t] # {} \/ t \in e.lazy
    <2>1. t \in EagerInputs(n) \/ t \in LazyAvailable(x) \/ t \in e.lazy
      BY <1>4, <1>6 DEF EagerInputs
    <2> QED
      BY <1>2, <1>3, <1>4, <2>1 DEF Available
  <1> HIDE DEF e
  <1> QED
    BY <1>4, <1>5, <1>6 DEF EntryOK, e

LEMMA StepEntries ==
    ASSUME FlowInv, TypeOK', InPlace', [Next]_vars
    PROVE  EntriesFed'
  <1>1. /\ TypeOK /\ CallsOnce /\ InPlace /\ NodesFed /\ EntriesFed /\ TasksPending
        /\ TasksPending'
    BY TasksArePending, TasksArePendingNext DEF FlowInv, TaskInv
  <1>2. Kept
    BY <1>1, StepKeeps
  <1>3. ASSUME NEW w \in Worker, NEW e \in EntriesAt(w)'
        PROVE  EntryOK(e)'
    <2>1. e \in Entry /\ phase'[e.req] = "live"
      BY <1>1, PendingLiveNext DEF TasksPending
    <2>2. Started(e.req) /\ EntryOK(e)
      <3>1. CASE e \in EntriesAt(w)
        BY <1>1, <3>1, PendingLive DEF TasksPending, EntriesFed
      <3>2. ASSUME NEW x \in ToSet(Head(ready).group), e = EntryFor(x), ScheduleTaskGroup
            PROVE  Started(e.req) /\ EntryOK(e)
        <4>1. x \in Task /\ x \in Pending
          BY <1>1, <3>2, DispatchedTasks
        <4>2. EntryOK(EntryFor(x))
          BY <1>1, <4>1, EntrySound
        <4>3. e.req = x.req
          BY <3>2 DEF EntryFor
        <4> QED
          BY <3>2, <4>1, <4>2, <4>3 DEF Pending, Started
      <3> QED
        BY <1>1, <3>1, <3>2, EntriesStay
    <2> QED
      BY <1>2, <2>1, <2>2, EntryKept
  <1> QED
    BY <1>3 DEF EntriesFed

-----------------------------------------------------------------------------
(* What was announced before a result stays so as the queues move          *)

\* A buffer of a request that was started and is still live after the step.
Still(b) == b \in Buffer /\ Started(b.req) /\ phase'[b.req] = "live"

LEMMA KnownKept ==
    ASSUME Kept, NEW b, Still(b), b \in Known
    PROVE  b \in Known'
  BY DEF Kept, Still, Known, Buffer

LEMMA ResultQueueChanges ==
    ASSUME TypeOK, [Next]_vars, NEW w \in Worker
    PROVE  \/ resultQueue'[w] = resultQueue[w]
           \/ /\ GatherTensorBatch(w) \/ GatherTaskComplete(w)
              /\ resultQueue[w] # <<>> /\ resultQueue'[w] = Tail(resultQueue[w])
              /\ results.rest = <<>>
           \/ \E buffers \in SUBSET current[w].yields :
                /\ YieldOutput(w) /\ current'[w].yields = current[w].yields \ buffers
                /\ store'[w] = store[w] \cup buffers
                /\ resultQueue'[w] = Append(resultQueue[w],
                     [type |-> "tensor_batch_ready", buffers |-> buffers])
           \/ CompleteGroup(w) /\ resultQueue'[w] = Append(resultQueue[w], Completion(w))
  <1>1. Footprint /\ resultQueue \in [Worker -> Seq(ResultMessage)]
    BY Footprints DEF TypeOK, CoordinatorTypeOK, ChannelTypeOK
  <1>2. CASE GatherTask
    BY <1>2 DEF GatherTask, channelVars
  <1>3. ASSUME NEW v \in Worker, GatherTensorBatch(v) \/ GatherTaskComplete(v)
        PROVE  \/ resultQueue'[w] = resultQueue[w]
               \/ /\ GatherTensorBatch(w) \/ GatherTaskComplete(w)
                  /\ resultQueue[w] # <<>> /\ resultQueue'[w] = Tail(resultQueue[w])
                  /\ results.rest = <<>>
    <2>1. /\ resultQueue[v] # <<>> /\ results.rest = <<>>
          /\ resultQueue' = [resultQueue EXCEPT ![v] = Tail(@)]
      BY <1>3 DEF GatherTensorBatch, GatherTaskComplete, Gathers
    <2> QED
      BY <1>1, <1>3, <2>1
  <1>4. ASSUME NEW v \in Worker, YieldOutput(v)
        PROVE  \/ resultQueue'[w] = resultQueue[w]
               \/ \E buffers \in SUBSET current[w].yields :
                    /\ YieldOutput(w) /\ current'[w].yields = current[w].yields \ buffers
                    /\ store'[w] = store[w] \cup buffers
                    /\ resultQueue'[w] = Append(resultQueue[w],
                         [type |-> "tensor_batch_ready", buffers |-> buffers])
    <2>1. PICK buffers \in SUBSET current[v].yields :
            /\ current'[v].yields = current[v].yields \ buffers
            /\ store'[v] = store[v] \cup buffers
            /\ resultQueue' = [resultQueue EXCEPT ![v] = Append(@,
                 [type |-> "tensor_batch_ready", buffers |-> buffers])]
      BY <1>4, OutputYielded
    <2>2. CASE v = w
      BY <1>1, <1>4, <2>1, <2>2
    <2>3. CASE v # w
      BY <1>1, <2>1, <2>3
    <2> QED
      BY <2>2, <2>3
  <1>5. ASSUME NEW v \in Worker, CompleteGroup(v)
        PROVE  \/ resultQueue'[w] = resultQueue[w]
               \/ CompleteGroup(w) /\ resultQueue'[w] = Append(resultQueue[w], Completion(w))
    BY <1>1, <1>5, GroupCompletes
  <1> QED
    BY <1>1, <1>2, <1>3, <1>4, <1>5 DEF Footprint

\* The completion whose handling begins.
LEMMA TakenCompletion ==
    ASSUME TypeOK, NEW w \in Worker, GatherTaskComplete(w)
    PROVE  LET m == Head(resultQueue[w])
           IN  /\ m \in ResultMessage /\ m.type = "task_complete" /\ m.data \in Seq(Response)
               /\ results.rest = <<>> /\ results' = [from |-> w, rest |-> m.data]
               /\ UNCHANGED <<phase, scheduledNodes, completedNodes, tensorMap>>
  <1>1. /\ Gathers(w, "task_complete")
        /\ results' = [from |-> w, rest |-> Head(resultQueue[w]).data]
        /\ UNCHANGED <<phase, scheduledNodes, completedNodes, tensorMap>>
    BY DEF GatherTaskComplete, requestVars, tensorVars
  <1>2. Head(resultQueue[w]) \in ResultMessage /\ Head(resultQueue[w]).type = "task_complete"
    BY <1>1, GathersType
  <1> QED
    BY <1>1, <1>2, ResultMessageFields DEF Gathers

LEMMA NothingTold == ToldBy(<<>>) = {}
  BY DEF ToldBy, ToSet

LEMMA FromKept ==
    ASSUME TypeOK, InPlace, [Next]_vars, Kept, NEW b, Still(b), NEW w \in Worker,
           b \in KnownFrom(w)
    PROVE  b \in KnownFrom(w)'
  <1>1. CASE b \in Known
    BY <1>1, KnownKept DEF KnownFrom
  <1>2. CASE b \notin Known
    <2>1. /\ results.from = w /\ b \in ToldBy(results.rest)
      BY <1>2 DEF KnownFrom
    <2>2. CASE UNCHANGED results
      BY <2>1, <2>2 DEF KnownFrom
    <2>3. CASE GatherTask
      <3> DEFINE res == Head(results.rest)
      <3>1. /\ res \in Response /\ results.rest \in Seq(Response) /\ results.rest # <<>>
            /\ results'.from = w /\ results'.rest = Tail(results.rest)
        BY <2>1, <2>3, HandledResult DEF TypeOK, CoordinatorTypeOK, ResultsTypeOK
      <3>2. ToSet(results.rest) = {res} \cup ToSet(Tail(results.rest))
        BY <3>1, Elements
      <3>3. CASE b \in ToldBy(Tail(results.rest))
        BY <3>1, <3>3 DEF KnownFrom
      <3>4. CASE b \in BuffersOf(res, res.tensors)
        <4>1. PICK t \in res.tensors : b = [req |-> res.req, tensor |-> t]
          BY <3>4 DEF BuffersOf
        <4>2. /\ t \in Tensor /\ res.req \in Request
              /\ tensorMap'[res.req][t] = tensorMap[res.req][t] \cup {results.from}
          BY <2>3, <3>1, <4>1, HandledResult DEF Response
        <4>3. b \in Known'
          BY <4>1, <4>2 DEF Known, Available, Buffer
        <4> QED
          BY <4>3 DEF KnownFrom
      <3> QED
        BY <2>1, <3>2, <3>3, <3>4 DEF ToldBy
    <2>4. ASSUME NEW v \in Worker, \/ GatherTensorBatch(v) \/ GatherTaskComplete(v)
          PROVE  FALSE
      <3>1. results.rest = <<>>
        BY <2>4, TakenBatch, TakenCompletion
      <3> QED
        BY <2>1, <3>1, NothingTold
    <2>5. ASSUME NEW v \in Worker, \/ YieldOutput(v) \/ CompleteGroup(v)
          PROVE  UNCHANGED results
      BY <2>5, OutputYielded, GroupCompletes DEF coordinatorSide
    <2> QED
      BY <2>2, <2>3, <2>4, <2>5, Footprints DEF Footprint
  <1> QED
    BY <1>1, <1>2

\* What a result announces is known, or will be in the course of its handling.
LEMMA HeadTold ==
    ASSUME TypeOK, Kept, NEW b, Still(b), NEW w \in Worker,
           GatherTensorBatch(w) \/ GatherTaskComplete(w),
           b \in Announced(Head(resultQueue[w]))
    PROVE  b \in KnownFrom(w)'
  <1> DEFINE m == Head(resultQueue[w])
  <1>1. CASE GatherTensorBatch(w)
    <2>1. m.type = "tensor_batch_ready" /\ b \in m.buffers
      BY <1>1, TakenBatch DEF Announced
    <2>2. b.req \in Request /\ b.tensor \in Tensor /\ b = [req |-> b.req, tensor |-> b.tensor]
      BY DEF Still, Buffer
    <2>3. tensorMap'[b.req][b.tensor] = tensorMap[b.req][b.tensor] \cup {w}
      <3> HIDE DEF m
      <3>1. \A r \in Request, t \in Tensor : [req |-> r, tensor |-> t] \in m.buffers =>
               tensorMap'[r][t] = tensorMap[r][t] \cup {w}
        BY <1>1, TakenBatch DEF m
      <3> QED
        BY <2>1, <2>2, <3>1
    <2> QED
      BY <2>2, <2>3 DEF KnownFrom, Known, Available, Still
  <1>2. CASE GatherTaskComplete(w)
    BY <1>2, TakenCompletion DEF Announced, KnownFrom
  <1> QED
    BY <1>1, <1>2

\* The results before the i-th, after a step: one less when the first is taken.
LEMMA AheadKept ==
    ASSUME TypeOK, InPlace, [Next]_vars, Kept, NEW b, Still(b), NEW w \in Worker,
           NEW i \in 1 .. (Len(resultQueue[w]) + 1), b \in Ahead(w, i)
    PROVE  IF GatherTensorBatch(w) \/ GatherTaskComplete(w)
           THEN b \in Ahead(w, i - 1)' ELSE b \in Ahead(w, i)'
  <1> DEFINE q == resultQueue[w]
             Taken == GatherTensorBatch(w) \/ GatherTaskComplete(w)
  <1>1. q \in Seq(ResultMessage) /\ Len(q) \in Nat
    BY LenProperties DEF TypeOK, CoordinatorTypeOK, ChannelTypeOK
  <1>2. CASE b \in KnownFrom(w)
    <2>1. b \in KnownFrom(w)'
      BY <1>2, FromKept
    <2> QED
      BY <2>1 DEF Ahead
  <1>3. ASSUME NEW k \in 1 .. (i - 1), b \in Announced(q[k])
        PROVE  IF Taken THEN b \in Ahead(w, i - 1)' ELSE b \in Ahead(w, i)'
    <2>1. k \in 1 .. Len(q)
      BY <1>1
    <2>2. CASE Taken
      <3>1. /\ q # <<>> /\ resultQueue'[w] = Tail(q)
        <4>1. q # <<>> /\ resultQueue' = [resultQueue EXCEPT ![w] = Tail(@)]
          BY <2>2 DEF GatherTensorBatch, GatherTaskComplete, Gathers
        <4> QED
          BY <4>1 DEF TypeOK, CoordinatorTypeOK, ChannelTypeOK
      <3>2. CASE k = 1
        <4>1. q[k] = Head(q)
          BY <1>1, <3>1, <3>2, HeadTailProperties
        <4>2. b \in KnownFrom(w)'
          BY <1>3, <2>2, <4>1, HeadTold
        <4> QED
          BY <2>2, <4>2 DEF Ahead
      <3>3. CASE k # 1
        <4>1. k - 1 \in 1 .. (i - 1 - 1) /\ k - 1 \in 1 .. (Len(q) - 1)
          BY <1>1, <2>1, <3>3
        <4>2. resultQueue'[w][k - 1] = q[k]
          <5>1. \A h \in 1 .. (Len(q) - 1) : Tail(q)[h] = q[h + 1]
            BY <1>1, <3>1, HeadTailProperties
          <5>2. Tail(q)[k - 1] = q[(k - 1) + 1] /\ (k - 1) + 1 = k
            BY <4>1, <5>1
          <5> QED
            BY <3>1, <5>2
        <4>3. b \in Ahead(w, i - 1)'
          <5>1. Announced(q[k]) = Announced(resultQueue'[w][k - 1])
            BY <4>2
          <5>2. Announced(resultQueue'[w][k - 1]) \subseteq Ahead(w, i - 1)'
            BY <4>1 DEF Ahead
          <5> QED
            BY <1>3, <5>1, <5>2
        <4> QED
          BY <2>2, <4>3
      <3> QED
        BY <3>2, <3>3
    <2>3. CASE ~Taken
      <3>1. resultQueue'[w][k] = q[k]
        <4>1. \A m : Append(q, m)[k] = q[k]
          BY <1>1, <2>1
        <4> QED
          BY <2>3, <4>1, ResultQueueChanges
      <3>2. Announced(resultQueue'[w][k]) \subseteq Ahead(w, i)'
        BY DEF Ahead
      <3> QED
        BY <1>3, <2>3, <3>1, <3>2
    <2> QED
      BY <2>2, <2>3
  <1> QED
    BY <1>2, <1>3 DEF Ahead

\* What a worker has announced, and what it announces in this step.
LEMMA ToldKept ==
    ASSUME TypeOK, InPlace, [Next]_vars, Kept, NEW b, Still(b), NEW w \in Worker,
           b \in AllTold(w)
    PROVE  b \in AllTold(w)'
  <1> DEFINE q == resultQueue[w]
             Taken == GatherTensorBatch(w) \/ GatherTaskComplete(w)
  <1>1. q \in Seq(ResultMessage) /\ Len(q) \in Nat
    BY LenProperties DEF TypeOK, CoordinatorTypeOK, ChannelTypeOK
  <1>2. PICK n \in Nat : n = Len(q)
    BY <1>1
  <1>3. PICK k \in Nat : k = Len(resultQueue'[w]) /\ (IF Taken THEN k = n - 1 ELSE k \in {n, n + 1})
    <2>1. CASE Taken
      <3>1. q # <<>> /\ resultQueue' = [resultQueue EXCEPT ![w] = Tail(@)]
        BY <2>1 DEF GatherTensorBatch, GatherTaskComplete, Gathers
      <3>2. resultQueue'[w] = Tail(q)
        BY <3>1 DEF TypeOK, CoordinatorTypeOK, ChannelTypeOK
      <3>3. Len(resultQueue'[w]) \in Nat /\ Len(resultQueue'[w]) = n - 1
        BY <1>1, <1>2, <3>1, <3>2, HeadTailProperties, LenProperties, EmptySeq
      <3> QED
        BY <2>1, <3>3
    <2>2. CASE ~Taken
      <3>1. \A m : Len(Append(q, m)) = Len(q) + 1
        BY <1>1
      <3>2. Len(resultQueue'[w]) \in {n, n + 1}
        BY <1>2, <2>2, <3>1, ResultQueueChanges
      <3> QED
        BY <1>2, <2>2, <3>2
    <2> QED
      BY <2>1, <2>2
  <1>4. PICK m \in Nat : m = n + 1
    BY <1>2
  <1>5. IF Taken THEN b \in Ahead(w, m - 1)' ELSE b \in Ahead(w, m)'
    <2>1. m \in 1 .. (Len(resultQueue[w]) + 1) /\ b \in Ahead(w, m)
      BY <1>1, <1>2, <1>4 DEF AllTold
    <2> QED
      BY <2>1, AheadKept
  <1>6. PICK h \in Nat : h = k + 1 /\ (IF Taken THEN h = m - 1 ELSE h \in {m, m + 1})
    BY <1>2, <1>3, <1>4
  <1>7. b \in Ahead(w, h)'
    <2>1. CASE Taken
      BY <1>5, <1>6, <2>1
    <2>2. CASE ~Taken
      <3>1. 1 .. (m - 1) \subseteq 1 .. (h - 1)
        BY <1>6, <2>2
      <3>2. Ahead(w, m)' \subseteq Ahead(w, h)'
        BY <3>1 DEF Ahead
      <3> QED
        BY <1>5, <2>2, <3>2
    <2> QED
      BY <2>1, <2>2
  <1> QED
    BY <1>3, <1>6, <1>7 DEF AllTold

LEMMA NewlyTold ==
    ASSUME TypeOK, NEW w \in Worker, NEW m, resultQueue'[w] = Append(resultQueue[w], m),
           NEW b, b \in Announced(m)
    PROVE  b \in AllTold(w)'
  <1> DEFINE q == resultQueue[w]
  <1>1. q \in Seq(ResultMessage) /\ Len(q) \in Nat
    BY LenProperties DEF TypeOK, CoordinatorTypeOK, ChannelTypeOK
  <1>2. PICK n \in Nat : n = Len(q)
    BY <1>1
  <1>3. Len(resultQueue'[w]) = n + 1 /\ resultQueue'[w][n + 1] = m
    BY <1>1, <1>2
  <1>4. PICK h \in Nat : h = n + 2
    BY <1>2
  <1>5. n + 1 \in 1 .. (h - 1) /\ Len(resultQueue'[w]) + 1 = h
    BY <1>2, <1>3, <1>4
  <1>6. b \in Announced(resultQueue'[w][n + 1])
    BY <1>3
  <1>7. b \in Ahead(w, h)'
    BY <1>5, <1>6 DEF Ahead
  <1> QED
    BY <1>5, <1>7 DEF AllTold

-----------------------------------------------------------------------------
(* The invariant, conjunct by conjunct *)

LEMMA StepNodes ==
    ASSUME FlowInv, [Next]_vars
    PROVE  NodesFed'
  <1>1. /\ TypeOK /\ CallsOnce /\ InPlace /\ NodesOfRequests /\ NodesFed /\ ResultsTold
        /\ Kept /\ Footprint
    BY StepKeeps, Footprints DEF FlowInv, TaskInv
  <1>2. ASSUME NEW r \in Request, phase'[r] = "live", ~Started(r)
        PROVE  StartRequest /\ r = Head(ready).req
    <2>1. CASE Accepts
      <3>1. PICK requests \in SUBSET Request :
              phase' = [q \in Request |-> IF q \in requests THEN "starting" ELSE phase[q]]
        BY <2>1 DEF Accepts, LoopIteration
      <3> QED
        BY <1>2, <3>1 DEF Started
    <2>2. CASE StartRequest
      BY <1>1, <1>2, <2>2, StartedRequest DEF Started
    <2>3. CASE FinishRequest
      BY <1>1, <1>2, <2>3, FinishedRequest DEF Started
    <2>4. CASE GatherTask \/ UNCHANGED phase
      BY <1>2, <2>4 DEF Started, GatherTask
    <2> QED
      BY <1>1, <2>1, <2>2, <2>3, <2>4 DEF Footprint
  <1>3. ASSUME NEW r \in Request, phase'[r] = "live", Started(r)
        PROVE  /\ phase[r] = "live"
               /\ \/ UNCHANGED <<scheduledNodes[r], completedNodes[r]>>
                  \/ GatherTask /\ r = Head(results.rest).req
    <2>1. phase[r] = "live"
      BY <1>1, <1>3 DEF Kept
    <2>2. CASE Accepts
      BY <2>1, <2>2 DEF Accepts, LoopIteration
    <2>3. CASE StartRequest
      BY <1>1, <1>3, <2>1, <2>3, StartedRequest
    <2>4. CASE FinishRequest
      BY <1>1, <1>3, <2>1, <2>4, FinishedRequest
    <2>5. CASE GatherTask
      BY <1>1, <2>1, <2>5, HandledResult
    <2> QED
      BY <1>1, <2>1, <2>2, <2>3, <2>4, <2>5 DEF Footprint
  <1>4. ASSUME NEW r \in Request, phase'[r] = "live", NEW n \in scheduledNodes'[r]
        PROVE  NonLazyPrerequisites(n) \subseteq completedNodes'[r]
    <2>1. CASE ~Started(r)
      <3>1. scheduledNodes'[r] = Roots
        BY <1>1, <1>2, <1>4, <2>1, StartedRequest
      <3> QED
        BY <1>4, <3>1 DEF Roots
    <2>2. CASE Started(r) /\ UNCHANGED <<scheduledNodes[r], completedNodes[r]>>
      BY <1>1, <1>3, <1>4, <2>2 DEF NodesFed
    <2>3. CASE Started(r) /\ GatherTask /\ r = Head(results.rest).req
      <3> DEFINE m == Head(results.rest).node
      <3>1. /\ completedNodes'[r] = completedNodes[r] \cup {m} /\ phase[r] = "live"
            /\ scheduledNodes'[r] = scheduledNodes[r] \cup NewlyReady(r, m)
        BY <1>1, <2>3, HandledResult
      <3> HIDE DEF m
      <3>2. CASE n \in scheduledNodes[r]
        BY <1>1, <3>1, <3>2 DEF NodesFed
      <3>3. CASE n \in NewlyReady(r, m)
        BY <3>1, <3>3 DEF NewlyReady
      <3> QED
        BY <1>4, <3>1, <3>2, <3>3
    <2> QED
      BY <1>3, <1>4, <2>1, <2>2, <2>3
  <1>5. ASSUME NEW r \in Request, phase'[r] = "live", NEW n \in completedNodes'[r],
               NEW t \in Inputs[n] \cup Outputs(n)
        PROVE  Available(r, t)'
    <2>1. CASE ~Started(r)
      <3>1. completedNodes'[r] = completedNodes[r] /\ phase[r] = "starting"
        BY <1>1, <1>2, <1>5, <2>1, StartedRequest
      <3> QED
        BY <1>1, <1>5, <3>1 DEF NodesOfRequests
    <2>2. n \in Node /\ t \in Tensor
      <3>1. completedNodes' \in [Request -> SUBSET Node]
        BY <1>1, StepType DEF TypeOK, CoordinatorTypeOK, RequestTypeOK
      <3>2. n \in Node
        BY <1>5, <3>1
      <3> QED
        BY <1>5, <3>2, WorkflowAssumption DEF Outputs
    <2>3. CASE Started(r) /\ phase[r] = "live" /\ n \in completedNodes[r]
      BY <1>1, <1>5, <2>2, <2>3 DEF NodesFed, Kept
    <2>4. CASE Started(r) /\ GatherTask /\ r = Head(results.rest).req /\ n = Head(results.rest).node
      <3> DEFINE res == Head(results.rest)
      <3>1. /\ res \in ToSet(results.rest) /\ phase[r] = "live"
            /\ \A u \in Tensor : tensorMap'[r][u] =
                 IF u \in res.tensors THEN tensorMap[r][u] \cup {results.from}
                                      ELSE tensorMap[r][u]
        BY <1>1, <2>4, HandledResult
      <3>2. Named(res, t) \in Known \/ t \in res.tensors
        BY <1>1, <1>5, <2>4, <3>1 DEF ResultsTold, Explained
      <3>3. CASE Named(res, t) \in Known
        <4>1. Available(r, t)
          BY <2>4, <3>3 DEF Known, Named
        <4> QED
          BY <1>1, <1>5, <2>2, <2>4, <4>1 DEF Kept
      <3>4. CASE t \in res.tensors
        BY <2>2, <3>1, <3>4 DEF Available
      <3> QED
        BY <3>2, <3>3, <3>4
    <2>5. CASE Started(r) /\ n \notin completedNodes[r]
      <3>1. GatherTask /\ r = Head(results.rest).req
        BY <1>3, <1>5, <2>5
      <3>2. n = Head(results.rest).node
        BY <1>1, <1>5, <2>5, <3>1, HandledResult
      <3> QED
        BY <2>4, <2>5, <3>1, <3>2
    <2> QED
      BY <1>3, <1>5, <2>1, <2>3, <2>5
  <1> QED
    BY <1>4, <1>5 DEF NodesFed

\* What a worker has is announced or known before the step, or announced by it.
LEMMA StepStores ==
    ASSUME FlowInv, TypeOK', [Next]_vars, NEW w \in Worker, NEW b \in store'[w]
    PROVE  /\ Started(b.req)
           /\ phase'[b.req] = "live" => b \in AllTold(w)'
  <1>1. /\ TypeOK /\ CallsOnce /\ InPlace /\ EntriesFed /\ StoresTold /\ GroupsTold
        /\ Kept /\ Footprint /\ TasksPending
    BY StepKeeps, Footprints, TasksArePending DEF FlowInv, TaskInv
  <1>2. b \in Buffer /\ b.req \in Request
    BY DEF TypeOK, WorkerTypeOK, Buffer
  <1>3. ASSUME Started(b.req), phase[b.req] = "live" => b \in AllTold(w)
        PROVE  phase'[b.req] = "live" => b \in AllTold(w)'
    BY <1>1, <1>2, <1>3, ToldKept DEF Kept, Still
  <1>4. CASE b \in store[w]
    BY <1>1, <1>3, <1>4 DEF StoresTold
  <1>5. ASSUME b \notin store[w], StartGroup(w)
        PROVE  Started(b.req) /\ (phase[b.req] = "live" => b \in AllTold(w))
    <2>1. PICK e \in ToSet(Head(taskQueue[w]).entries) : \E t \in Remote(e, w) : b = Named(e, t)
      BY <1>1, <1>5, GroupStarts
    <2>2. PICK t \in Remote(e, w) : b = Named(e, t)
      BY <2>1
    <2>3. e \in EntriesAt(w)
      <3>1. Head(taskQueue[w]) \in ToSet(taskQueue[w])
        <4>1. taskQueue[w] \in Seq(TaskMessage) /\ taskQueue[w] # <<>>
          BY <1>1, <1>5, GroupStarts
        <4> QED
          BY <4>1, Elements
      <3> QED
        BY <3>1 DEF EntriesAt
    <2>4. Started(e.req) /\ Available(e.req, t)
      BY <1>1, <2>2, <2>3, PendingLive DEF TasksPending, EntriesFed, EntryOK, Remote
    <2> QED
      BY <1>2, <2>2, <2>4 DEF Named, AllTold, Ahead, KnownFrom, Known
  <1>6. ASSUME b \notin store[w], AcquireLazy(w)
        PROVE  Started(b.req) /\ (phase[b.req] = "live" => b \in AllTold(w))
    <2>1. b \in received[w]
      BY <1>1, <1>6, LazyAcquired
    <2> QED
      BY <1>1, <2>1 DEF StoresTold, Sound, AllTold, Ahead, KnownFrom
  <1>7. ASSUME b \notin store[w], YieldOutput(w)
        PROVE  Started(b.req) /\ b \in AllTold(w)'
    <2>1. PICK buffers \in SUBSET current[w].yields :
            /\ store'[w] = store[w] \cup buffers
            /\ resultQueue' = [resultQueue EXCEPT ![w] = Append(@,
                 [type |-> "tensor_batch_ready", buffers |-> buffers])]
      BY <1>1, <1>7, OutputYielded
    <2>2. resultQueue'[w] = Append(resultQueue[w],
            [type |-> "tensor_batch_ready", buffers |-> buffers])
      BY <1>1, <2>1 DEF TypeOK, CoordinatorTypeOK, ChannelTypeOK
    <2>3. b \in Announced([type |-> "tensor_batch_ready", buffers |-> buffers])
      BY <1>7, <2>1 DEF Announced
    <2>4. PICK e \in RunningAt(w) : TaskOf(e) = MakerOf(b)
      BY <1>1, <1>7, <2>1 DEF GroupsTold
    <2>5. Started(b.req)
      BY <1>1, <2>4, PendingLive DEF TasksPending, EntriesAt, MakerOf, TaskOf
    <2> QED
      BY <1>1, <2>2, <2>3, <2>5, NewlyTold
  <1>8. ASSUME b \notin store[w], CompleteGroup(w)
        PROVE  Started(b.req) /\ b \in AllTold(w)'
    <2>1. PICK e \in RunningAt(w) : \E t \in LateOutputs(e) : b = Named(e, t)
      BY <1>1, <1>8, GroupCompletes
    <2>2. Started(e.req)
      BY <1>1, PendingLive DEF TasksPending, EntriesAt
    <2>3. PICK i \in DOMAIN current[w].entries : e = current[w].entries[i]
      BY <2>1 DEF RunningAt, ToSet
    <2>4. b \in Announced(Completion(w))
      <3> DEFINE res == [req |-> e.req, node |-> e.node, tensors |-> Reported(e, w)]
      <3>1. res \in ToSet(Completion(w).data)
        BY <2>3 DEF Completion, ToSet
      <3>2. b \in BuffersOf(res, res.tensors)
        BY <2>1 DEF BuffersOf, Named, Reported
      <3> QED
        BY <3>1, <3>2 DEF Announced, ToldBy, Completion
    <2>5. resultQueue'[w] = Append(resultQueue[w], Completion(w))
      BY <1>1, <1>8, GroupCompletes DEF TypeOK, CoordinatorTypeOK, ChannelTypeOK
    <2> QED
      BY <1>1, <2>1, <2>2, <2>4, <2>5, NewlyTold DEF Named
  <1>9. \/ b \in store[w] \/ StartGroup(w) \/ AcquireLazy(w) \/ YieldOutput(w) \/ CompleteGroup(w)
    <2>1. CASE UNCHANGED store
      BY <2>1
    <2>2. ASSUME NEW v \in Worker, v # w,
                 StartGroup(v) \/ AcquireLazy(v) \/ YieldOutput(v) \/ CompleteGroup(v)
          PROVE  store'[w] = store[w]
      <3>1. w \in Worker \ {v}
        BY <2>2
      <3>2. CASE StartGroup(v)
        BY <1>1, <3>1, <3>2, GroupStarts
      <3>3. CASE AcquireLazy(v)
        BY <1>1, <3>1, <3>3, LazyAcquired
      <3>4. CASE YieldOutput(v)
        BY <1>1, <3>1, <3>4, OutputYielded
      <3>5. CASE CompleteGroup(v)
        BY <1>1, <3>1, <3>5, GroupCompletes
      <3> QED
        BY <2>2, <3>2, <3>3, <3>4, <3>5
    <2> QED
      BY <1>1, <2>1, <2>2 DEF Footprint
  <1> QED
    BY <1>3, <1>4, <1>5, <1>6, <1>7, <1>8, <1>9

\* A buffer the first result in w's queue announces early: its node is at work.
LEMMA EarlyOutput ==
    ASSUME TypeOK, InPlace, ResultsTold, NEW w \in Worker, GatherTensorBatch(w),
           NEW b \in Head(resultQueue[w]).buffers
    PROVE  /\ b \in Buffer /\ Producer[b.tensor] \in Generator
           /\ MakerOf(b) \in Pending /\ phase[b.req] = "live" /\ Started(b.req)
  <1> DEFINE q == resultQueue[w]
  <1>1. /\ q \in Seq(ResultMessage) /\ q # <<>> /\ Head(q).type = "tensor_batch_ready"
        /\ Head(q).buffers \subseteq Buffer
    BY TakenBatch
  <1>2. 1 \in DOMAIN q /\ q[1] = Head(q)
    BY <1>1, HeadTailProperties, LenProperties, EmptySeq
  <1>3. MessageOK(w, 1)
    BY <1>2 DEF ResultsTold
  <1>4. Producer[b.tensor] \in Generator /\ Behind(MakerOf(b), w, 1)
    BY <1>1, <1>2, <1>3 DEF MessageOK
  <1>5. MakerOf(b) \in Pending
    <2>1. CASE \E e \in RunningAt(w) : TaskOf(e) = MakerOf(b)
      BY <2>1, TasksArePending DEF TasksPending, EntriesAt
    <2>2. ASSUME NEW k \in DOMAIN q, q[k].type = "task_complete",
                 NEW res \in ToSet(q[k].data), TaskOf(res) = MakerOf(b)
          PROVE  MakerOf(b) \in Pending
      BY <2>2, TasksArePending DEF TasksPending
    <2> QED
      BY <1>4, <2>1, <2>2 DEF Behind
  <1> QED
    BY <1>1, <1>4, <1>5 DEF Pending, MakerOf, Started

\* The notifications a step creates.
LEMMA NoticesCreated ==
    ASSUME TypeOK, InPlace, [Next]_vars, NEW c \in ToSet(ready'), c.cb = "notify"
    PROVE  \/ c \in ToSet(ready)
           \/ /\ GatherTask /\ c.req = Head(results.rest).req
              /\ c.tensors = Head(results.rest).tensors /\ c.src = results.from
           \/ \E w \in Worker : GatherTensorBatch(w) /\ c.src = w /\ \A t \in c.tensors :
                Named(c, t) \in Head(resultQueue[w]).buffers
  <1>1. ready \in Seq(Callback) /\ Footprint
    BY Footprints DEF TypeOK, CoordinatorTypeOK, LoopTypeOK
  <1>2. \A S : \A new \in Seq(S) : ready' = ready \o new =>
          c \in ToSet(ready) \/ \E i \in DOMAIN new : c = new[i]
    <2> SUFFICES ASSUME NEW S, NEW new \in Seq(S), ready' = ready \o new
                 PROVE  c \in ToSet(ready) \/ \E i \in DOMAIN new : c = new[i]
      OBVIOUS
    <2>1. ready \in Seq(Callback \cup S) /\ new \in Seq(Callback \cup S)
      BY <1>1
    <2>2. PICK i \in DOMAIN (ready \o new) : c = (ready \o new)[i]
      BY DEF ToSet
    <2> QED
      BY <2>1, <2>2, Positions DEF ToSet
  <1>3. CASE UNCHANGED ready
    BY <1>3
  <1>4. CASE Ran(<<>>)
    <2>1. CASE ready # <<>>
      <3>1. Tail(ready) \o <<>> = Tail(ready)
        BY <1>1, <2>1, HeadTailProperties
      <3> QED
        BY <1>1, <1>4, <2>1, <3>1, Elements DEF Ran
    <2>2. CASE ready = <<>>
      BY <1>4, <2>2 DEF Ran, ToSet
    <2> QED
      BY <2>1, <2>2
  <1>5. CASE Accepts
    <2>1. PICK requests \in SUBSET Request, due \in DueTimers : LoopIteration(requests, due)
      BY <1>5 DEF Accepts
    <2>2. PICK starts \in Seq(Callback), turns \in Seq(Callback) :
            /\ ready' = ready \o (starts \o turns)
            /\ \A i \in DOMAIN turns : turns[i].cb \in Loops
            /\ \A i \in DOMAIN starts : starts[i].cb = "start"
      BY <2>1, LoopIterationQueues
    <2>3. starts \o turns \in Seq(Callback)
      BY <2>2
    <2>4. CASE \E i \in DOMAIN (starts \o turns) : c = (starts \o turns)[i]
      <3>1. PICK i \in DOMAIN (starts \o turns) : c = (starts \o turns)[i]
        BY <2>4
      <3>2. c.cb \in Loops \cup {"start"}
        BY <2>2, <3>1, Positions
      <3> QED
        BY <3>2 DEF Loops
    <2> QED
      BY <1>2, <2>2, <2>3, <2>4
  <1>6. CASE AssignGroup
    <2>1. PICK w \in Worker :
            ready' = Append(ready, [cb |-> "dispatch", group |-> group, dst |-> w])
      BY <1>6 DEF AssignGroup
    <2>2. ToSet(ready') = ToSet(ready) \cup {[cb |-> "dispatch", group |-> group, dst |-> w]}
      BY <1>1, <2>1, Elements
    <2> QED
      BY <2>2
  <1>7. CASE GatherTask
    <2> DEFINE res == Head(results.rest)
               r == res.req
               n == res.node
               notify == [cb |-> "notify", req |-> r, tensors |-> res.tensors,
                          src |-> results.from]
               free == [cb |-> "free", task |-> [req |-> r, node |-> n]]
               wake == IF IsRequestComplete(r, n) THEN <<[cb |-> "wake", req |-> r]>>
                                                  ELSE <<>>
    <2>1. PICK order \in SetToSeqs(NewlyReady(r, n)) :
            ready' = ready \o
                (<<notify>> \o [i \in DOMAIN order |->
                                  [cb |-> "put", task |-> [req |-> r, node |-> order[i]]]]
                            \o <<free>> \o wake)
      BY <1>7 DEF GatherTask
    <2> DEFINE puts == [i \in DOMAIN order |->
                          [cb |-> "put", task |-> [req |-> r, node |-> order[i]]]]
               O == ToSet(puts) \cup {notify, free, [cb |-> "wake", req |-> r]}
    <2>2. order \in Seq(NewlyReady(r, n))
      <3>1. IsFiniteSet(NewlyReady(r, n))
        BY FS_Subset, WorkflowAssumption DEF NewlyReady, Successors
      <3> QED
        BY <2>1, <3>1, OrderOfSet
    <2> HIDE DEF r, n
    <2>3. puts \in Seq(O) /\ \A i \in DOMAIN puts : puts[i].cb = "put"
      <3>1. DOMAIN puts = 1 .. Len(order) /\ Len(order) \in Nat
        BY <2>2, LenProperties
      <3>2. \A i \in DOMAIN puts : puts[i] \in O
        BY DEF ToSet
      <3>3. puts = [i \in 1 .. Len(order) |-> puts[i]]
        BY <3>1
      <3> HIDE DEF puts, O
      <3>4. puts \in Seq(O)
        <4>1. \A i \in 1 .. Len(order) : puts[i] \in O
          BY <3>1, <3>2
        <4>2. puts \in [1 .. Len(order) -> O]
          BY <3>3, <4>1
        <4> QED
          BY <3>1, <4>2, SeqDef
      <3> QED
        BY <3>4 DEF puts
    <2> HIDE DEF puts
    <2>4. /\ <<notify>> \in Seq(O) /\ <<free>> \in Seq(O) /\ wake \in Seq(O)
          /\ \A i \in DOMAIN wake : wake[i].cb = "wake"
      <3>1. \A x \in O : <<x>> \in Seq(O)
        OBVIOUS
      <3>2. notify \in O /\ free \in O /\ [cb |-> "wake", req |-> r] \in O
        OBVIOUS
      <3>3. wake \in Seq(O)
        <4> HIDE DEF O
        <4> QED
          BY <3>1, <3>2
      <3>4. \A i \in DOMAIN wake : wake[i].cb = "wake"
        <4> HIDE DEF O
        <4> QED
          OBVIOUS
      <3> HIDE DEF notify, free, wake, O
      <3> QED
        BY <3>1, <3>2, <3>3, <3>4
    <2>5. c \in ToSet(ready) \/ c = notify
      <3> DEFINE A == <<notify>> \o puts
                 B == A \o <<free>>
                 C == B \o wake
      <3>1. A \in Seq(O) /\ B \in Seq(O) /\ C \in Seq(O) /\ ready' = ready \o C
        BY <2>1, <2>3, <2>4 DEF puts
      <3> HIDE DEF wake, O
      <3>2. \A i \in DOMAIN A : A[i] = notify \/ A[i].cb = "put"
        BY <2>3, <2>4, Positions
      <3> HIDE DEF A
      <3>3. \A i \in DOMAIN B : B[i] = notify \/ B[i].cb \in {"put", "free"}
        BY <2>4, <3>1, <3>2, Positions
      <3> HIDE DEF B
      <3>4. \A i \in DOMAIN C : C[i] = notify \/ C[i].cb \in {"put", "free", "wake"}
        BY <2>4, <3>1, <3>3, Positions
      <3> HIDE DEF C, notify
      <3> QED
        BY <1>2, <3>1, <3>4
    <2> QED
      BY <1>7, <2>5 DEF r
  <1>8. ASSUME NEW w \in Worker, GatherTensorBatch(w)
        PROVE  \/ c \in ToSet(ready)
               \/ /\ c.src = w
                  /\ \A t \in c.tensors : Named(c, t) \in Head(resultQueue[w]).buffers
    <2> DEFINE buffers == Head(resultQueue[w]).buffers
               Names(r) == { b.tensor : b \in { d \in buffers : d.req = r } }
    <2>1. buffers \subseteq Buffer
      BY <1>8, TakenBatch
    <2>2. PICK order \in SetToSeqs({ b.req : b \in buffers }) :
            ready' = ready \o [i \in DOMAIN order |->
                [cb |-> "notify", req |-> order[i], tensors |-> Names(order[i]), src |-> w]]
      BY <1>8 DEF GatherTensorBatch
    <2> DEFINE new == [i \in DOMAIN order |->
                [cb |-> "notify", req |-> order[i], tensors |-> Names(order[i]), src |-> w]]
    <2>3. IsFiniteSet(Request)
      BY SchedulingAssumption
    <2>4. { b.req : b \in buffers } \subseteq Request
      BY <2>1 DEF Buffer
    <2> HIDE DEF buffers
    <2>5. order \in Seq({ b.req : b \in buffers })
      BY <2>2, <2>3, <2>4, FS_Subset, OrderOfSet
    <2>6. new \in Seq(ToSet(new))
      <3>1. DOMAIN new = 1 .. Len(order) /\ Len(order) \in Nat
        BY <2>5, LenProperties
      <3>2. new = [i \in 1 .. Len(order) |-> new[i]] /\ \A i \in DOMAIN new : new[i] \in ToSet(new)
        BY <3>1 DEF ToSet
      <3> HIDE DEF new
      <3>3. \A i \in 1 .. Len(order) : new[i] \in ToSet(new)
        BY <3>1, <3>2
      <3>4. new \in [1 .. Len(order) -> ToSet(new)]
        BY <3>2, <3>3
      <3> QED
        BY <3>1, <3>4, SeqDef
    <2>7. ASSUME NEW i \in DOMAIN new, c = new[i], NEW t \in c.tensors
          PROVE  Named(c, t) \in buffers
      <3>1. c.req = order[i] /\ t \in Names(order[i])
        BY <2>7
      <3>2. PICK d \in buffers : d.req = order[i] /\ d.tensor = t
        BY <3>1
      <3> QED
        BY <2>1, <3>1, <3>2 DEF Named, Buffer, buffers
    <2>8. ready' = ready \o new
      BY <2>2
    <2>9. \A i \in DOMAIN new : new[i].src = w
      OBVIOUS
    <2> HIDE DEF new
    <2> QED
      BY <1>2, <2>6, <2>7, <2>8, <2>9 DEF buffers
  <1> QED
    BY <1>1, <1>3, <1>4, <1>5, <1>6, <1>7, <1>8 DEF Footprint

LEMMA StepNotices ==
    ASSUME FlowInv, TypeOK', [Next]_vars
    PROVE  NoticesTold'
  <1>1. /\ TypeOK /\ CallsOnce /\ InPlace /\ NoticesTold /\ ResultsTold /\ Kept
    BY StepKeeps DEF FlowInv, TaskInv
  <1>2. ASSUME NEW c \in ToSet(ready'), c.cb = "notify", NEW t \in c.tensors
        PROVE  Sound(Named(c, t))'
    <2>1. /\ c \in Callback /\ c.req \in Request /\ t \in Tensor
          /\ Named(c, t) \in Buffer
      <3>1. ready' \in Seq(Callback)
        BY DEF TypeOK, CoordinatorTypeOK, LoopTypeOK
      <3>2. c \in Callback
        BY <3>1, Elements
      <3> QED
        BY <1>2, <3>2, CallbackFields DEF Named, Buffer
    <2>2. CASE c \in ToSet(ready)
      BY <1>1, <1>2, <2>1, <2>2, SoundKept DEF NoticesTold
    <2>3. CASE /\ GatherTask /\ c.req = Head(results.rest).req
               /\ c.tensors = Head(results.rest).tensors /\ c.src = results.from
      <3> DEFINE res == Head(results.rest)
      <3>1. /\ phase[c.req] = "live" /\ phase' = phase
            /\ tensorMap'[c.req][t] = tensorMap[c.req][t] \cup {results.from}
        BY <1>1, <1>2, <2>1, <2>3, HandledResult
      <3> QED
        BY <2>1, <3>1 DEF Sound, Started, Named, Known, Available
    <2>4. ASSUME NEW w \in Worker, GatherTensorBatch(w),
                 Named(c, t) \in Head(resultQueue[w]).buffers
          PROVE  Sound(Named(c, t))'
      <3>1. phase[c.req] = "live"
        BY <1>1, <2>4, EarlyOutput DEF Named
      <3>2. phase' = phase
        BY <2>4 DEF GatherTensorBatch, requestVars
      <3>3. \A r \in Request, u \in Tensor :
              [req |-> r, tensor |-> u] \in Head(resultQueue[w]).buffers =>
                tensorMap'[r][u] = tensorMap[r][u] \cup {w}
        BY <1>1, <2>4, TakenBatch
      <3>4. tensorMap'[c.req][t] = tensorMap[c.req][t] \cup {w}
        BY <2>1, <2>4, <3>3 DEF Named
      <3> QED
        BY <2>1, <3>1, <3>2, <3>4 DEF Sound, Started, Named, Known, Available
    <2> QED
      BY <1>1, <1>2, <2>2, <2>3, <2>4, NoticesCreated
  <1> QED
    BY <1>2 DEF NoticesTold

\* The arrivals on their way, and those fetched.
LEMMA StepArrivals ==
    ASSUME FlowInv, TypeOK', [Next]_vars, NEW w \in Worker
    PROVE  /\ \A b \in received'[w] : Sound(b)'
           /\ \A m \in lazyQueue'[w] : Sound(Named(m, m.tensor))'
  <1>1. /\ TypeOK /\ CallsOnce /\ InPlace /\ NoticesTold /\ StoresTold /\ Kept /\ Footprint
        /\ lazyQueue \in [Worker -> SUBSET LazyArrival]
        /\ lazyQueue' \in [Worker -> SUBSET LazyArrival]
        /\ received \in [Worker -> SUBSET Buffer] /\ received' \in [Worker -> SUBSET Buffer]
    BY StepKeeps, Footprints
       DEF FlowInv, TaskInv, TypeOK, CoordinatorTypeOK, ChannelTypeOK, WorkerTypeOK
  <1>2. ASSUME NEW m \in lazyQueue'[w]
        PROVE  Sound(Named(m, m.tensor))'
    <2>1. m \in LazyArrival /\ Named(m, m.tensor) \in Buffer
      BY <1>1 DEF LazyArrival, Named, Buffer
    <2>2. CASE m \in lazyQueue[w]
      BY <1>1, <2>1, <2>2, SoundKept DEF StoresTold
    <2>3. CASE m \notin lazyQueue[w]
      <3>1. NotifyLazyInputAvailable
        <4>1. ASSUME NEW v \in Worker, FetchLazy(v)
              PROVE  lazyQueue'[w] \subseteq lazyQueue[w]
          <5>1. PICK a \in lazyQueue[v] : lazyQueue' = [lazyQueue EXCEPT ![v] = @ \ {a}]
            BY <4>1 DEF FetchLazy
          <5> QED
            BY <1>1, <5>1
        <4> QED
          BY <1>1, <2>3, <4>1 DEF Footprint
      <3> DEFINE c == Head(ready)
      <3>2. /\ ready # <<>> /\ c \in Callback /\ c.cb = "notify" /\ c \in ToSet(ready)
        <4>1. ready # <<>> /\ c \in Callback /\ c.cb = "notify"
          BY <1>1, <3>1, HeadRuns DEF NotifyLazyInputAvailable
        <4>2. ready \in Seq(Callback)
          BY <1>1 DEF TypeOK, CoordinatorTypeOK, LoopTypeOK
        <4> QED
          BY <4>1, <4>2, Elements
      <3>3. PICK t \in c.tensors :
              \E d : m = [req |-> c.req, tensor |-> t, src |-> c.src, node |-> d]
        <4>1. lazyQueue' = [v \in Worker |-> lazyQueue[v] \cup
                (UNION { { [req |-> c.req, tensor |-> t, src |-> c.src, node |-> d[1]] :
                          d \in { e \in lazyDependents[c.req][t] : e[2] = v } } :
                        t \in c.tensors })]
          BY <3>1 DEF NotifyLazyInputAvailable
        <4>2. m \in (UNION { { [req |-> c.req, tensor |-> t, src |-> c.src, node |-> d[1]] :
                          d \in { e \in lazyDependents[c.req][t] : e[2] = w } } :
                        t \in c.tensors })
          <5> HIDE DEF c
          <5> QED
            BY <2>3, <4>1
        <4> QED
          BY <4>2
      <3>4. Sound(Named(c, t))
        BY <1>1, <3>2, <3>3 DEF NoticesTold
      <3>5. Named(c, t) = Named(m, m.tensor)
        BY <3>3 DEF Named
      <3> QED
        BY <1>1, <2>1, <3>4, <3>5, SoundKept
    <2> QED
      BY <2>2, <2>3
  <1>3. ASSUME NEW b \in received'[w]
        PROVE  Sound(b)'
    <2>1. b \in Buffer
      BY <1>1
    <2>2. CASE b \in received[w]
      BY <1>1, <2>1, <2>2, SoundKept DEF StoresTold
    <2>3. ASSUME b \notin received[w]
          PROVE  \E m \in lazyQueue[w] : b = Named(m, m.tensor)
      <3>1. ASSUME NEW v \in Worker, FetchLazy(v)
            PROVE  \E m \in lazyQueue[w] : b = Named(m, m.tensor)
        <4>1. PICK m \in lazyQueue[v] :
                received' = [received EXCEPT ![v] = @ \cup {[req |-> m.req, tensor |-> m.tensor]}]
          BY <3>1 DEF FetchLazy
        <4>2. CASE v = w
          BY <1>1, <2>3, <4>1, <4>2 DEF Named
        <4>3. CASE v # w
          BY <1>1, <2>3, <4>1, <4>3
        <4> QED
          BY <4>2, <4>3
      <3>2. ASSUME NEW v \in Worker, AcquireLazy(v)
            PROVE  FALSE
        <4>1. received'[v] \subseteq received[v]
              /\ \A u \in Worker \ {v} : received'[u] = received[u]
          BY <1>1, <3>2, LazyAcquired
        <4> QED
          BY <2>3, <4>1
      <3> QED
        BY <1>1, <2>3, <3>1, <3>2 DEF Footprint
    <2> QED
      BY <1>1, <2>1, <2>2, <2>3, SoundKept DEF StoresTold
  <1> QED
    BY <1>2, <1>3

\* A buffer an entry names is of a live request, before the step and after it.
LEMMA NamedStill ==
    ASSUME TasksPending, TasksPending', NEW w \in Worker, NEW e \in RunningAt(w),
           e \in RunningAt(w)', NEW t \in Tensor
    PROVE  Still(Named(e, t)) /\ e \in Entry
  <1>1. e \in EntriesAt(w) /\ e \in EntriesAt(w)'
    BY DEF EntriesAt
  <1>2. e \in Entry /\ Started(e.req) /\ phase'[e.req] = "live" /\ e.req \in Request
    BY <1>1, PendingLive, PendingLiveNext DEF TasksPending
  <1> QED
    BY <1>2 DEF Still, Named, Buffer

LEMMA StepGroups ==
    ASSUME FlowInv, TypeOK', InPlace', [Next]_vars
    PROVE  GroupsTold'
  <1>1. /\ TypeOK /\ CallsOnce /\ InPlace /\ GroupsTold /\ StoresTold /\ Kept
        /\ TasksPending /\ TasksPending'
    BY StepKeeps, TasksArePending, TasksArePendingNext DEF FlowInv, TaskInv
  <1>2. ASSUME NEW w \in Worker, StartGroup(w)
        PROVE  /\ \A e \in RunningAt(w)' :
                    /\ \A t \in e.lazy : Named(e, t) \in current'[w].lazy
                    /\ e.node \in Generator => \A t \in Outputs(e.node) :
                         Named(e, t) \in current'[w].yields
               /\ \A b \in current'[w].yields :
                    /\ Producer[b.tensor] \in Generator
                    /\ \E e \in RunningAt(w)' : TaskOf(e) = MakerOf(b)
    <2> DEFINE m == Head(taskQueue[w])
    <2>1. /\ current'[w].entries = m.entries
          /\ \A b : b \in current'[w].lazy <=>
               \E e \in ToSet(m.entries) : \E t \in e.lazy : b = Named(e, t)
          /\ \A b : b \in current'[w].yields <=>
               \E e \in ToSet(m.entries) : /\ e.node \in Generator
                                           /\ \E t \in Outputs(e.node) : b = Named(e, t)
      BY <1>1, <1>2, GroupStarts
    <2> HIDE DEF m
    <2>2. RunningAt(w)' = ToSet(m.entries)
      BY <2>1 DEF RunningAt
    <2>3. ASSUME NEW b \in current'[w].yields
          PROVE  /\ Producer[b.tensor] \in Generator
                 /\ \E e \in RunningAt(w)' : TaskOf(e) = MakerOf(b)
      <3>1. PICK e \in ToSet(m.entries) : e.node \in Generator /\ \E t \in Outputs(e.node) : b = Named(e, t)
        BY <2>1
      <3>2. PICK t \in Outputs(e.node) : b = Named(e, t)
        BY <3>1
      <3>3. b.tensor = t /\ b.req = e.req /\ Producer[t] = e.node
        BY <3>2 DEF Named, Outputs
      <3> QED
        BY <2>2, <3>1, <3>3 DEF TaskOf, MakerOf
    <2> QED
      BY <2>1, <2>2, <2>3
  <1>3. ASSUME NEW w \in Worker, current'[w] = current[w]
        PROVE  /\ \A e \in RunningAt(w)' :
                    /\ \A t \in e.lazy : Named(e, t) \in current'[w].lazy \cup AllTold(w)'
                    /\ e.node \in Generator => \A t \in Outputs(e.node) :
                         Named(e, t) \in current'[w].yields \cup AllTold(w)'
               /\ \A b \in current'[w].yields :
                    /\ Producer[b.tensor] \in Generator
                    /\ \E e \in RunningAt(w)' : TaskOf(e) = MakerOf(b)
    <2>1. RunningAt(w)' = RunningAt(w)
      BY <1>3 DEF RunningAt
    <2>2. ASSUME NEW e \in RunningAt(w), NEW t \in Tensor, Named(e, t) \in AllTold(w)
          PROVE  Named(e, t) \in AllTold(w)'
      BY <1>1, <2>1, <2>2, NamedStill, ToldKept
    <2>3. \A e \in RunningAt(w) : e.lazy \subseteq Tensor /\ Outputs(e.node) \subseteq Tensor
      BY <1>1, EntryTypes DEF TasksPending, EntriesAt
    <2> QED
      BY <1>1, <1>3, <2>1, <2>2, <2>3 DEF GroupsTold
  <1>4. ASSUME NEW w \in Worker, AcquireLazy(w)
        PROVE  /\ \A e \in RunningAt(w)' :
                    /\ \A t \in e.lazy : Named(e, t) \in current'[w].lazy \cup AllTold(w)'
                    /\ e.node \in Generator => \A t \in Outputs(e.node) :
                         Named(e, t) \in current'[w].yields \cup AllTold(w)'
               /\ \A b \in current'[w].yields :
                    /\ Producer[b.tensor] \in Generator
                    /\ \E e \in RunningAt(w)' : TaskOf(e) = MakerOf(b)
    <2>1. PICK b \in current[w].lazy :
             /\ b \in store[w] \/ b \in received[w]
             /\ current'[w].entries = current[w].entries
             /\ current'[w].yields = current[w].yields
             /\ current'[w].lazy = current[w].lazy \ {b}
      BY <1>1, <1>4, LazyAcquired
    <2>2. RunningAt(w)' = RunningAt(w)
      BY <2>1 DEF RunningAt
    <2>3. phase[b.req] = "live" => b \in AllTold(w)
      BY <1>1, <2>1 DEF StoresTold, Sound, AllTold, Ahead, KnownFrom
    <2>4. ASSUME NEW e \in RunningAt(w), NEW t \in Tensor,
                 Named(e, t) \in AllTold(w) \/ Named(e, t) = b
          PROVE  Named(e, t) \in AllTold(w)'
      <3>1. phase[e.req] = "live"
        BY <1>1, PendingLive DEF TasksPending, EntriesAt
      <3>2. Named(e, t) \in AllTold(w)
        BY <2>3, <2>4, <3>1 DEF Named
      <3> QED
        BY <1>1, <2>2, <3>2, NamedStill, ToldKept
    <2>5. \A e \in RunningAt(w) : e.lazy \subseteq Tensor /\ Outputs(e.node) \subseteq Tensor
      BY <1>1, EntryTypes DEF TasksPending, EntriesAt
    <2> QED
      BY <1>1, <2>1, <2>2, <2>4, <2>5 DEF GroupsTold
  <1>5. ASSUME NEW w \in Worker, YieldOutput(w)
        PROVE  /\ \A e \in RunningAt(w)' :
                    /\ \A t \in e.lazy : Named(e, t) \in current'[w].lazy \cup AllTold(w)'
                    /\ e.node \in Generator => \A t \in Outputs(e.node) :
                         Named(e, t) \in current'[w].yields \cup AllTold(w)'
               /\ \A b \in current'[w].yields :
                    /\ Producer[b.tensor] \in Generator
                    /\ \E e \in RunningAt(w)' : TaskOf(e) = MakerOf(b)
    <2>1. PICK buffers \in SUBSET current[w].yields :
             /\ current'[w].entries = current[w].entries
             /\ current'[w].lazy = current[w].lazy
             /\ current'[w].yields = current[w].yields \ buffers
             /\ resultQueue' = [resultQueue EXCEPT ![w] = Append(@,
                  [type |-> "tensor_batch_ready", buffers |-> buffers])]
      BY <1>1, <1>5, OutputYielded
    <2>2. RunningAt(w)' = RunningAt(w)
      BY <2>1 DEF RunningAt
    <2>3. resultQueue'[w] = Append(resultQueue[w],
            [type |-> "tensor_batch_ready", buffers |-> buffers])
      BY <1>1, <2>1 DEF TypeOK, CoordinatorTypeOK, ChannelTypeOK
    <2>4. ASSUME NEW b \in buffers PROVE b \in AllTold(w)'
      <3>1. b \in Announced([type |-> "tensor_batch_ready", buffers |-> buffers])
        BY DEF Announced
      <3> QED
        BY <1>1, <2>3, <3>1, NewlyTold
    <2>5. ASSUME NEW e \in RunningAt(w), NEW t \in Tensor, Named(e, t) \in AllTold(w)
          PROVE  Named(e, t) \in AllTold(w)'
      BY <1>1, <2>2, <2>5, NamedStill, ToldKept
    <2>6. \A e \in RunningAt(w) : e.lazy \subseteq Tensor /\ Outputs(e.node) \subseteq Tensor
      BY <1>1, EntryTypes DEF TasksPending, EntriesAt
    <2> QED
      BY <1>1, <2>1, <2>2, <2>4, <2>5, <2>6 DEF GroupsTold
  <1>6. ASSUME NEW w \in Worker, current'[w] = Idle
        PROVE  RunningAt(w)' = {} /\ current'[w].yields = {}
    BY <1>6 DEF RunningAt, Idle, ToSet
  <1> QED
    BY <1>1, <1>2, <1>3, <1>4, <1>5, <1>6, CurrentChanges DEF GroupsTold

\* A message of a result queue after a step: the new one, or one that was there.
LEMMA MessageOrigin ==
    ASSUME TypeOK, [Next]_vars, NEW w \in Worker, NEW i \in DOMAIN resultQueue'[w]
    PROVE  IF GatherTensorBatch(w) \/ GatherTaskComplete(w)
           THEN /\ i + 1 \in 1 .. Len(resultQueue[w])
                /\ resultQueue'[w][i] = resultQueue[w][i + 1]
           ELSE \/ i \in 1 .. Len(resultQueue[w]) /\ resultQueue'[w][i] = resultQueue[w][i]
                \/ i = Len(resultQueue[w]) + 1 /\ \E m : resultQueue'[w] = Append(resultQueue[w], m)
  <1> DEFINE q == resultQueue[w]
             Taken == GatherTensorBatch(w) \/ GatherTaskComplete(w)
  <1>1. q \in Seq(ResultMessage) /\ Len(q) \in Nat /\ DOMAIN q = 1 .. Len(q)
    BY LenProperties DEF TypeOK, CoordinatorTypeOK, ChannelTypeOK
  <1>2. CASE Taken
    <2>1. q # <<>> /\ resultQueue'[w] = Tail(q)
      <3>1. q # <<>> /\ resultQueue' = [resultQueue EXCEPT ![w] = Tail(@)]
        BY <1>2 DEF GatherTensorBatch, GatherTaskComplete, Gathers
      <3> QED
        BY <3>1 DEF TypeOK, CoordinatorTypeOK, ChannelTypeOK
    <2>2. /\ DOMAIN Tail(q) = 1 .. (Len(q) - 1)
          /\ \A h \in 1 .. (Len(q) - 1) : Tail(q)[h] = q[h + 1]
      BY <1>1, <2>1, HeadTailProperties, LenProperties
    <2>3. i \in 1 .. (Len(q) - 1)
      BY <2>1, <2>2
    <2>4. resultQueue'[w][i] = q[i + 1]
      BY <2>1, <2>2, <2>3
    <2>5. i + 1 \in 1 .. Len(q)
      BY <1>1, <2>3
    <2> QED
      BY <1>2, <2>4, <2>5
  <1>3. CASE ~Taken /\ resultQueue'[w] = q
    BY <1>1, <1>3
  <1>4. ASSUME ~Taken, NEW m, resultQueue'[w] = Append(q, m)
        PROVE  \/ i \in 1 .. Len(q) /\ resultQueue'[w][i] = q[i]
               \/ i = Len(q) + 1
    <2>1. DOMAIN Append(q, m) = 1 .. (Len(q) + 1) /\ \A h \in 1 .. Len(q) : Append(q, m)[h] = q[h]
      BY <1>1
    <2>2. i \in 1 .. (Len(q) + 1)
      BY <1>4, <2>1
    <2>3. i \in 1 .. Len(q) \/ i = Len(q) + 1
      BY <1>1, <2>2
    <2> QED
      BY <1>4, <2>1, <2>3
  <1> QED
    BY <1>2, <1>3, <1>4, ResultQueueChanges

\* The completion of a task stays behind an earlier result.
LEMMA BehindKept ==
    ASSUME TypeOK, [Next]_vars, NEW w \in Worker, NEW x,
           NEW i \in 1 .. Len(resultQueue[w]), Behind(x, w, i)
    PROVE  IF GatherTensorBatch(w) \/ GatherTaskComplete(w)
           THEN Behind(x, w, i - 1)' ELSE Behind(x, w, i)'
  <1> DEFINE q == resultQueue[w]
             Taken == GatherTensorBatch(w) \/ GatherTaskComplete(w)
  <1>1. /\ q \in Seq(ResultMessage) /\ Len(q) \in Nat /\ DOMAIN q = 1 .. Len(q)
        /\ i \in Nat /\ i <= Len(q)
    BY LenProperties DEF TypeOK, CoordinatorTypeOK, ChannelTypeOK
  <1>2. ASSUME Taken
        PROVE  /\ q # <<>> /\ resultQueue'[w] = Tail(q) /\ DOMAIN Tail(q) = 1 .. (Len(q) - 1)
               /\ \A h \in 1 .. (Len(q) - 1) : Tail(q)[h] = q[h + 1]
    <2>1. q # <<>> /\ resultQueue' = [resultQueue EXCEPT ![w] = Tail(@)]
      BY <1>2 DEF GatherTensorBatch, GatherTaskComplete, Gathers
    <2>2. resultQueue'[w] = Tail(q)
      BY <2>1 DEF TypeOK, CoordinatorTypeOK, ChannelTypeOK
    <2>3. /\ DOMAIN Tail(q) = 1 .. (Len(q) - 1)
          /\ \A h \in 1 .. (Len(q) - 1) : Tail(q)[h] = q[h + 1]
      BY <1>1, <2>1, HeadTailProperties, LenProperties
    <2> QED
      BY <2>1, <2>2, <2>3
  <1>3. ASSUME NEW k \in DOMAIN q, k > i, q[k].type = "task_complete",
               \E res \in ToSet(q[k].data) : TaskOf(res) = x
        PROVE  IF Taken THEN Behind(x, w, i - 1)' ELSE Behind(x, w, i)'
    <2>1. CASE Taken
      <3>1. k - 1 \in 1 .. (Len(q) - 1) /\ k - 1 > i - 1 /\ (k - 1) + 1 = k
        BY <1>1, <1>3
      <3>2. resultQueue'[w][k - 1] = q[k] /\ k - 1 \in DOMAIN resultQueue'[w]
        BY <1>2, <2>1, <3>1
      <3> QED
        BY <1>3, <2>1, <3>1, <3>2 DEF Behind
    <2>2. CASE ~Taken
      <3>1. resultQueue'[w][k] = q[k] /\ k \in DOMAIN resultQueue'[w]
        <4>1. \A m : Append(q, m)[k] = q[k] /\ k \in DOMAIN Append(q, m)
          BY <1>1, <1>3
        <4> QED
          BY <2>2, <4>1, ResultQueueChanges
      <3> QED
        BY <1>3, <2>2, <3>1 DEF Behind
    <2> QED
      BY <2>1, <2>2
  <1>4. ASSUME NEW e \in RunningAt(w), TaskOf(e) = x
        PROVE  IF Taken THEN Behind(x, w, i - 1)' ELSE Behind(x, w, i)'
    <2>1. CASE current'[w].entries = current[w].entries
      BY <1>4, <2>1 DEF Behind, RunningAt
    <2>2. CASE CompleteGroup(w)
      <3>1. resultQueue'[w] = Append(q, Completion(w))
        BY <2>2, GroupCompletes DEF TypeOK, CoordinatorTypeOK, ChannelTypeOK
      <3>2. ~Taken
        <4>1. DOMAIN Append(q, Completion(w)) = 1 .. (Len(q) + 1)
          BY <1>1
        <4>2. Len(q) + 1 \in 1 .. (Len(q) + 1) /\ Len(q) + 1 \notin 1 .. (Len(q) - 1)
          BY <1>1
        <4> QED
          BY <1>2, <3>1, <4>1, <4>2
      <3>3. PICK k \in Nat : k = Len(q) + 1
        BY <1>1
      <3>4. resultQueue'[w][k] = Completion(w) /\ k \in DOMAIN resultQueue'[w] /\ k > i
        BY <1>1, <3>1, <3>3
      <3>5. \E res \in ToSet(Completion(w).data) : TaskOf(res) = x
        <4>1. PICK j \in DOMAIN current[w].entries : e = current[w].entries[j]
          BY <1>4 DEF RunningAt, ToSet
        <4> DEFINE res == [req |-> e.req, node |-> e.node, tensors |-> Reported(e, w)]
        <4>2. res \in ToSet(Completion(w).data) /\ TaskOf(res) = x
          BY <1>4, <4>1 DEF Completion, ToSet, TaskOf
        <4> QED
          BY <4>2
      <3>6. Completion(w).type = "task_complete"
        BY DEF Completion
      <3> QED
        BY <3>2, <3>4, <3>5, <3>6 DEF Behind
    <2>3. CASE StartGroup(w)
      <3>1. current[w].entries = <<>>
        BY <2>3, GroupStarts
      <3> QED
        BY <1>4, <3>1 DEF RunningAt, ToSet
    <2> QED
      BY <2>1, <2>2, <2>3, CurrentChanges
  <1> QED
    BY <1>3, <1>4 DEF Behind

\* A buffer of a result or entry whose task is pending before and after a step.
LEMMA ResultStill ==
    \A x \in Response : TaskOf(x) \in Pending /\ TaskOf(x) \in Pending' =>
        \A t \in Tensor : Still(Named(x, t))
  <1> SUFFICES ASSUME NEW x \in Response, TaskOf(x) \in Pending, TaskOf(x) \in Pending',
                      NEW t \in Tensor
               PROVE  Still(Named(x, t))
    OBVIOUS
  <1>1. x.req \in Request /\ Started(x.req) /\ phase'[x.req] = "live"
    BY PendingLive, PendingLiveNext
  <1> QED
    BY <1>1 DEF Still, Named, Buffer

LEMMA ExplainedBy ==
    ASSUME NEW x \in Response, NEW S, NEW T, Explained(x, S),
           \A t \in Tensor : Named(x, t) \in S => Named(x, t) \in T
    PROVE  Explained(x, T)
  <1>1. Inputs[x.node] \cup Outputs(x.node) \cup x.tensors \subseteq Tensor
    BY WorkflowAssumption DEF Response, Outputs
  <1> QED
    BY <1>1 DEF Explained

LEMMA StepRest ==
    ASSUME FlowInv, TypeOK', InPlace', [Next]_vars, NEW res \in ToSet(results'.rest)
    PROVE  Explained(res, Known')
  <1>1. /\ TypeOK /\ CallsOnce /\ InPlace /\ ResultsTold /\ Kept /\ Footprint
        /\ TasksPending /\ TasksPending'
    BY StepKeeps, Footprints, TasksArePending, TasksArePendingNext DEF FlowInv, TaskInv
  <1>2. res \in Response /\ TaskOf(res) \in Pending'
    BY <1>1 DEF TasksPending
  <1>3. CASE res \in ToSet(results.rest)
    <2>1. TaskOf(res) \in Pending /\ Explained(res, Known)
      BY <1>1, <1>3 DEF TasksPending, ResultsTold
    <2>2. \A t \in Tensor : Named(res, t) \in Known => Named(res, t) \in Known'
      BY <1>1, <1>2, <2>1, ResultStill, KnownKept
    <2> QED
      BY <1>2, <2>1, <2>2, ExplainedBy
  <1>4. ASSUME NEW w \in Worker, GatherTaskComplete(w)
        PROVE  Explained(res, Known')
    <2> DEFINE q == resultQueue[w]
    <2>1. /\ Head(q).type = "task_complete" /\ results.rest = <<>>
          /\ res \in ToSet(Head(q).data) /\ Known' = Known
      <3>1. /\ Head(q).type = "task_complete" /\ results.rest = <<>>
            /\ results' = [from |-> w, rest |-> Head(q).data] /\ tensorMap' = tensorMap
        BY <1>1, <1>4, TakenCompletion
      <3>2. res \in ToSet(Head(q).data)
        BY <3>1
      <3>3. Known' = Known
        BY <3>1 DEF Known, Available
      <3> QED
        BY <3>1, <3>2, <3>3
    <2>2. 1 \in DOMAIN q /\ q[1] = Head(q)
      <3>1. q \in Seq(ResultMessage) /\ q # <<>>
        BY <1>1, <1>4 DEF GatherTaskComplete, Gathers, TypeOK, CoordinatorTypeOK, ChannelTypeOK
      <3> QED
        BY <3>1, HeadTailProperties, LenProperties, EmptySeq
    <2>3. MessageOK(w, 1)
      BY <1>1, <2>2 DEF ResultsTold
    <2>4. Explained(res, Ahead(w, 1))
      BY <2>1, <2>2, <2>3 DEF MessageOK
    <2>5. Ahead(w, 1) = Known
      <3>1. 1 .. (1 - 1) = {}
        OBVIOUS
      <3> QED
        BY <2>1, <3>1, NothingTold DEF Ahead, KnownFrom
    <2> QED
      BY <2>1, <2>4, <2>5
  <1>5. CASE GatherTask
    <2>1. /\ results'.rest = Tail(results.rest) /\ results.rest \in Seq(Response)
          /\ results.rest # <<>>
      BY <1>1, <1>5, HandledResult DEF TypeOK, CoordinatorTypeOK, ResultsTypeOK
    <2>2. ToSet(Tail(results.rest)) \subseteq ToSet(results.rest)
      BY <2>1, Elements
    <2> QED
      BY <1>3, <2>1, <2>2
  <1>6. ASSUME NEW v \in Worker, GatherTensorBatch(v) \/ YieldOutput(v) \/ CompleteGroup(v)
        PROVE  UNCHANGED results
    BY <1>1, <1>6, TakenBatch, OutputYielded, GroupCompletes DEF coordinatorSide
  <1> QED
    BY <1>1, <1>3, <1>4, <1>5, <1>6 DEF Footprint

\* A result that was already there.
LEMMA OldMessage ==
    ASSUME FlowInv, TypeOK', InPlace', [Next]_vars, NEW w \in Worker,
           NEW i \in 1 .. Len(resultQueue[w]), NEW j \in DOMAIN resultQueue'[w],
           resultQueue'[w][j] = resultQueue[w][i],
           IF GatherTensorBatch(w) \/ GatherTaskComplete(w) THEN i - 1 = j ELSE i = j
    PROVE  MessageOK(w, j)'
  <1> DEFINE m == resultQueue[w][i]
  <1>1. /\ TypeOK /\ CallsOnce /\ InPlace /\ ResultsTold /\ Kept
        /\ TasksPending /\ TasksPending'
    BY StepKeeps, TasksArePending, TasksArePendingNext DEF FlowInv, TaskInv
  <1>2. i \in DOMAIN resultQueue[w] /\ MessageOK(w, i)
    <2>1. i \in DOMAIN resultQueue[w]
      BY <1>1, LenProperties DEF TypeOK, CoordinatorTypeOK, ChannelTypeOK
    <2> QED
      BY <1>1, <2>1 DEF ResultsTold
  <1>3. i \in 1 .. (Len(resultQueue[w]) + 1)
    BY <1>1, LenProperties DEF TypeOK, CoordinatorTypeOK, ChannelTypeOK
  <1>4. CASE m.type = "task_complete"
    <2>1. ASSUME NEW res \in ToSet(m.data)
          PROVE  Explained(res, Ahead(w, j)')
      <3>1. res \in Response /\ TaskOf(res) \in Pending /\ TaskOf(res) \in Pending'
        BY <1>1, <1>2, <1>4 DEF TasksPending
      <3>2. Explained(res, Ahead(w, i))
        BY <1>2, <1>4 DEF MessageOK
      <3>3. ASSUME NEW t \in Tensor, Named(res, t) \in Ahead(w, i)
            PROVE  Named(res, t) \in Ahead(w, j)'
        <4>1. Still(Named(res, t))
          BY <3>1, ResultStill
        <4>2. IF GatherTensorBatch(w) \/ GatherTaskComplete(w)
              THEN Named(res, t) \in Ahead(w, i - 1)' ELSE Named(res, t) \in Ahead(w, i)'
          BY <1>1, <1>3, <3>3, <4>1, AheadKept
        <4> QED
          BY <4>2
      <3> HIDE DEF m
      <3> QED
        BY <3>1, <3>2, <3>3, ExplainedBy
    <2> QED
      BY <1>4, <2>1 DEF MessageOK
  <1>5. CASE m.type # "task_complete"
    <2>1. ASSUME NEW b \in m.buffers
          PROVE  Producer[b.tensor] \in Generator /\ Behind(MakerOf(b), w, j)'
      <3>1. Producer[b.tensor] \in Generator /\ Behind(MakerOf(b), w, i)
        BY <1>2, <1>5 DEF MessageOK
      <3>2. IF GatherTensorBatch(w) \/ GatherTaskComplete(w)
            THEN Behind(MakerOf(b), w, i - 1)' ELSE Behind(MakerOf(b), w, i)'
        BY <1>1, <3>1, BehindKept
      <3> QED
        BY <3>1, <3>2
    <2> QED
      BY <1>5, <2>1 DEF MessageOK
  <1> QED
    BY <1>4, <1>5

\* The result a worker sends in this step.
LEMMA NewMessage ==
    ASSUME FlowInv, TypeOK', InPlace', [Next]_vars, NEW w \in Worker, NEW j \in DOMAIN resultQueue'[w],
           j = Len(resultQueue[w]) + 1, ~(GatherTensorBatch(w) \/ GatherTaskComplete(w)),
           \E m : resultQueue'[w] = Append(resultQueue[w], m)
    PROVE  MessageOK(w, j)'
  <1> DEFINE q == resultQueue[w]
  <1>1. /\ TypeOK /\ CallsOnce /\ InPlace /\ EntriesFed /\ GroupsTold /\ Kept
        /\ TasksPending /\ TasksPending'
    BY StepKeeps, TasksArePending, TasksArePendingNext DEF FlowInv, TaskInv
  <1>2. q \in Seq(ResultMessage) /\ Len(q) \in Nat /\ DOMAIN q = 1 .. Len(q)
    BY <1>1, LenProperties DEF TypeOK, CoordinatorTypeOK, ChannelTypeOK
  <1>3. \A m : Append(q, m)[j] = m /\ Append(q, m) # q
    <2>1. \A m : Append(q, m)[j] = m /\ Len(Append(q, m)) = Len(q) + 1
      BY <1>2
    <2> QED
      BY <1>2, <2>1
  <1>4. ASSUME NEW buffers \in SUBSET current[w].yields, YieldOutput(w),
               resultQueue'[w] = Append(q, [type |-> "tensor_batch_ready", buffers |-> buffers])
        PROVE  MessageOK(w, j)'
    <2>1. resultQueue'[w][j] = [type |-> "tensor_batch_ready", buffers |-> buffers]
      BY <1>3, <1>4
    <2>2. RunningAt(w)' = RunningAt(w)
      BY <1>1, <1>4, OutputYielded DEF RunningAt
    <2>3. ASSUME NEW b \in buffers
          PROVE  Producer[b.tensor] \in Generator /\ Behind(MakerOf(b), w, j)'
      <3>1. Producer[b.tensor] \in Generator /\ \E e \in RunningAt(w) : TaskOf(e) = MakerOf(b)
        BY <1>1 DEF GroupsTold
      <3> QED
        BY <2>2, <3>1 DEF Behind
    <2> QED
      BY <2>1, <2>3 DEF MessageOK
  <1>5. ASSUME CompleteGroup(w), resultQueue'[w] = Append(q, Completion(w))
        PROVE  MessageOK(w, j)'
    <2>1. resultQueue'[w][j] = Completion(w) /\ Completion(w).type = "task_complete"
      BY <1>3, <1>5 DEF Completion
    <2>2. current[w].lazy = {} /\ current[w].yields = {}
      BY <1>1, <1>5, GroupCompletes
    <2>3. ASSUME NEW res \in ToSet(Completion(w).data)
          PROVE  Explained(res, Ahead(w, j)')
      <3>1. PICK e \in RunningAt(w) :
              res = [req |-> e.req, node |-> e.node, tensors |-> Reported(e, w)]
        BY DEF Completion, ToSet, RunningAt
      <3>2. e \in EntriesAt(w) /\ e \in Entry /\ EntryOK(e)
        BY <1>1 DEF EntriesAt, EntriesFed, TasksPending
      <3>3. /\ res \in Response /\ TaskOf(res) \in Pending' /\ TaskOf(res) \in Pending
        <4>1. res \in Response /\ TaskOf(res) \in Pending'
          BY <1>1, <2>1 DEF TasksPending
        <4>2. TaskOf(res) = TaskOf(e)
          BY <3>1 DEF TaskOf
        <4> QED
          BY <1>1, <3>2, <4>1, <4>2 DEF TasksPending
      <3>4. ASSUME NEW t \in Tensor, Named(res, t) \in AllTold(w)
            PROVE  Named(res, t) \in Ahead(w, j)'
        <4>1. Still(Named(res, t))
          BY <3>3, ResultStill
        <4>2. j \in 1 .. (Len(q) + 1) /\ Named(res, t) \in Ahead(w, j)
          BY <1>2, <3>4 DEF AllTold
        <4> QED
          BY <1>1, <4>1, <4>2, AheadKept
      <3>5. Known \subseteq AllTold(w) /\ \A t : Named(res, t) = Named(e, t)
        BY <3>1 DEF AllTold, Ahead, KnownFrom, Named
      <3>6. ASSUME NEW t \in Tensor, e.at[t] # {} \/ t \in e.lazy
            PROVE  Named(res, t) \in AllTold(w)
        <4>1. CASE e.at[t] # {}
          <5>1. Available(e.req, t) /\ e.req \in Request
            BY <3>2, <4>1 DEF EntryOK, Entry
          <5> QED
            BY <3>5, <5>1 DEF Known, Named, Buffer
        <4>2. CASE t \in e.lazy
          BY <1>1, <2>2, <3>5, <4>2 DEF GroupsTold
        <4> QED
          BY <3>6, <4>1, <4>2
      <3>7. ASSUME NEW t \in Outputs(e.node)
            PROVE  Named(res, t) \in AllTold(w) \/ t \in res.tensors
        <4>1. CASE e.node \in Generator
          BY <1>1, <2>2, <3>5, <4>1 DEF GroupsTold
        <4>2. CASE e.node \notin Generator
          BY <3>1, <4>2 DEF Reported, LateOutputs
        <4> QED
          BY <4>1, <4>2
      <3>8. ASSUME NEW t \in Inputs[e.node] \cup Outputs(e.node) \cup Reported(e, w)
            PROVE  /\ t \in Inputs[e.node] => Named(res, t) \in Ahead(w, j)'
                   /\ Named(res, t) \in Ahead(w, j)' \/ t \in res.tensors \cap Outputs(e.node)
        <4>1. t \in Tensor
          BY <3>2, WorkflowAssumption DEF Outputs, Reported, Remote, LateOutputs, Entry
        <4>2. CASE t \in Inputs[e.node]
          BY <3>2, <3>4, <3>6, <4>1, <4>2 DEF EntryOK
        <4>3. CASE t \in Outputs(e.node) /\ t \notin Inputs[e.node]
          BY <3>4, <3>7, <4>1, <4>3
        <4>4. CASE t \in Reported(e, w) /\ t \notin Outputs(e.node) /\ t \notin Inputs[e.node]
          <5>1. e.at[t] # {} \/ t \in e.lazy
            BY <4>4 DEF Reported, LateOutputs, Remote
          <5> QED
            BY <3>4, <3>6, <4>1, <5>1
        <4> QED
          BY <3>8, <4>2, <4>3, <4>4
      <3> QED
        BY <3>1, <3>8 DEF Explained
    <2> QED
      BY <2>1, <2>3 DEF MessageOK
  <1> QED
    BY <1>1, <1>3, <1>4, <1>5, ResultQueueChanges

LEMMA StepResults ==
    ASSUME FlowInv, TypeOK', InPlace', [Next]_vars
    PROVE  ResultsTold'
  <1>1. TypeOK
    BY DEF FlowInv, TaskInv
  <1>2. ASSUME NEW w \in Worker, NEW j \in DOMAIN resultQueue'[w]
        PROVE  MessageOK(w, j)'
    <2>1. resultQueue'[w] \in Seq(ResultMessage) /\ j \in Nat
      <3>1. resultQueue'[w] \in Seq(ResultMessage)
        BY DEF TypeOK, CoordinatorTypeOK, ChannelTypeOK
      <3> QED
        BY <3>1, LenProperties
    <2>2. CASE GatherTensorBatch(w) \/ GatherTaskComplete(w)
      <3>1. PICK i \in Nat : i = j + 1
        BY <2>1
      <3>2. i \in 1 .. Len(resultQueue[w]) /\ resultQueue'[w][j] = resultQueue[w][i] /\ i - 1 = j
        BY <1>1, <2>1, <2>2, <3>1, MessageOrigin
      <3> QED
        BY <2>2, <3>2, OldMessage
    <2>3. CASE /\ ~(GatherTensorBatch(w) \/ GatherTaskComplete(w))
               /\ j \in 1 .. Len(resultQueue[w]) /\ resultQueue'[w][j] = resultQueue[w][j]
      BY <2>3, OldMessage
    <2>4. CASE /\ ~(GatherTensorBatch(w) \/ GatherTaskComplete(w))
               /\ j = Len(resultQueue[w]) + 1
               /\ \E m : resultQueue'[w] = Append(resultQueue[w], m)
      BY <2>4, NewMessage
    <2> QED
      BY <1>1, <2>2, <2>3, <2>4, MessageOrigin
  <1> QED
    BY <1>2, StepRest DEF ResultsTold

LEMMA StepFlow ==
    ASSUME FlowInv, [Next]_vars
    PROVE  FlowInv'
  <1>1. TaskInv'
    BY StepTasks DEF FlowInv
  <1>2. TypeOK' /\ InPlace'
    BY <1>1 DEF TaskInv
  <1>3. NodesFed' /\ EntriesFed' /\ NoticesTold' /\ GroupsTold' /\ ResultsTold'
    BY <1>2, StepNodes, StepEntries, StepNotices, StepGroups, StepResults
  <1>4. StoresTold'
    <2>1. \A w \in Worker : \A b \in store'[w] :
            Started(b.req)' /\ (phase'[b.req] = "live" => b \in AllTold(w)')
      <3> SUFFICES ASSUME NEW w \in Worker, NEW b \in store'[w]
                   PROVE  Started(b.req)' /\ (phase'[b.req] = "live" => b \in AllTold(w)')
        OBVIOUS
      <3>1. Started(b.req) /\ (phase'[b.req] = "live" => b \in AllTold(w)')
        BY <1>2, StepStores
      <3>2. TypeOK /\ CallsOnce /\ InPlace /\ b.req \in Request
        BY <1>2 DEF FlowInv, TaskInv, TypeOK, WorkerTypeOK, Buffer
      <3> QED
        BY <3>1, <3>2, StepKeeps DEF Kept
    <2>2. \A w \in Worker : /\ \A b \in received'[w] : Sound(b)'
                            /\ \A m \in lazyQueue'[w] : Sound(Named(m, m.tensor))'
      BY <1>2, StepArrivals
    <2> QED
      BY <2>1, <2>2 DEF StoresTold
  <1> QED
    BY <1>1, <1>3, <1>4 DEF FlowInv

LEMMA InitFlow == Init => FlowInv
  <1> SUFFICES ASSUME Init
               PROVE  FlowInv
    OBVIOUS
  <1>1. TaskInv
    BY InitTasks
  <1>2. /\ \A r \in Request : phase[r] = "new" /\ completedNodes[r] = {}
        /\ \A w \in Worker : /\ taskQueue[w] = <<>> /\ current[w] = Idle /\ store[w] = {}
                             /\ received[w] = {} /\ lazyQueue[w] = {}
                             /\ resultQueue[w] = <<>>
        /\ results.rest = <<>>
        /\ ready = <<[cb |-> "scheduler"], [cb |-> "gather"]>>
    BY DEF Init, CoordinatorInit, WorkerInit
  <1>3. NodesFed
    BY <1>2 DEF NodesFed
  <1>4. \A w \in Worker : RunningAt(w) = {} /\ EntriesAt(w) = {}
    BY <1>2 DEF RunningAt, EntriesAt, ToSet, Idle
  <1>5. EntriesFed /\ StoresTold /\ GroupsTold
    BY <1>2, <1>4 DEF EntriesFed, StoresTold, GroupsTold, Idle
  <1>6. NoticesTold
    BY <1>2 DEF NoticesTold, ToSet
  <1>7. ResultsTold
    BY <1>2 DEF ResultsTold, ToSet
  <1> QED
    BY <1>1, <1>3, <1>5, <1>6, <1>7 DEF FlowInv

-----------------------------------------------------------------------------
(* What the invariant says of the runs' properties *)

LEMMA FlowFeeds ==
    ASSUME FlowInv
    PROVE  ScheduledNodesHaveInputs
  <1>1. NodesFed /\ TypeOK
    BY DEF FlowInv, TaskInv
  <1> SUFFICES ASSUME NEW r \in Request, phase[r] = "live", NEW n \in Node,
                      n \in scheduledNodes[r], NEW t \in EagerInputs(n)
               PROVE  Available(r, t)
    BY <1>1 DEF ScheduledNodesHaveInputs, NodesFed
  <1>2. Producer[t] \in completedNodes[r]
    BY <1>1, EagerInputsAwaited DEF NodesFed
  <1>3. t \in Outputs(Producer[t])
    BY WorkflowAssumption DEF EagerInputs, Outputs
  <1> QED
    BY <1>1, <1>2, <1>3 DEF NodesFed

\* What the coordinator knows of a request's tensors, for the abstract service.
KnownTensors == [r \in Request |-> { t \in Tensor : Available(r, t) }]

LEMMA ServiceStarts == Init => Service!ServiceInit
  <1> SUFFICES ASSUME Init
               PROVE  Service!ServiceInit
    OBVIOUS
  <1>1. /\ phase = [r \in Request |-> "new"] /\ completedNodes = [r \in Request |-> {}]
        /\ tensorMap = [r \in Request |-> NoTensors]
    BY DEF Init, CoordinatorInit
  <1>2. \A r \in Request, t \in Tensor : ~Available(r, t)
    BY <1>1 DEF Available, NoTensors
  <1> QED
    BY <1>1, <1>2 DEF Service!ServiceInit

\* A pending task may run, by the abstract service.
LEMMA PendingMayRun ==
    ASSUME NodesFed, NEW r \in Request, NEW n \in Node, [req |-> r, node |-> n] \in Pending
    PROVE  Service!MayRun(r, n)
  <1>1. phase[r] = "live" /\ n \in scheduledNodes[r] /\ n \notin completedNodes[r]
    BY DEF Pending
  <1>2. NonLazyPrerequisites(n) \subseteq completedNodes[r]
    BY <1>1 DEF NodesFed
  <1> QED
    BY <1>1, <1>2 DEF Service!MayRun, Service!NonLazyPrerequisites, Service!Prerequisites,
                      Service!LazyPrerequisites, NonLazyPrerequisites, Prerequisites,
                      LazyPrerequisites

LEMMA AcceptStep ==
    ASSUME TypeOK, Accepts
    PROVE  Service!ServiceNext \/ UNCHANGED <<phase, completedNodes, KnownTensors>>
  <1>1. PICK requests \in SUBSET Request :
          /\ \A r \in requests : phase[r] = "new"
          /\ phase' = [r \in Request |-> IF r \in requests THEN "starting" ELSE phase[r]]
          /\ UNCHANGED <<completedNodes, tensorMap>>
    BY DEF Accepts, LoopIteration, tensorVars
  <1>2. UNCHANGED <<completedNodes, KnownTensors>>
    BY <1>1 DEF KnownTensors, Available
  <1>3. CASE requests = {}
    <2>1. phase' = phase
      BY <1>1, <1>3 DEF TypeOK, CoordinatorTypeOK, RequestTypeOK
    <2> QED
      BY <1>2, <2>1
  <1>4. CASE requests # {}
    <2>1. Service!Accept(requests)
      BY <1>1, <1>2, <1>4 DEF Service!Accept, KnownTensors
    <2> QED
      BY <2>1 DEF Service!ServiceNext
  <1> QED
    BY <1>3, <1>4

LEMMA StartStep ==
    ASSUME TypeOK, CallsOnce, StartRequest
    PROVE  Service!ServiceNext
  <1> DEFINE r == Head(ready).req
  <1>1. r \in Request /\ phase[r] = "starting"
    BY StartedRequest
  <1>2. /\ phase' = [phase EXCEPT ![r] = "live"]
        /\ UNCHANGED <<completedNodes, tensorMap>>
    BY DEF StartRequest
  <1>3. UNCHANGED <<completedNodes, KnownTensors>>
    BY <1>2 DEF KnownTensors, Available
  <1>4. Service!Start(r)
    BY <1>1, <1>2, <1>3 DEF Service!Start, KnownTensors
  <1> QED
    BY <1>1, <1>4 DEF Service!ServiceNext

LEMMA ReturnStep ==
    ASSUME TypeOK, CallsOnce, FinishRequest
    PROVE  Service!ServiceNext
  <1>1. PICK r \in Request :
        /\ r = Head(ready).req /\ phase[r] = "live" /\ completedNodes[r] = Node
        /\ tensorMap'[r] = NoTensors /\ \A q \in Request \ {r} : tensorMap'[q] = tensorMap[q]
    BY FinishedRequest
  <1>2. /\ phase' = [phase EXCEPT ![r] = "done"]
        /\ completedNodes' = [completedNodes EXCEPT ![r] = {}]
    BY <1>1 DEF FinishRequest
  <1>3. KnownTensors' = [KnownTensors EXCEPT ![r] = {}]
    <2>1. { t \in Tensor : Available(r, t)' } = {}
      BY <1>1 DEF Available, NoTensors
    <2>2. \A q \in Request \ {r} : \A t \in Tensor : Available(q, t)' <=> Available(q, t)
      BY <1>1 DEF Available
    <2> QED
      BY <2>1, <2>2 DEF KnownTensors
  <1>4. Service!Return(r)
    BY <1>1, <1>2, <1>3 DEF Service!Return, KnownTensors
  <1> QED
    BY <1>1, <1>4 DEF Service!ServiceNext

LEMMA AnnounceStep ==
    ASSUME FlowInv, NEW w \in Worker, GatherTensorBatch(w)
    PROVE  Service!ServiceNext
  <1>1. TypeOK /\ InPlace /\ ResultsTold /\ NodesFed
    BY DEF FlowInv, TaskInv
  <1> DEFINE buffers == Head(resultQueue[w]).buffers
             early == [r \in Request |-> { t \in Tensor : [req |-> r, tensor |-> t] \in buffers }]
  <1>2. \A r \in Request, t \in Tensor : tensorMap'[r][t] =
          IF [req |-> r, tensor |-> t] \in buffers THEN tensorMap[r][t] \cup {w}
                                                   ELSE tensorMap[r][t]
    BY <1>1, TakenBatch
  <1>3. ASSUME NEW r \in Request, NEW t \in early[r]
        PROVE  Producer[t] \in Generator /\ Service!MayRun(r, Producer[t])
    <2> DEFINE b == [req |-> r, tensor |-> t]
    <2>1. b \in buffers /\ t \in Tensor
      OBVIOUS
    <2>2. Producer[b.tensor] \in Generator /\ MakerOf(b) \in Pending
      BY <1>1, <2>1, EarlyOutput
    <2>3. Producer[t] \in Generator /\ [req |-> r, node |-> Producer[t]] \in Pending
      BY <2>2 DEF MakerOf
    <2>4. Producer[t] \in Node
      BY <2>1, WorkflowAssumption
    <2> QED
      BY <1>1, <2>3, <2>4, PendingMayRun
  <1>4. KnownTensors' = [r \in Request |-> KnownTensors[r] \cup early[r]]
    <2>1. \A r \in Request, t \in Tensor :
            Available(r, t)' <=> Available(r, t) \/ [req |-> r, tensor |-> t] \in buffers
      BY <1>2 DEF Available
    <2> HIDE DEF buffers
    <2> QED
      BY <2>1 DEF KnownTensors
  <1>5. UNCHANGED <<phase, completedNodes>>
    BY DEF GatherTensorBatch, requestVars
  <1>6. early \in [Request -> SUBSET Tensor]
    OBVIOUS
  <1>7. Service!Announce(early)
    <2> HIDE DEF early
    <2> QED
      BY <1>3, <1>4, <1>5 DEF Service!Announce, KnownTensors
  <1> QED
    BY <1>6, <1>7 DEF Service!ServiceNext

LEMMA CompleteStep ==
    ASSUME FlowInv, GatherTask
    PROVE  Service!ServiceNext
  <1>1. TypeOK /\ InPlace /\ ResultsTold /\ NodesFed
    BY DEF FlowInv, TaskInv
  <1> DEFINE res == Head(results.rest)
  <1>2. PICK r \in Request, n \in Node :
        /\ r = res.req /\ n = res.node /\ res \in Response /\ res \in ToSet(results.rest)
        /\ TaskOf(res) \in Pending /\ phase' = phase
        /\ \A t \in Tensor : tensorMap'[r][t] =
             IF t \in res.tensors THEN tensorMap[r][t] \cup {results.from}
                                  ELSE tensorMap[r][t]
        /\ \A q \in Request \ {r} : tensorMap'[q] = tensorMap[q]
    BY <1>1, HandledResult
  <1>3. completedNodes' = [completedNodes EXCEPT ![r] = @ \cup {n}]
    BY <1>2 DEF GatherTask
  <1>4. Service!MayRun(r, n)
    BY <1>1, <1>2, PendingMayRun DEF TaskOf
  <1>5. Explained(res, Known)
    BY <1>1, <1>2 DEF ResultsTold
  <1> HIDE DEF res
  <1>6. /\ \A t \in Inputs[n] : Available(r, t)
        /\ \A t \in Outputs(n) \cup res.tensors :
             Available(r, t) \/ t \in res.tensors \cap Outputs(n)
    BY <1>2, <1>5 DEF Explained, Known, Named
  <1>7. res.tensors \subseteq Tensor /\ Outputs(n) \subseteq Tensor /\ Inputs[n] \subseteq Tensor
    BY <1>2, WorkflowAssumption DEF Response, Outputs
  <1>8. \A t \in Tensor : Available(r, t)' <=> Available(r, t) \/ t \in Outputs(n)
    <2>1. \A t \in Tensor : Available(r, t)' <=> Available(r, t) \/ t \in res.tensors
      BY <1>2 DEF Available
    <2> QED
      BY <1>6, <2>1
  <1>9. Service!Outputs(n) = Outputs(n)
    BY DEF Service!Outputs, Outputs
  <1>10. KnownTensors' = [KnownTensors EXCEPT ![r] = @ \cup Service!Outputs(n)]
    <2>1. { t \in Tensor : Available(r, t)' } = { t \in Tensor : Available(r, t) } \cup Outputs(n)
      BY <1>7, <1>8
    <2>2. \A q \in Request \ {r} : \A t \in Tensor : Available(q, t)' <=> Available(q, t)
      BY <1>2 DEF Available
    <2>3. KnownTensors'[r] = KnownTensors[r] \cup Service!Outputs(n)
      BY <1>9, <2>1 DEF KnownTensors
    <2>4. \A q \in Request \ {r} : KnownTensors'[q] = KnownTensors[q]
      BY <2>2 DEF KnownTensors
    <2>5. /\ KnownTensors = [q \in Request |-> KnownTensors[q]]
          /\ KnownTensors' = [q \in Request |-> KnownTensors'[q]]
      BY DEF KnownTensors
    <2> QED
      BY <2>3, <2>4, <2>5
  <1>11. Inputs[n] \subseteq KnownTensors[r]
    BY <1>2, <1>6, <1>7 DEF KnownTensors
  <1>12. Service!Complete(r, n)
    <2> QED
      BY <1>2, <1>3, <1>4, <1>10, <1>11 DEF Service!Complete, KnownTensors
  <1> QED
    BY <1>2, <1>12 DEF Service!ServiceNext

LEMMA ServiceSteps ==
    ASSUME FlowInv, [Next]_vars
    PROVE  Service!ServiceNext \/ UNCHANGED <<phase, completedNodes, KnownTensors>>
  <1>1. TypeOK /\ CallsOnce /\ Footprint
    BY Footprints DEF FlowInv, TaskInv
  <1>2. CASE Accepts
    BY <1>1, <1>2, AcceptStep
  <1>3. CASE StartRequest
    BY <1>1, <1>3, StartStep
  <1>4. CASE FinishRequest
    BY <1>1, <1>4, ReturnStep
  <1>5. CASE GatherTask
    BY <1>5, CompleteStep
  <1>6. ASSUME NEW w \in Worker, GatherTensorBatch(w)
        PROVE  Service!ServiceNext
    BY <1>6, AnnounceStep
  <1>7. CASE UNCHANGED <<phase, completedNodes, tensorMap>>
    BY <1>7 DEF KnownTensors, Available
  <1> QED
    BY <1>1, <1>2, <1>3, <1>4, <1>5, <1>6, <1>7 DEF Footprint

-----------------------------------------------------------------------------
(* The service *)

(***************************************************************************)
(* A node is scheduled only when its eager inputs are known, and what a    *)
(* completed node took and made is known: the coordinator looks locations  *)
(* up in tensor_map without checking that they are there                   *)
(* (_prepare_task_inputs).                                                 *)
(***************************************************************************)
THEOREM ScheduledInputsKnown ==
    Spec => []ScheduledNodesHaveInputs
  <1>1. Init => FlowInv
    BY InitFlow
  <1>2. FlowInv /\ [Next]_vars => FlowInv'
    BY StepFlow
  <1>3. FlowInv => ScheduledNodesHaveInputs
    BY FlowFeeds
  <1>4. Spec => []ScheduledNodesHaveInputs
    BY <1>1, <1>2, <1>3, PTL DEF Spec
  <1> QED
    BY <1>4

(***************************************************************************)
(* The serving system implements the service: nodes complete one by one,   *)
(* each once, after its prerequisites and with its inputs known, and a     *)
(* request returns when all its nodes have completed.  Queues, policies,   *)
(* groups and workers are steps that the service does not see.             *)
(***************************************************************************)
THEOREM ServiceImplemented ==
    Spec => ImplementsService
  <1>1. Init => FlowInv
    BY InitFlow
  <1>2. FlowInv /\ [Next]_vars => FlowInv'
    BY StepFlow
  <1>3. Init => Service!ServiceInit
    BY ServiceStarts
  <1>4. FlowInv /\ [Next]_vars => [Service!ServiceNext]_(Service!serviceVars)
    BY ServiceSteps DEF Service!serviceVars, KnownTensors
  <1>5. Spec => Service!ServiceSpec
    BY <1>1, <1>2, <1>3, <1>4, PTL DEF Spec, Service!ServiceSpec
  <1> QED
    BY <1>5 DEF ImplementsService

-----------------------------------------------------------------------------
(* The release of inputs *)

FreeAt(i, r, n) ==
    i \in DOMAIN ready /\ ready[i].cb = "free" /\ ready[i].task = [req |-> r, node |-> n]

FreeDue(r, n) == \E i \in DOMAIN ready : FreeAt(i, r, n)

\* A completed node gives its inputs up once, and before its request returns.
FreesInOrder ==
    \A i \in DOMAIN ready : ready[i].cb = "free" =>
        LET r == ready[i].task.req
            n == ready[i].task.node
        IN  /\ phase[r] = "live" /\ n \in completedNodes[r]
            /\ \A j \in DOMAIN ready : FreeAt(j, r, n) => j = i
            /\ \A j \in DOMAIN ready : ready[j].cb = "wake" /\ ready[j].req = r => i < j

\* The callbacks a handled result creates, around the release of its inputs.
LEMMA GatherTaskCallbacks ==
    ASSUME TypeOK, GatherTask
    PROVE  LET r == Head(results.rest).req
               n == Head(results.rest).node
           IN  \E P, W \in Seq(Callback) :
                 /\ ready' = ready \o ((P \o <<[cb |-> "free", task |-> [req |-> r, node |-> n]]>>)
                                       \o W)
                 /\ \A i \in DOMAIN P : P[i].cb \notin {"free", "wake"}
                 /\ [cb |-> "notify", req |-> r, tensors |-> Head(results.rest).tensors,
                      src |-> results.from] \in ToSet(P)
                 /\ \A i \in DOMAIN W : W[i].cb = "wake" /\ W[i].req = r
  <1> DEFINE res == Head(results.rest)
             r == res.req
             n == res.node
             notify == [cb |-> "notify", req |-> r, tensors |-> res.tensors,
                        src |-> results.from]
             free == [cb |-> "free", task |-> [req |-> r, node |-> n]]
             wake == IF IsRequestComplete(r, n) THEN <<[cb |-> "wake", req |-> r]>>
                                                ELSE <<>>
  <1>1. PICK order \in SetToSeqs(NewlyReady(r, n)) :
          ready' = ready \o
              (<<notify>> \o [i \in DOMAIN order |->
                                [cb |-> "put", task |-> [req |-> r, node |-> order[i]]]]
                          \o <<free>> \o wake)
    BY DEF GatherTask
  <1> DEFINE puts == [i \in DOMAIN order |->
                        [cb |-> "put", task |-> [req |-> r, node |-> order[i]]]]
  <1>2. /\ res \in Response /\ r \in Request /\ n \in Node /\ res.tensors \subseteq Tensor
        /\ results.from \in Worker
    <2>1. results.rest # <<>> /\ results \in [from : Worker, rest : Seq(Response)]
      BY DEF GatherTask, TypeOK, CoordinatorTypeOK, ResultsTypeOK
    <2>2. results.rest \in Seq(Response) /\ results.from \in Worker
      BY <2>1
    <2>3. Head(results.rest) \in Response
      BY <2>1, <2>2, HeadTailProperties
    <2> QED
      BY <2>2, <2>3 DEF Response
  <1>3. order \in Seq(Node)
    <2>1. IsFiniteSet(NewlyReady(r, n)) /\ NewlyReady(r, n) \subseteq Node
      BY FS_Subset, WorkflowAssumption DEF NewlyReady, Successors
    <2>2. order \in Seq(NewlyReady(r, n))
      BY <1>1, <2>1, OrderOfSet
    <2> QED
      BY <2>1, <2>2, SeqMonotonic
  <1> HIDE DEF r, n
  <1>4. puts \in Seq(Callback) /\ \A i \in DOMAIN puts : puts[i].cb = "put"
    <2>1. DOMAIN order = 1 .. Len(order) /\ Len(order) \in Nat
          /\ \A i \in DOMAIN order : order[i] \in Node
      BY <1>3, LenProperties, ElementOfSeq
    <2>2. \A i \in DOMAIN order : puts[i] \in Callback
      BY <1>2, <2>1 DEF Callback, Task
    <2>3. puts = [i \in 1 .. Len(order) |-> puts[i]]
      BY <2>1
    <2>4. \A i \in DOMAIN puts : puts[i].cb = "put"
      OBVIOUS
    <2> HIDE DEF puts
    <2>5. puts \in [1 .. Len(order) -> Callback]
      BY <2>1, <2>2, <2>3
    <2> QED
      BY <2>1, <2>4, <2>5, SeqDef
  <1>5. notify \in Callback /\ free \in Callback /\ [cb |-> "wake", req |-> r] \in Callback
    BY <1>2 DEF Callback, Task
  <1>6. wake \in Seq(Callback) /\ \A i \in DOMAIN wake : wake[i].cb = "wake" /\ wake[i].req = r
    <2>1. <<[cb |-> "wake", req |-> r]>> \in Seq(Callback)
      BY <1>5
    <2>2. <<>> \in Seq(Callback)
      OBVIOUS
    <2>3. CASE IsRequestComplete(r, n)
      <3>1. wake = <<[cb |-> "wake", req |-> r]>>
        BY <2>3
      <3> HIDE DEF wake
      <3> QED
        BY <2>1, <3>1
    <2>4. CASE ~IsRequestComplete(r, n)
      <3>1. wake = <<>>
        BY <2>4
      <3> HIDE DEF wake
      <3> QED
        BY <2>2, <3>1
    <2> QED
      BY <2>3, <2>4
  <1> DEFINE P == <<notify>> \o puts
  <1>7. /\ P \in Seq(Callback) /\ \A i \in DOMAIN P : P[i].cb \notin {"free", "wake"}
        /\ notify \in ToSet(P)
    <2>1. <<notify>> \in Seq(Callback) /\ \A i \in DOMAIN <<notify>> : <<notify>>[i].cb = "notify"
      BY <1>5
    <2> DEFINE N == <<notify>>
    <2>2. /\ N \in Seq(Callback) /\ \A i \in DOMAIN N : N[i].cb = "notify"
          /\ 1 \in DOMAIN N /\ N[1] = notify
      BY <2>1
    <2> HIDE DEF puts, N, notify
    <2>3. N \o puts \in Seq(Callback)
          /\ \A i \in DOMAIN (N \o puts) : (N \o puts)[i].cb \in {"notify", "put"}
      BY <1>4, <2>2, Positions
    <2>4. 1 \in DOMAIN (N \o puts) /\ (N \o puts)[1] = notify
      BY <1>4, <2>2, Positions
    <2> QED
      BY <2>3, <2>4 DEF N, ToSet
  <1>8. ready' = ready \o ((P \o <<free>>) \o wake)
    BY <1>1
  <1> HIDE DEF P, wake
  <1> QED
    BY <1>6, <1>7, <1>8 DEF r, n

Quietly(P) ==
    P \in Seq(Callback) /\ \A i \in DOMAIN P : P[i].cb \notin {"free", "wake"}

\* What a step does to the event loop's queue, as far as releases go.
QueueStep ==
    \/ UNCHANGED <<ready, refCount>>
    \/ \E P \in Seq(Callback) : /\ Quietly(P) /\ ready' = ready \o P
                                /\ UNCHANGED refCount
    \/ GatherTask /\ UNCHANGED refCount
    \/ /\ ready # <<>> /\ ready' = Tail(ready)
       /\ \/ /\ Head(ready).cb \notin {"free", "start", "wake"}
             /\ UNCHANGED refCount
          \/ Head(ready).cb = "free" /\ UpdateFreeTensorDict
          \/ Head(ready).cb = "start" /\ StartRequest
          \/ Head(ready).cb = "wake" /\ FinishRequest

LEMMA QueueSteps ==
    ASSUME TypeOK, CallsOnce, [Next]_vars
    PROVE  QueueStep
  <1> USE DEF loopVars, scheduleVars, requestVars, tensorVars, channelVars
  <1>1. ready \in Seq(Callback)
    BY DEF TypeOK, CoordinatorTypeOK, LoopTypeOK
  <1>2. ASSUME NEW cb, Runs(cb), Ran(<<>>)
        PROVE  ready # <<>> /\ ready' = Tail(ready) /\ Head(ready).cb = cb
    <2>1. ready # <<>> /\ Head(ready).cb = cb
      BY <1>2, HeadRuns
    <2>2. Tail(ready) \o <<>> = Tail(ready)
      BY <1>1, <2>1, HeadTailProperties
    <2> QED
      BY <1>2, <2>1, <2>2 DEF Ran
  <1>3. CASE UNCHANGED vars
    BY <1>3 DEF QueueStep, vars, coordinatorVars
  <1>4. CASE WorkerNext
    <2>1. PICK w \in Worker : \/ StartGroup(w) \/ FetchLazy(w) \/ AcquireLazy(w)
                              \/ YieldOutput(w) \/ CompleteGroup(w)
      BY <1>4 DEF WorkerNext
    <2>2. UNCHANGED <<ready, refCount>>
      BY <2>1 DEF StartGroup, FetchLazy, AcquireLazy, YieldOutput, CompleteGroup,
                  coordinatorSide
    <2> QED
      BY <2>2 DEF QueueStep
  <1>5. CASE CoordinatorNext
    <2>1. ASSUME NEW requests \in SUBSET Request, NEW due \in DueTimers,
                 LoopIteration(requests, due)
          PROVE  QueueStep
      <3>1. PICK starts \in Seq(Callback), turns \in Seq(Callback) :
              /\ ready' = ready \o (starts \o turns)
              /\ \A i \in DOMAIN turns : turns[i].cb \in Loops
              /\ \A i \in DOMAIN starts : starts[i].cb = "start"
        BY <2>1, LoopIterationQueues
      <3>2. Quietly(starts \o turns) /\ starts \o turns \in Seq(Callback)
        <4>1. starts \o turns \in Seq(Callback)
          BY <3>1
        <4>2. \A i \in DOMAIN (starts \o turns) :
                (starts \o turns)[i].cb \in {"scheduler", "gather", "start"}
          BY <3>1, Positions DEF Loops
        <4> QED
          BY <4>1, <4>2 DEF Quietly
      <3>3. UNCHANGED refCount
        BY <2>1 DEF LoopIteration
      <3> HIDE DEF QueueStep
      <3> QED
        BY <3>1, <3>2, <3>3 DEF QueueStep
    <2>2. CASE StartRequest
      BY <1>2, <2>2 DEF QueueStep, StartRequest
    <2>3. CASE FinishRequest
      BY <1>2, <2>3 DEF QueueStep, FinishRequest
    <2>4. CASE PutTask
      BY <1>2, <2>4 DEF QueueStep, PutTask
    <2>5. CASE ScheduleTaskGroup
      BY <1>2, <2>5 DEF QueueStep, ScheduleTaskGroup
    <2>6. CASE NotifyLazyInputAvailable
      BY <1>2, <2>6 DEF QueueStep, NotifyLazyInputAvailable
    <2>7. CASE UpdateFreeTensorDict
      BY <1>2, <2>7 DEF QueueStep, UpdateFreeTensorDict
    <2>8. CASE SchedulerWake \/ GatherWake
      BY <1>2, <2>8 DEF QueueStep, SchedulerWake, GatherWake
    <2>9. CASE PickFirstTask \/ JoinGroup
      BY <2>9 DEF QueueStep, PickFirstTask, JoinGroup
    <2>10. CASE SchedulerSleep \/ GatherSleep
      BY <2>10 DEF QueueStep, SchedulerSleep, GatherSleep
    <2>11. CASE AssignGroup
      <3>1. PICK w \in Worker :
              ready' = Append(ready, [cb |-> "dispatch", group |-> group, dst |-> w])
        BY <2>11 DEF AssignGroup
      <3> DEFINE c == [cb |-> "dispatch", group |-> group, dst |-> w]
      <3>2. c \in Callback /\ c.cb = "dispatch"
        BY DEF Callback, TypeOK, CoordinatorTypeOK, ScheduleTypeOK
      <3> HIDE DEF c
      <3>3. <<c>> \in Seq(Callback) /\ Quietly(<<c>>)
        BY <3>2 DEF Quietly
      <3>4. ready' = ready \o <<c>>
        BY <1>1, <3>1, <3>2, AppendIsConcat DEF c
      <3>5. UNCHANGED refCount
        BY <2>11 DEF AssignGroup
      <3> QED
        BY <3>3, <3>4, <3>5 DEF QueueStep
    <2>12. ASSUME NEW w \in Worker, GatherTensorBatch(w)
           PROVE  QueueStep
      <3>1. PICK new \in Seq(Notice) : ready' = ready \o new
        BY <2>12, GatherTensorBatchCreates
      <3>2. new \in Seq(Callback) /\ Quietly(new)
        <4>1. Notice \subseteq Callback /\ \A c \in Notice : c.cb = "notify"
          BY DEF Notice, Created
        <4>2. new \in Seq(Callback)
          BY <4>1, SeqMonotonic
        <4> QED
          BY <4>1, <4>2, ElementOfSeq, LenProperties DEF Quietly
      <3>3. UNCHANGED refCount
        BY <2>12 DEF GatherTensorBatch
      <3> QED
        BY <3>1, <3>2, <3>3 DEF QueueStep
    <2>13. ASSUME NEW w \in Worker, GatherTaskComplete(w)
           PROVE  QueueStep
      BY <2>13 DEF QueueStep, GatherTaskComplete
    <2>14. CASE GatherTask
      BY <2>14 DEF QueueStep, GatherTask
    <2> QED
      BY <1>5, <2>1, <2>2, <2>3, <2>4, <2>5, <2>6, <2>7, <2>8, <2>9, <2>10, <2>11, <2>12,
         <2>13, <2>14 DEF CoordinatorNext, RunCallback, SchedulerStep
  <1> QED
    BY <1>3, <1>4, <1>5 DEF Next

\* Where the callbacks of the grown, or shortened, queue come from.
LEMMA QueueGrows ==
    ASSUME ready \in Seq(Callback), NEW P \in Seq(Callback), ready' = ready \o P
    PROVE  /\ \A i \in DOMAIN ready : i \in DOMAIN ready' /\ ready'[i] = ready[i]
           /\ \A i \in DOMAIN P : /\ Len(ready) + i \in DOMAIN ready'
                                  /\ ready'[Len(ready) + i] = P[i]
           /\ \A i \in DOMAIN ready' :
                \/ i \in DOMAIN ready /\ ready'[i] = ready[i]
                \/ /\ i > Len(ready) /\ i - Len(ready) \in DOMAIN P
                   /\ ready'[i] = P[i - Len(ready)]
           /\ \A i \in DOMAIN ready : i \in Nat /\ i <= Len(ready)
           /\ DOMAIN ready' \subseteq Nat /\ Len(ready) \in Nat
  BY Positions

LEMMA QueueShrinks ==
    ASSUME ready \in Seq(Callback), ready # <<>>, ready' = Tail(ready)
    PROVE  /\ 1 \in DOMAIN ready /\ ready[1] = Head(ready)
           /\ \A i \in DOMAIN ready' : i \in Nat /\ i + 1 \in DOMAIN ready
                                       /\ ready'[i] = ready[i + 1]
           /\ \A i \in DOMAIN ready : i \in Nat /\ (i # 1 =>
                i - 1 \in DOMAIN ready' /\ ready'[i - 1] = ready[i])
  BY HeadTailProperties, LenProperties, EmptySeq

\* A handled result's release is the only one it creates, before any wake.
LEMMA ReleaseCreated ==
    ASSUME TypeOK, GatherTask
    PROVE  LET r == Head(results.rest).req
               n == Head(results.rest).node
           IN  \E new \in Seq(Callback) : \E k \in DOMAIN new :
                 /\ ready' = ready \o new
                 /\ new[k] = [cb |-> "free", task |-> [req |-> r, node |-> n]]
                 /\ \A i \in DOMAIN new : new[i].cb = "free" => i = k
                 /\ \A i \in DOMAIN new : new[i].cb = "wake" => new[i].req = r /\ k < i
  <1> DEFINE r == Head(results.rest).req
             n == Head(results.rest).node
             free == [cb |-> "free", task |-> [req |-> r, node |-> n]]
             one == <<free>>
  <1>1. PICK P, W \in Seq(Callback) :
          /\ ready' = ready \o ((P \o one) \o W)
          /\ \A i \in DOMAIN P : P[i].cb \notin {"free", "wake"}
          /\ \A i \in DOMAIN W : W[i].cb = "wake" /\ W[i].req = r
    BY GatherTaskCallbacks
  <1>2. DOMAIN one = {1} /\ Len(one) = 1 /\ one[1] = free /\ free.cb = "free"
    OBVIOUS
  <1>3. one \in Seq(Callback)
    <2>1. free \in Callback
      <3>1. Head(results.rest) \in Response
        <4>1. results.rest # <<>> /\ results.rest \in Seq(Response)
          BY DEF GatherTask, TypeOK, CoordinatorTypeOK, ResultsTypeOK
        <4> QED
          BY <4>1, HeadTailProperties
      <3>2. r \in Request /\ n \in Node
        BY <3>1 DEF Response
      <3> QED
        BY <3>2 DEF Callback, Task
    <2> HIDE DEF free
    <2> QED
      BY <2>1
  <1> HIDE DEF one, free
  <1> DEFINE A == P \o one
             new == A \o W
             k == Len(P) + 1
  <1>4. /\ A \in Seq(Callback) /\ Len(P) \in Nat /\ k \in DOMAIN A /\ A[k] = free
        /\ \A i \in DOMAIN A : /\ A[i].cb = "free" => i = k
                               /\ A[i].cb # "wake" /\ i \in Nat /\ i <= k
        /\ Len(A) = k
    <2>1. /\ A \in Seq(Callback) /\ Len(P) \in Nat
          /\ DOMAIN P = 1 .. Len(P) /\ DOMAIN A = 1 .. (Len(P) + 1)
          /\ \A i \in DOMAIN P : A[i] = P[i]
          /\ A[Len(P) + 1] = one[1] /\ DOMAIN A = 1 .. Len(A) /\ Len(A) \in Nat
      <3>1. /\ A \in Seq(Callback) /\ DOMAIN P = 1 .. Len(P) /\ Len(P) \in Nat
            /\ DOMAIN A = 1 .. (Len(P) + Len(one))
            /\ \A i \in DOMAIN P : A[i] = P[i]
            /\ \A i \in DOMAIN one : A[Len(P) + i] = one[i]
        BY <1>3, Positions
      <3> HIDE DEF A
      <3>2. DOMAIN A = 1 .. Len(A) /\ Len(A) \in Nat
        BY <3>1, LenProperties
      <3> QED
        BY <1>2, <3>1, <3>2
    <2>2. Len(A) = k
      BY <2>1
    <2>3. \A i \in DOMAIN A : i \in DOMAIN P \/ i = k
      BY <2>1
    <2> HIDE DEF A
    <2> QED
      BY <1>1, <1>2, <2>1, <2>2, <2>3
  <1> HIDE DEF A
  <1>5. /\ new \in Seq(Callback) /\ k \in DOMAIN new /\ new[k] = free
        /\ \A i \in DOMAIN new : \/ i \in DOMAIN A /\ new[i] = A[i]
                                 \/ i > k /\ i - k \in DOMAIN W /\ new[i] = W[i - k]
    <2>1. /\ new \in Seq(Callback)
          /\ DOMAIN A = 1 .. Len(A) /\ DOMAIN W = 1 .. Len(W) /\ Len(W) \in Nat
          /\ DOMAIN new = 1 .. (Len(A) + Len(W))
          /\ \A i \in DOMAIN A : new[i] = A[i]
          /\ \A i \in DOMAIN W : new[Len(A) + i] = W[i]
          /\ \A i \in DOMAIN new :
               i \in DOMAIN A \/ (i - Len(A) \in DOMAIN W /\ i = Len(A) + (i - Len(A)))
      <3>1. A \in Seq(Callback) /\ W \in Seq(Callback)
        BY <1>4
      <3> QED
        BY <3>1, Positions
    <2> HIDE DEF new
    <2> QED
      BY <1>4, <2>1
  <1>6. ready' = ready \o new
    BY <1>1 DEF A
  <1> HIDE DEF new, k
  <1>7. /\ \A i \in DOMAIN new : new[i].cb = "free" => i = k
        /\ \A i \in DOMAIN new : new[i].cb = "wake" => new[i].req = r /\ k < i
    <2> SUFFICES ASSUME NEW i \in DOMAIN new
                 PROVE  /\ new[i].cb = "free" => i = k
                        /\ new[i].cb = "wake" => new[i].req = r /\ k < i
      OBVIOUS
    <2>1. CASE i \in DOMAIN A /\ new[i] = A[i]
      BY <1>4, <2>1
    <2>2. CASE i > k /\ i - k \in DOMAIN W /\ new[i] = W[i - k]
      BY <1>1, <2>2
    <2> QED
      BY <1>5, <2>1, <2>2
  <1> QED
    BY <1>5, <1>6, <1>7 DEF free

\* A release that is served is not due again.
LEMMA ReleaseServed ==
    ASSUME ready \in Seq(Callback), FreesInOrder, ready # <<>>, ready' = Tail(ready),
           NEW r \in Request, NEW n \in Node
    PROVE  FreeDue(r, n)' <=> /\ FreeDue(r, n)
                              /\ ~(Head(ready).cb = "free"
                                     /\ Head(ready).task = [req |-> r, node |-> n])
  <1>1. ASSUME FreeDue(r, n)'
        PROVE  /\ FreeDue(r, n)
               /\ ~(Head(ready).cb = "free" /\ Head(ready).task = [req |-> r, node |-> n])
    <2>1. PICK i \in DOMAIN ready' : FreeAt(i, r, n)'
      BY <1>1 DEF FreeDue
    <2>2. i \in Nat /\ FreeAt(i + 1, r, n) /\ i + 1 # 1 /\ i \in 1 .. Len(ready')
      <3>1. i \in Nat /\ i + 1 \in DOMAIN ready /\ ready'[i] = ready[i + 1]
        BY <2>1, QueueShrinks
      <3>2. i \in 1 .. Len(ready')
        BY HeadTailProperties, LenProperties
      <3> QED
        BY <2>1, <3>1, <3>2 DEF FreeAt
    <2>3. ASSUME Head(ready).cb = "free", Head(ready).task = [req |-> r, node |-> n]
          PROVE  FALSE
      <3>1. FreeAt(1, r, n) /\ 1 \in DOMAIN ready
        BY <2>3, QueueShrinks DEF FreeAt
      <3>2. FreeAt(i + 1, r, n) => i + 1 = 1
        BY <3>1, <2>2 DEF FreesInOrder, FreeAt
      <3> QED
        BY <2>2, <3>2
    <2> QED
      BY <2>2, <2>3 DEF FreeDue, FreeAt
  <1>2. ASSUME FreeDue(r, n),
               ~(Head(ready).cb = "free" /\ Head(ready).task = [req |-> r, node |-> n])
        PROVE  FreeDue(r, n)'
    <2>1. PICK i \in DOMAIN ready : FreeAt(i, r, n)
      BY <1>2 DEF FreeDue
    <2>2. i # 1
      BY <1>2, <2>1, QueueShrinks DEF FreeAt
    <2>3. i - 1 \in DOMAIN ready' /\ ready'[i - 1] = ready[i]
      BY <2>2, QueueShrinks
    <2> QED
      BY <2>1, <2>3 DEF FreeDue, FreeAt
  <1> QED
    BY <1>1, <1>2

LEMMA ReleaseAdded ==
    ASSUME TypeOK, GatherTask, NEW r \in Request, NEW n \in Node
    PROVE  FreeDue(r, n)' <=> \/ FreeDue(r, n)
                              \/ r = Head(results.rest).req /\ n = Head(results.rest).node
  <1>1. ready \in Seq(Callback)
    BY DEF TypeOK, CoordinatorTypeOK, LoopTypeOK
  <1> DEFINE q == Head(results.rest).req
             m == Head(results.rest).node
  <1>2. PICK new \in Seq(Callback) : \E k \in DOMAIN new :
          /\ ready' = ready \o new
          /\ new[k] = [cb |-> "free", task |-> [req |-> q, node |-> m]]
          /\ \A i \in DOMAIN new : new[i].cb = "free" => i = k
    BY ReleaseCreated
  <1>3. PICK k \in DOMAIN new :
          /\ new[k] = [cb |-> "free", task |-> [req |-> q, node |-> m]]
          /\ \A i \in DOMAIN new : new[i].cb = "free" => i = k
    BY <1>2
  <1> HIDE DEF q, m
  <1>4. ready' = ready \o new
    BY <1>2
  <1>5. FreeDue(r, n) => FreeDue(r, n)'
    BY <1>1, <1>4, QueueGrows DEF FreeDue, FreeAt
  <1>6. r = q /\ n = m => FreeDue(r, n)'
    <2>1. /\ Len(ready) + k \in DOMAIN ready'
          /\ ready'[Len(ready) + k] = [cb |-> "free", task |-> [req |-> q, node |-> m]]
      BY <1>1, <1>3, <1>4, QueueGrows
    <2> QED
      BY <2>1 DEF FreeDue, FreeAt
  <1>7. ASSUME FreeDue(r, n)', ~FreeDue(r, n)
        PROVE  r = q /\ n = m
    <2>1. PICK i \in DOMAIN ready' : FreeAt(i, r, n)'
      BY <1>7 DEF FreeDue
    <2>2. i - Len(ready) \in DOMAIN new /\ ready'[i] = new[i - Len(ready)]
      <3>1. \/ i \in DOMAIN ready /\ ready'[i] = ready[i]
            \/ i - Len(ready) \in DOMAIN new /\ ready'[i] = new[i - Len(ready)]
        BY <1>1, <1>4, <2>1, QueueGrows
      <3> QED
        BY <1>7, <2>1, <3>1 DEF FreeDue, FreeAt
    <2>3. new[i - Len(ready)] = [cb |-> "free", task |-> [req |-> q, node |-> m]]
      BY <1>3, <2>1, <2>2 DEF FreeAt
    <2>4. [req |-> q, node |-> m] = [req |-> r, node |-> n]
      BY <2>1, <2>2, <2>3 DEF FreeAt
    <2> QED
      BY <2>4
  <1> QED
    BY <1>5, <1>6, <1>7 DEF q, m

\* A live request goes on until it is finished.
LEMMA LivesOn ==
    ASSUME TypeOK, CallsOnce, InPlace, [Next]_vars, NEW r \in Request, phase[r] = "live",
           ~(FinishRequest /\ r = Head(ready).req)
    PROVE  phase'[r] = "live" /\ completedNodes[r] \subseteq completedNodes'[r]
  <1>1. Footprint
    BY Footprints
  <1>2. CASE Accepts
    <2>1. PICK requests \in SUBSET Request : /\ \A q \in requests : phase[q] = "new"
             /\ phase' = [q \in Request |-> IF q \in requests THEN "starting" ELSE phase[q]]
             /\ completedNodes' = completedNodes
      BY <1>2 DEF Accepts, LoopIteration
    <2> QED
      BY <2>1
  <1>3. CASE StartRequest
    BY <1>3, StartedRequest
  <1>4. CASE FinishRequest
    BY <1>4, FinishedRequest
  <1>5. CASE GatherTask
    BY <1>5, HandledResult
  <1>6. CASE UNCHANGED <<phase, scheduledNodes, completedNodes>>
    BY <1>6
  <1> QED
    BY <1>1, <1>2, <1>3, <1>4, <1>5, <1>6 DEF Footprint

\* A request that is woken has no node left to complete.
LEMMA WokenRequest ==
    ASSUME TypeOK, CallsOnce, NEW i \in DOMAIN ready, ready[i].cb = "wake"
    PROVE  /\ ready[i].req \in Request /\ phase[ready[i].req] = "live"
           /\ completedNodes[ready[i].req] = Node
  <1>1. ready[i] \in TimelyCallback
    BY ElementOfSeq DEF CallsOnce
  <1> QED
    BY <1>1, CallbackFields DEF TimelyCallback

\* The fields of a release.
LEMMA ReleaseFields ==
    ASSUME ready \in Seq(Callback), NEW i \in DOMAIN ready, ready[i].cb = "free"
    PROVE  /\ ready[i].task.req \in Request /\ ready[i].task.node \in Node
           /\ ready[i].task = [req |-> ready[i].task.req, node |-> ready[i].task.node]
           /\ ready[i] = [cb |-> "free", task |-> ready[i].task]
  <1>1. ready[i] \in Callback
    BY ElementOfSeq
  <1>2. ready[i].task \in Task
    BY <1>1, CallbackFields
  <1>3. ready[i] = [cb |-> "free", task |-> ready[i].task]
    BY <1>1 DEF Callback
  <1> QED
    BY <1>2, <1>3 DEF Task

LEMMA ReleaseFieldsNext ==
    ASSUME ready' \in Seq(Callback), NEW i \in DOMAIN ready', ready'[i].cb = "free"
    PROVE  /\ ready'[i].task.req \in Request /\ ready'[i].task.node \in Node
           /\ ready'[i].task = [req |-> ready'[i].task.req, node |-> ready'[i].task.node]
  <1>1. ready'[i] \in Callback
    BY ElementOfSeq
  <1>2. ready'[i].task \in Task
    BY <1>1, CallbackFields
  <1> QED
    BY <1>2 DEF Task

\* One release, whatever the others.
ReleaseOK(i, r, n) ==
    /\ phase[r] = "live" /\ n \in completedNodes[r]
    /\ \A j \in DOMAIN ready : FreeAt(j, r, n) => j = i
    /\ \A j \in DOMAIN ready : ready[j].cb = "wake" /\ ready[j].req = r => i < j

LEMMA ReleaseKept ==
    ASSUME TypeOK, CallsOnce, InPlace, [Next]_vars, FreesInOrder,
           ready' \in Seq(Callback), ~GatherTask,
           NEW i, NEW r \in Request, NEW n \in Node, FreeAt(i, r, n)'
    PROVE  ReleaseOK(i, r, n)'
  <1>1. ready \in Seq(Callback) /\ QueueStep
    BY QueueSteps DEF TypeOK, CoordinatorTypeOK, LoopTypeOK
  <1>2. /\ i \in DOMAIN ready' /\ ready'[i].cb = "free"
        /\ ready'[i].task = [req |-> r, node |-> n]
    BY DEF FreeAt
  <1>3. ASSUME NEW P \in Seq(Callback), Quietly(P), ready' = ready \o P
        PROVE  ReleaseOK(i, r, n)'
    <2>1. /\ \A j \in DOMAIN ready' :
               \/ j \in DOMAIN ready /\ ready'[j] = ready[j]
               \/ ready'[j].cb \notin {"free", "wake"}
      BY <1>1, <1>3, QueueGrows DEF Quietly
    <2>2. FreeAt(i, r, n) /\ ReleaseOK(i, r, n) /\ i \in DOMAIN ready
      BY <1>2, <2>1 DEF FreeAt, ReleaseOK, FreesInOrder
    <2>3. ~FinishRequest
      <3>1. CASE FinishRequest
        <4>1. ready # <<>> /\ ready' = Tail(ready) \o <<>>
          BY <3>1, HeadRuns DEF FinishRequest, Ran
        <4>2. Len(ready') = Len(ready) - 1
          BY <1>1, <4>1, HeadTailProperties, LenProperties
        <4>3. Len(ready') = Len(ready) + Len(P) /\ Len(P) \in Nat /\ Len(ready) \in Nat
          BY <1>1, <1>3, ConcatProperties, LenProperties
        <4> QED
          BY <4>2, <4>3
      <3> QED
        BY <3>1
    <2>4. phase'[r] = "live" /\ n \in completedNodes'[r]
      BY <1>2, <2>2, <2>3, LivesOn DEF ReleaseOK
    <2> QED
      BY <2>1, <2>2, <2>4 DEF ReleaseOK, FreeAt
  <1>4. CASE UNCHANGED ready
    <2>1. ~FinishRequest
      <3>1. CASE FinishRequest
        <4>1. ready # <<>> /\ ready' = Tail(ready) \o <<>>
          BY <3>1, HeadRuns DEF FinishRequest, Ran
        <4>2. Len(ready') = Len(ready) - 1 /\ Len(ready) \in Nat
          BY <1>1, <4>1, HeadTailProperties, LenProperties
        <4> QED
          BY <1>4, <4>2
      <3> QED
        BY <3>1
    <2>2. ReleaseOK(i, r, n)
      BY <1>2, <1>4 DEF ReleaseOK, FreesInOrder
    <2>3. phase'[r] = "live" /\ n \in completedNodes'[r]
      BY <1>2, <2>1, <2>2, LivesOn DEF ReleaseOK
    <2> QED
      BY <1>4, <2>2, <2>3 DEF ReleaseOK, FreeAt
  <1>5. CASE ready # <<>> /\ ready' = Tail(ready)
    <2>1. /\ i \in Nat /\ i + 1 \in DOMAIN ready /\ ready'[i] = ready[i + 1]
          /\ 1 \in DOMAIN ready /\ ready[1] = Head(ready)
          /\ \A j \in DOMAIN ready' : j \in Nat /\ j + 1 \in DOMAIN ready
                                      /\ ready'[j] = ready[j + 1]
      BY <1>1, <1>2, <1>5, QueueShrinks
    <2>2. ReleaseOK(i + 1, r, n)
      BY <1>2, <2>1 DEF ReleaseOK, FreesInOrder
    <2>3. ~(FinishRequest /\ r = Head(ready).req)
      <3>1. CASE FinishRequest /\ r = Head(ready).req
        <4>1. ready[1].cb = "wake" /\ ready[1].req = r
          BY <2>1, <3>1, HeadRuns DEF FinishRequest
        <4>2. i + 1 < 1 /\ i \in 1 .. Len(ready')
          BY <2>1, <2>2, <4>1, LenProperties DEF ReleaseOK
        <4> QED
          BY <2>1, <4>2
      <3> QED
        BY <3>1
    <2>4. phase'[r] = "live" /\ n \in completedNodes'[r]
      BY <1>2, <2>2, <2>3, LivesOn DEF ReleaseOK
    <2>5. \A j \in DOMAIN ready' : FreeAt(j, r, n)' => j = i
      <3> SUFFICES ASSUME NEW j \in DOMAIN ready', FreeAt(j, r, n)'
                   PROVE  j = i
        OBVIOUS
      <3>1. FreeAt(j + 1, r, n) /\ j \in Nat
        BY <2>1 DEF FreeAt
      <3>2. j + 1 = i + 1
        BY <2>2, <3>1 DEF ReleaseOK, FreeAt
      <3> QED
        BY <2>1, <3>1, <3>2
    <2>6. \A j \in DOMAIN ready' : ready'[j].cb = "wake" /\ ready'[j].req = r => i < j
      <3> SUFFICES ASSUME NEW j \in DOMAIN ready', ready'[j].cb = "wake", ready'[j].req = r
                   PROVE  i < j
        OBVIOUS
      <3>1. i + 1 < j + 1 /\ j \in Nat
        BY <2>1, <2>2 DEF ReleaseOK
      <3> QED
        BY <2>1, <3>1
    <2> QED
      BY <2>4, <2>5, <2>6 DEF ReleaseOK
  <1> QED
    BY <1>1, <1>3, <1>4, <1>5 DEF QueueStep

LEMMA ReleaseMade ==
    ASSUME TypeOK, CallsOnce, InPlace, FreesInOrder, GatherTask, ready' \in Seq(Callback),
           NEW i, NEW r \in Request, NEW n \in Node, FreeAt(i, r, n)'
    PROVE  ReleaseOK(i, r, n)'
  <1> DEFINE q == Head(results.rest).req
             m == Head(results.rest).node
  <1>1. ready \in Seq(Callback)
    BY DEF TypeOK, CoordinatorTypeOK, LoopTypeOK
  <1>2. /\ i \in DOMAIN ready' /\ ready'[i].cb = "free"
        /\ ready'[i].task = [req |-> r, node |-> n]
    BY DEF FreeAt
  <1>3. /\ q \in Request /\ m \in Node /\ phase[q] = "live" /\ m \notin completedNodes[q]
        /\ phase' = phase /\ completedNodes'[q] = completedNodes[q] \cup {m}
        /\ \A x \in Request \ {q} : completedNodes'[x] = completedNodes[x]
    BY HandledResult
  <1>4. PICK new \in Seq(Callback) : \E k \in DOMAIN new :
          /\ ready' = ready \o new
          /\ new[k] = [cb |-> "free", task |-> [req |-> q, node |-> m]]
          /\ \A j \in DOMAIN new : new[j].cb = "free" => j = k
          /\ \A j \in DOMAIN new : new[j].cb = "wake" => new[j].req = q /\ k < j
    BY ReleaseCreated
  <1>5. PICK k \in DOMAIN new :
          /\ ready' = ready \o new
          /\ new[k] = [cb |-> "free", task |-> [req |-> q, node |-> m]]
          /\ \A j \in DOMAIN new : new[j].cb = "free" => j = k
          /\ \A j \in DOMAIN new : new[j].cb = "wake" => new[j].req = q /\ k < j
    BY <1>4
  <1> HIDE DEF q, m
  <1>6. /\ \A j \in DOMAIN ready' :
             \/ j \in DOMAIN ready /\ ready'[j] = ready[j] /\ j <= Len(ready)
             \/ /\ j > Len(ready) /\ j - Len(ready) \in DOMAIN new
                /\ ready'[j] = new[j - Len(ready)]
        /\ DOMAIN ready' \subseteq Nat /\ Len(ready) \in Nat
    BY <1>1, <1>5, QueueGrows
  <1>7. DOMAIN new \subseteq Nat
    BY LenProperties
  \* No old callback is about the node that has just completed.
  <1>8. /\ \A j \in DOMAIN ready : ~FreeAt(j, q, m)
        /\ \A j \in DOMAIN ready : ~(ready[j].cb = "wake" /\ ready[j].req = q)
    <2>1. \A j \in DOMAIN ready : ~FreeAt(j, q, m)
      BY <1>3 DEF FreesInOrder, FreeAt
    <2>2. \A j \in DOMAIN ready : ~(ready[j].cb = "wake" /\ ready[j].req = q)
      BY <1>3, WokenRequest
    <2> QED
      BY <2>1, <2>2
  <1>9. CASE i \in DOMAIN ready /\ ready'[i] = ready[i] /\ i <= Len(ready)
    <2>1. ReleaseOK(i, r, n) /\ FreeAt(i, r, n)
      BY <1>2, <1>9 DEF ReleaseOK, FreesInOrder, FreeAt
    <2>2. ~(r = q /\ n = m)
      BY <1>8, <1>9, <2>1
    <2>3. phase'[r] = "live" /\ n \in completedNodes'[r]
      BY <1>2, <1>3, <2>1 DEF ReleaseOK
    <2>4. \A j \in DOMAIN ready' : FreeAt(j, r, n)' => j = i
      <3> SUFFICES ASSUME NEW j \in DOMAIN ready', FreeAt(j, r, n)'
                   PROVE  j = i
        OBVIOUS
      <3>1. CASE j \in DOMAIN ready /\ ready'[j] = ready[j]
        BY <2>1, <3>1 DEF ReleaseOK, FreeAt
      <3>2. CASE j - Len(ready) \in DOMAIN new /\ ready'[j] = new[j - Len(ready)]
        <4>1. ready'[j].task = [req |-> q, node |-> m]
          BY <1>5, <3>2 DEF FreeAt
        <4>2. ready'[j].task = [req |-> r, node |-> n]
          BY DEF FreeAt
        <4> QED
          BY <2>2, <4>1, <4>2
      <3> QED
        BY <1>6, <3>1, <3>2
    <2>5. \A j \in DOMAIN ready' : ready'[j].cb = "wake" /\ ready'[j].req = r => i < j
      <3> SUFFICES ASSUME NEW j \in DOMAIN ready', ready'[j].cb = "wake", ready'[j].req = r
                   PROVE  i < j
        OBVIOUS
      <3>1. CASE j \in DOMAIN ready /\ ready'[j] = ready[j]
        BY <2>1, <3>1 DEF ReleaseOK
      <3>2. CASE j > Len(ready)
        BY <1>6, <1>9, <3>2
      <3> QED
        BY <1>6, <3>1, <3>2
    <2> QED
      BY <2>3, <2>4, <2>5 DEF ReleaseOK
  <1>10. CASE /\ i > Len(ready) /\ i - Len(ready) \in DOMAIN new
              /\ ready'[i] = new[i - Len(ready)]
    <2>1. i - Len(ready) = k /\ ready'[i].task = [req |-> q, node |-> m]
      BY <1>2, <1>5, <1>10
    <2>2. r = q /\ n = m
      BY <1>2, <2>1
    <2>3. phase'[r] = "live" /\ n \in completedNodes'[r]
      BY <1>3, <2>2
    <2>4. \A j \in DOMAIN ready' : FreeAt(j, r, n)' => j = i
      <3> SUFFICES ASSUME NEW j \in DOMAIN ready', FreeAt(j, r, n)'
                   PROVE  j = i
        OBVIOUS
      <3>1. CASE j \in DOMAIN ready /\ ready'[j] = ready[j]
        BY <1>8, <2>2, <3>1 DEF FreeAt
      <3>2. CASE j - Len(ready) \in DOMAIN new /\ ready'[j] = new[j - Len(ready)]
        <4>1. j - Len(ready) = k
          BY <1>5, <3>2 DEF FreeAt
        <4> QED
          BY <1>2, <1>6, <1>7, <2>1, <4>1
      <3> QED
        BY <1>6, <3>1, <3>2
    <2>5. \A j \in DOMAIN ready' : ready'[j].cb = "wake" /\ ready'[j].req = r => i < j
      <3> SUFFICES ASSUME NEW j \in DOMAIN ready', ready'[j].cb = "wake", ready'[j].req = r
                   PROVE  i < j
        OBVIOUS
      <3>1. CASE j \in DOMAIN ready /\ ready'[j] = ready[j]
        BY <1>8, <2>2, <3>1
      <3>2. CASE j - Len(ready) \in DOMAIN new /\ ready'[j] = new[j - Len(ready)]
        <4>1. k < j - Len(ready)
          BY <1>5, <3>2
        <4> QED
          BY <1>2, <1>6, <1>7, <2>1, <4>1
      <3> QED
        BY <1>6, <3>1, <3>2
    <2> QED
      BY <2>3, <2>4, <2>5 DEF ReleaseOK
  <1> QED
    BY <1>2, <1>6, <1>9, <1>10

LEMMA StepReleases ==
    ASSUME TaskInv, TypeOK', FreesInOrder, [Next]_vars
    PROVE  FreesInOrder'
  <1>1. TypeOK /\ CallsOnce /\ InPlace /\ ready' \in Seq(Callback)
    BY DEF TaskInv, TypeOK, CoordinatorTypeOK, LoopTypeOK
  <1>2. ASSUME NEW i \in DOMAIN ready', ready'[i].cb = "free", NEW r, NEW n,
               r = ready'[i].task.req, n = ready'[i].task.node
        PROVE  ReleaseOK(i, r, n)'
    <2>1. r \in Request /\ n \in Node /\ FreeAt(i, r, n)'
      BY <1>1, <1>2, ReleaseFieldsNext DEF FreeAt
    <2> QED
      BY <1>1, <2>1, ReleaseKept, ReleaseMade
  <1> QED
    BY <1>2 DEF FreesInOrder, ReleaseOK

\* The consumers that have not given t up.
Owed(r, t) == { n \in Consumers(t) : n \notin completedNodes[r] \/ FreeDue(r, n) }

RefsCounted ==
    \A r \in Request : phase[r] = "live" =>
        \A t \in Tensor : refCount[r][t] = Cardinality(Owed(r, t))

LEMMA CountsAgree ==
    ASSUME TypeOK, RefsCounted
    PROVE  RefCountsConsumers
  <1>1. ready \in Seq(Callback)
    BY DEF TypeOK, CoordinatorTypeOK, LoopTypeOK
  <1>2. ASSUME NEW r \in Request, NEW n \in Node
        PROVE  FreeDue(r, n) <=> \E i \in DOMAIN ready :
                 ready[i] = [cb |-> "free", task |-> [req |-> r, node |-> n]]
    BY <1>1, ReleaseFields DEF FreeDue, FreeAt
  <1>3. ASSUME NEW r \in Request, NEW t \in Tensor
        PROVE  Owed(r, t) = { n \in Consumers(t) :
                 \/ n \notin completedNodes[r]
                 \/ \E i \in DOMAIN ready :
                      ready[i] = [cb |-> "free", task |-> [req |-> r, node |-> n]] }
    BY <1>2 DEF Owed, Consumers
  <1> QED
    BY <1>3 DEF RefCountsConsumers, RefsCounted

LEMMA CompletedKept ==
    ASSUME TypeOK, CallsOnce, [Next]_vars, ~GatherTask, NEW r \in Request,
           phase[r] = "live", phase'[r] = "live"
    PROVE  completedNodes'[r] = completedNodes[r]
  <1>1. Footprint
    BY Footprints
  <1>2. CASE Accepts
    BY <1>2 DEF Accepts, LoopIteration
  <1>3. CASE StartRequest
    BY <1>3, StartedRequest
  <1>4. CASE FinishRequest
    BY <1>4, FinishedRequest
  <1> QED
    BY <1>1, <1>2, <1>3, <1>4 DEF Footprint

\* What one release does to the counts.
LEMMA CountsReleased ==
    ASSUME TypeOK, FreesInOrder, UpdateFreeTensorDict
    PROVE  LET r == Head(ready).task.req
               n == Head(ready).task.node
           IN  /\ r \in Request /\ n \in Node /\ FreeAt(1, r, n) /\ n \in completedNodes[r]
               /\ phase[r] = "live" /\ ready # <<>> /\ ready' = Tail(ready)
               /\ \A t \in Tensor : refCount'[r][t] =
                    IF t \in Inputs[n] THEN refCount[r][t] - 1 ELSE refCount[r][t]
               /\ \A q \in Request \ {r} : refCount'[q] = refCount[q]
  <1> DEFINE r == Head(ready).task.req
             n == Head(ready).task.node
  <1>1. ready \in Seq(Callback) /\ ready # <<>> /\ Head(ready).cb = "free"
    BY HeadRuns DEF UpdateFreeTensorDict, TypeOK, CoordinatorTypeOK, LoopTypeOK
  <1>2. 1 \in DOMAIN ready /\ ready[1] = Head(ready)
    BY <1>1, HeadTailProperties, LenProperties, EmptySeq
  <1>3. r \in Request /\ n \in Node /\ FreeAt(1, r, n)
    BY <1>1, <1>2, ReleaseFields DEF FreeAt
  <1>4. n \in completedNodes[r] /\ phase[r] = "live"
    BY <1>1, <1>2 DEF FreesInOrder
  <1>5. refCount' = [refCount EXCEPT ![r] =
             [t \in Tensor |-> IF t \in Inputs[n] THEN @[t] - 1 ELSE @[t]]]
    BY DEF UpdateFreeTensorDict
  <1>6. ready' = Tail(ready)
    <2>1. ready' = Tail(ready) \o <<>> /\ Tail(ready) \in Seq(Callback)
      BY <1>1, HeadTailProperties DEF UpdateFreeTensorDict, Ran
    <2> QED
      BY <2>1
  <1> HIDE DEF r, n
  <1>7. /\ refCount'[r] =
             [t \in Tensor |-> IF t \in Inputs[n] THEN refCount[r][t] - 1 ELSE refCount[r][t]]
        /\ \A q \in Request \ {r} : refCount'[q] = refCount[q]
    BY <1>3, <1>5 DEF TypeOK, CoordinatorTypeOK, TensorTypeOK
  <1>8. \A t \in Tensor : refCount'[r][t] =
           IF t \in Inputs[n] THEN refCount[r][t] - 1 ELSE refCount[r][t]
    BY <1>7
  <1> QED
    BY <1>1, <1>3, <1>4, <1>6, <1>7, <1>8 DEF r, n

\* A request that has just been started owes everything.
LEMMA CountsStarted ==
    ASSUME TaskInv, StartRequest, ready # <<>>, ready' = Tail(ready), FreesInOrder,
           NEW t \in Tensor, NEW r, r = Head(ready).req
    PROVE  refCount'[r][t] = Cardinality(Owed(r, t)')
  <1>1. TypeOK /\ CallsOnce /\ NodesOfRequests
    BY DEF TaskInv
  <1>2. r \in Request /\ phase[r] = "starting" /\ completedNodes' = completedNodes
    BY <1>1, StartedRequest
  <1>3. completedNodes'[r] = {}
    BY <1>1, <1>2 DEF NodesOfRequests
  <1>4. Owed(r, t)' = Consumers(t)
    BY <1>3 DEF Owed
  <1>5. refCount' = [refCount EXCEPT ![r] = [u \in Tensor |-> Cardinality(Consumers(u))]]
    BY DEF StartRequest
  <1>6. refCount'[r] = [u \in Tensor |-> Cardinality(Consumers(u))]
    BY <1>1, <1>2, <1>5 DEF TypeOK, CoordinatorTypeOK, TensorTypeOK
  <1> QED
    BY <1>4, <1>6

LEMMA StepCounts ==
    ASSUME TaskInv, TypeOK', FreesInOrder, RefsCounted, [Next]_vars
    PROVE  RefsCounted'
  <1>1. /\ TypeOK /\ CallsOnce /\ InPlace /\ NodesOfRequests /\ ready \in Seq(Callback)
        /\ QueueStep
    BY QueueSteps DEF TaskInv, TypeOK, CoordinatorTypeOK, LoopTypeOK
  <1> SUFFICES ASSUME NEW r \in Request, phase'[r] = "live", NEW t \in Tensor
               PROVE  refCount'[r][t] = Cardinality(Owed(r, t)')
    BY DEF RefsCounted
  <1>2. ASSUME phase[r] # "live"
        PROVE  refCount'[r][t] = Cardinality(Owed(r, t)')
    <2>1. StartRequest /\ r = Head(ready).req
      <3>1. Footprint
        BY Footprints
      <3>2. CASE Accepts
        <4>1. PICK requests \in SUBSET Request :
                phase' = [q \in Request |-> IF q \in requests THEN "starting" ELSE phase[q]]
          BY <3>2 DEF Accepts, LoopIteration
        <4> QED
          BY <1>2, <4>1
      <3>3. CASE StartRequest
        BY <1>1, <1>2, <3>3, StartedRequest
      <3>4. CASE FinishRequest
        BY <1>1, <1>2, <3>4, FinishedRequest
      <3>5. CASE GatherTask \/ UNCHANGED phase
        BY <1>2, <3>5 DEF GatherTask
      <3> QED
        BY <3>1, <3>2, <3>3, <3>4, <3>5 DEF Footprint
    <2>2. ready # <<>> /\ ready' = Tail(ready)
      <3>1. ready # <<>> /\ ready' = Tail(ready) \o <<>>
        BY <1>1, <2>1, HeadRuns DEF StartRequest, Ran
      <3> QED
        BY <1>1, <3>1, HeadTailProperties
    <2> QED
      BY <2>1, <2>2, CountsStarted
  <1>3. ASSUME phase[r] = "live"
        PROVE  refCount'[r][t] = Cardinality(Owed(r, t)')
    <2>1. refCount[r][t] = Cardinality(Owed(r, t))
      BY <1>3 DEF RefsCounted
    <2>2. ASSUME refCount'[r] = refCount[r], ~GatherTask,
                 \A n \in Node : FreeDue(r, n)' <=> FreeDue(r, n)
          PROVE  refCount'[r][t] = Cardinality(Owed(r, t)')
      <3>1. completedNodes'[r] = completedNodes[r]
        BY <1>1, <1>3, <2>2, CompletedKept
      <3>2. Owed(r, t)' = Owed(r, t)
        BY <2>2, <3>1 DEF Owed, Consumers
      <3> QED
        BY <2>1, <2>2, <3>2
    <2>3. CASE UNCHANGED <<ready, refCount>> /\ ~GatherTask
      BY <2>2, <2>3 DEF FreeDue, FreeAt
    <2>4. ASSUME NEW P \in Seq(Callback), Quietly(P), ready' = ready \o P,
                 UNCHANGED refCount, ~GatherTask
          PROVE  refCount'[r][t] = Cardinality(Owed(r, t)')
      <3>1. /\ \A i \in DOMAIN ready : i \in DOMAIN ready' /\ ready'[i] = ready[i]
            /\ \A i \in DOMAIN ready' :
                 \/ i \in DOMAIN ready /\ ready'[i] = ready[i]
                 \/ i - Len(ready) \in DOMAIN P /\ ready'[i] = P[i - Len(ready)]
        BY <1>1, <2>4, QueueGrows
      <3>2. \A i \in DOMAIN ready' : ready'[i].cb = "free" =>
              i \in DOMAIN ready /\ ready'[i] = ready[i]
        BY <2>4, <3>1 DEF Quietly
      <3>3. \A n \in Node : FreeDue(r, n)' <=> FreeDue(r, n)
        BY <3>1, <3>2 DEF FreeDue, FreeAt
      <3> QED
        BY <2>2, <2>4, <3>3
    <2>5. CASE GatherTask
      <3>0. UNCHANGED refCount
        BY <2>5 DEF GatherTask
      <3> DEFINE q == Head(results.rest).req
                 m == Head(results.rest).node
      <3>1. /\ q \in Request /\ m \in Node /\ m \notin completedNodes[q]
            /\ completedNodes'[q] = completedNodes[q] \cup {m}
            /\ \A x \in Request \ {q} : completedNodes'[x] = completedNodes[x]
        BY <1>1, <2>5, HandledResult
      <3>2. \A n \in Node : FreeDue(r, n)' <=> FreeDue(r, n) \/ (r = q /\ n = m)
        BY <1>1, <2>5, ReleaseAdded
      <3> HIDE DEF q, m
      <3>3. Owed(r, t)' = Owed(r, t)
        BY <3>1, <3>2 DEF Owed, Consumers
      <3> QED
        BY <2>1, <3>0, <3>3
    <2>6. CASE ready # <<>> /\ ready' = Tail(ready) /\ Head(ready).cb # "free" /\ ~GatherTask
               /\ (UNCHANGED refCount \/ StartRequest \/ FinishRequest)
      <3>1. \A n \in Node : FreeDue(r, n)' <=> FreeDue(r, n)
        BY <1>1, <2>6, ReleaseServed
      <3>2. refCount'[r] = refCount[r]
        <4>1. CASE StartRequest
          <5>1. Head(ready).req # r
            BY <1>1, <1>3, <4>1, StartedRequest
          <5>2. refCount' = [refCount EXCEPT ![Head(ready).req] =
                   [u \in Tensor |-> Cardinality(Consumers(u))]]
            BY <4>1 DEF StartRequest
          <5> QED
            BY <1>1, <5>1, <5>2 DEF TypeOK, CoordinatorTypeOK, TensorTypeOK
        <4>2. CASE FinishRequest
          <5>1. Head(ready).req # r
            BY <1>1, <4>2, FinishedRequest
          <5>2. refCount' = [refCount EXCEPT ![Head(ready).req] = [u \in Tensor |-> 0]]
            BY <4>2 DEF FinishRequest
          <5> QED
            BY <1>1, <5>1, <5>2 DEF TypeOK, CoordinatorTypeOK, TensorTypeOK
        <4> QED
          BY <2>6, <4>1, <4>2
      <3> QED
        BY <2>2, <2>6, <3>1, <3>2
    <2>7. CASE UpdateFreeTensorDict /\ Head(ready).cb = "free" /\ ~GatherTask
      <3> DEFINE q == Head(ready).task.req
                 n == Head(ready).task.node
      <3>1. /\ q \in Request /\ n \in Node /\ FreeAt(1, q, n) /\ n \in completedNodes[q]
            /\ ready # <<>> /\ ready' = Tail(ready)
            /\ \A u \in Tensor : refCount'[q][u] =
                 IF u \in Inputs[n] THEN refCount[q][u] - 1 ELSE refCount[q][u]
            /\ \A x \in Request \ {q} : refCount'[x] = refCount[x]
        BY <1>1, <2>7, CountsReleased
      <3>2. \A m \in Node : FreeDue(r, m)' <=> FreeDue(r, m) /\ ~(r = q /\ m = n)
        <4>1. ready[1] = Head(ready) /\ Head(ready).task = [req |-> q, node |-> n]
          BY <1>1, <3>1, HeadTailProperties DEF FreeAt
        <4> HIDE DEF q, n
        <4>2. ASSUME NEW m \in Node
              PROVE  FreeDue(r, m)' <=> /\ FreeDue(r, m)
                                        /\ ~(Head(ready).cb = "free"
                                               /\ Head(ready).task = [req |-> r, node |-> m])
          BY <1>1, <3>1, ReleaseServed
        <4>3. ASSUME NEW m \in Node
              PROVE  [req |-> q, node |-> n] = [req |-> r, node |-> m] <=> r = q /\ m = n
          <5>1. ASSUME [req |-> q, node |-> n] = [req |-> r, node |-> m]
                PROVE  r = q /\ m = n
            <6>1. /\ [req |-> q, node |-> n].req = q /\ [req |-> q, node |-> n].node = n
                  /\ [req |-> r, node |-> m].req = r /\ [req |-> r, node |-> m].node = m
              OBVIOUS
            <6> QED
              BY <5>1, <6>1
          <5> QED
            BY <5>1
        <4> QED
          BY <2>7, <4>1, <4>2, <4>3
      <3> HIDE DEF q, n
      <3>3. completedNodes'[r] = completedNodes[r]
        BY <1>1, <1>3, <2>7, CompletedKept
      <3>4. CASE r # q
        BY <2>2, <2>7, <3>1, <3>2, <3>4
      <3>5. CASE r = q
        <4>1. Owed(r, t)' = Owed(r, t) \ {n}
          BY <3>1, <3>2, <3>3, <3>5 DEF Owed, Consumers
        <4>2. n \in Owed(r, t) <=> t \in Inputs[n]
          BY <3>1, <3>5 DEF Owed, Consumers, FreeDue, FreeAt
        <4>3. IsFiniteSet(Owed(r, t))
          BY FS_Subset, WorkflowAssumption DEF Owed, Consumers
        <4>4. Cardinality(Owed(r, t) \ {n}) =
                IF n \in Owed(r, t) THEN Cardinality(Owed(r, t)) - 1
                                    ELSE Cardinality(Owed(r, t))
          BY <4>3, FS_RemoveElement
        <4> QED
          BY <2>1, <3>1, <3>5, <4>1, <4>2, <4>4
      <3> QED
        BY <3>4, <3>5
    <2>8. CASE ~GatherTask
      <3>1. CASE ready # <<>> /\ ready' = Tail(ready)
        BY <1>1, <2>3, <2>4, <2>6, <2>7, <2>8, <3>1 DEF QueueStep
      <3>2. CASE ~(ready # <<>> /\ ready' = Tail(ready))
        BY <1>1, <2>3, <2>4, <2>8, <3>2 DEF QueueStep
      <3> QED
        BY <3>1, <3>2
    <2> QED
      BY <2>5, <2>8
  <1> QED
    BY <1>2, <1>3

\* The request of whatever a worker has reported is live.
LEMMA LiveResults ==
    ASSUME FlowInv, FreesInOrder
    PROVE  ResultsOfLiveRequests
  <1>1. TypeOK /\ InPlace /\ TasksPending /\ ResultsTold
    BY TasksArePending DEF FlowInv, TaskInv
  <1>2. ASSUME NEW w \in Worker, NEW i \in DOMAIN resultQueue[w],
               resultQueue[w][i].type = "task_complete", NEW j \in DOMAIN resultQueue[w][i].data
        PROVE  phase[resultQueue[w][i].data[j].req] = "live"
    <2> DEFINE res == resultQueue[w][i].data[j]
    <2>1. res \in ToSet(resultQueue[w][i].data)
      BY DEF ToSet
    <2> HIDE DEF res
    <2>2. res \in Response /\ TaskOf(res) \in Pending
      BY <1>1, <1>2, <2>1 DEF TasksPending
    <2> QED
      BY <2>2, PendingLive DEF res
  <1>3. ASSUME NEW w \in Worker, NEW i \in DOMAIN resultQueue[w],
               resultQueue[w][i].type # "task_complete", NEW b \in resultQueue[w][i].buffers
        PROVE  phase[b.req] = "live"
    <2>1. Behind(MakerOf(b), w, i)
      BY <1>1, <1>3 DEF ResultsTold, MessageOK
    <2>2. MakerOf(b) \in Pending
      <3>1. CASE \E e \in RunningAt(w) : TaskOf(e) = MakerOf(b)
        BY <1>1, <3>1 DEF TasksPending, EntriesAt
      <3>2. ASSUME NEW k \in DOMAIN resultQueue[w],
                   resultQueue[w][k].type = "task_complete",
                   NEW res \in ToSet(resultQueue[w][k].data), TaskOf(res) = MakerOf(b)
            PROVE  MakerOf(b) \in Pending
        BY <1>1, <3>2 DEF TasksPending
      <3> QED
        BY <2>1, <3>1, <3>2 DEF Behind
    <2> QED
      BY <2>2 DEF Pending, MakerOf
  <1>4. ASSUME NEW w \in Worker, NEW i \in DOMAIN resultQueue[w]
        PROVE  LET m == resultQueue[w][i]
               IN  \A r \in IF m.type = "task_complete"
                            THEN { m.data[j].req : j \in DOMAIN m.data }
                            ELSE { b.req : b \in m.buffers } : phase[r] = "live"
    <2>1. CASE resultQueue[w][i].type = "task_complete"
      BY <1>2, <2>1
    <2>2. CASE resultQueue[w][i].type # "task_complete"
      BY <1>3, <2>2
    <2> QED
      BY <2>1, <2>2
  <1>5. ASSUME NEW i \in DOMAIN ready, ready[i].cb = "free"
        PROVE  phase[ready[i].task.req] = "live"
    BY <1>5 DEF FreesInOrder
  <1> QED
    BY <1>4, <1>5 DEF ResultsOfLiveRequests

ReleaseInv == FlowInv /\ FreesInOrder /\ RefsCounted

LEMMA InitRelease ==
    ASSUME Init
    PROVE  ReleaseInv
  <1>1. FlowInv
    BY InitFlow
  <1>2. /\ ready = <<[cb |-> "scheduler"], [cb |-> "gather"]>>
        /\ phase = [r \in Request |-> "new"]
    BY DEF Init, CoordinatorInit
  <1>3. \A i \in DOMAIN ready : ready[i].cb # "free"
    BY <1>2
  <1> QED
    BY <1>1, <1>2, <1>3 DEF ReleaseInv, FreesInOrder, RefsCounted

LEMMA StepRelease ==
    ASSUME ReleaseInv, [Next]_vars
    PROVE  ReleaseInv'
  <1>1. FlowInv'
    BY StepFlow DEF ReleaseInv
  <1>2. TaskInv /\ TypeOK'
    BY <1>1 DEF ReleaseInv, FlowInv, TaskInv
  <1> QED
    BY <1>1, <1>2, StepReleases, StepCounts DEF ReleaseInv

LEMMA ReleaseHolds == Spec => []ReleaseInv
  <1>1. Init => ReleaseInv
    BY InitRelease
  <1>2. ReleaseInv /\ [Next]_vars => ReleaseInv'
    BY StepRelease
  <1> QED
    BY <1>1, <1>2, PTL DEF Spec

(***************************************************************************)
(* A result, or a release of inputs, never concerns a request that is      *)
(* gone: execute_workflow returns only after every release of its nodes.   *)
(***************************************************************************)
THEOREM ResultsFindTheirRequest == Spec => []ResultsOfLiveRequests
  <1>1. ReleaseInv => ResultsOfLiveRequests
    BY LiveResults DEF ReleaseInv
  <1> QED
    BY <1>1, ReleaseHolds, PTL

(***************************************************************************)
(* tensor_reference_count is, at any time, the number of nodes that still  *)
(* need the tensor or whose release of it is waiting in the event loop.    *)
(***************************************************************************)
THEOREM ReferencesCounted == Spec => []RefCountsConsumers
  <1>1. ReleaseInv => RefCountsConsumers
    BY CountsAgree DEF ReleaseInv, FlowInv, TaskInv
  <1> QED
    BY <1>1, ReleaseHolds, PTL

-----------------------------------------------------------------------------
(* The memory of the tensors *)

LEMMA HoldingsNat ==
    ASSUME TypeOK, NEW w \in Worker, NEW b \in Buffer
    PROVE  Holdings(w, b) \in 0 .. 2 /\ arena[w][b] \in Int
  BY DEF Holdings, TypeOK, WorkerTypeOK

\* Every tensor that is fetched has a buffer allocated for it.
LEMMA FetchesCounted ==
    ASSUME NEW entries \in Seq(Entry), NEW w \in Worker, NEW b \in Buffer
    PROVE  /\ Fetches(entries, w, b) \in Nat
           /\ (\E e \in ToSet(entries) : \E t \in Remote(e, w) : b = Named(e, t))
                => Fetches(entries, w, b) >= 1
  <1> DEFINE S == { i \in DOMAIN entries : b \in BuffersOf(entries[i], Remote(entries[i], w)) }
  <1>1. IsFiniteSet(S)
    <2>1. IsFiniteSet(DOMAIN entries)
      BY LenProperties, FS_Interval
    <2> QED
      BY <2>1, FS_Subset
  <1>2. Cardinality(S) \in Nat /\ (S # {} => Cardinality(S) # 0)
    BY <1>1, FS_CardinalityType, FS_EmptySet
  <1>3. (\E e \in ToSet(entries) : \E t \in Remote(e, w) : b = Named(e, t)) => S # {}
    BY DEF ToSet, BuffersOf, Named
  <1>4. Fetches(entries, w, b) = Cardinality(S)
    BY DEF Fetches
  <1> HIDE DEF S
  <1> QED
    BY <1>2, <1>3, <1>4

\* The arena after a group has started, or after outputs were stored.
LEMMA ArenaStarted ==
    ASSUME TypeOK, NEW w \in Worker, StartGroup(w), NEW b \in Buffer
    PROVE  LET m == Head(taskQueue[w])
           IN  /\ arena'[w][b] = arena[w][b] - (IF b \in m.free \cap store[w] THEN 1 ELSE 0)
                                  + Fetches(m.entries, w, b)
               /\ \A v \in Worker \ {w} : arena'[v] = arena[v]
  <1> DEFINE m == Head(taskQueue[w])
             freed == m.free \cap store[w]
  <1>1. arena' = [arena EXCEPT ![w] = [c \in Buffer |->
            @[c] - (IF c \in freed THEN 1 ELSE 0) + Fetches(m.entries, w, c)]]
    BY DEF StartGroup
  <1>2. arena \in [Worker -> [Buffer -> Int]]
    BY DEF TypeOK, WorkerTypeOK
  <1> HIDE DEF m, freed
  <1>3. arena'[w] = [c \in Buffer |->
            arena[w][c] - (IF c \in freed THEN 1 ELSE 0) + Fetches(m.entries, w, c)]
    BY <1>1, <1>2
  <1>4. arena'[w][b] = arena[w][b] - (IF b \in freed THEN 1 ELSE 0) + Fetches(m.entries, w, b)
    BY <1>3
  <1>5. \A v \in Worker \ {w} : arena'[v] = arena[v]
    BY <1>1, <1>2
  <1> QED
    BY <1>4, <1>5 DEF m, freed

LEMMA ArenaAllocated ==
    ASSUME TypeOK, NEW w \in Worker, NEW new, arena' = Allocated(w, new), NEW b \in Buffer
    PROVE  /\ arena'[w][b] = IF b \in new THEN arena[w][b] + 1 ELSE arena[w][b]
           /\ \A v \in Worker \ {w} : arena'[v] = arena[v]
  <1>1. arena \in [Worker -> [Buffer -> Int]]
    BY DEF TypeOK, WorkerTypeOK
  <1>2. /\ arena'[w] = [c \in Buffer |-> IF c \in new THEN arena[w][c] + 1 ELSE arena[w][c]]
        /\ \A v \in Worker \ {w} : arena'[v] = arena[v]
    BY <1>1 DEF Allocated
  <1> QED
    BY <1>2

LEMMA StepMemory ==
    ASSUME TypeOK, TypeOK', NoDanglingTensor, [Next]_vars
    PROVE  NoDanglingTensor'
  <1>1. \A w \in Worker, b \in Buffer : Holdings(w, b) <= arena[w][b]
    BY DEF NoDanglingTensor
  <1>2. CASE UNCHANGED <<store, received, arena>>
    BY <1>1, <1>2 DEF NoDanglingTensor, Holdings
  \* A step of worker w: the memory of the others is as it was.
  <1>3. ASSUME NEW w \in Worker,
               \A v \in Worker \ {w} : /\ store'[v] = store[v] /\ received'[v] = received[v]
                                       /\ arena'[v] = arena[v],
               \A b \in Buffer : Holdings(w, b)' <= arena'[w][b]
        PROVE  NoDanglingTensor'
    <2> SUFFICES ASSUME NEW v \in Worker, NEW b \in Buffer
                 PROVE  Holdings(v, b)' <= arena'[v][b]
      BY DEF NoDanglingTensor
    <2>1. CASE v = w
      BY <1>3, <2>1
    <2>2. CASE v # w
      BY <1>1, <1>3, <2>2 DEF Holdings
    <2> QED
      BY <2>1, <2>2
  <1>4. ASSUME NEW w \in Worker, StartGroup(w)
        PROVE  NoDanglingTensor'
    <2> DEFINE m == Head(taskQueue[w])
               Fetched(b) == \E e \in ToSet(m.entries) : \E t \in Remote(e, w) : b = Named(e, t)
    <2>1. /\ m.entries \in Seq(Entry) /\ received' = received
          /\ \A v \in Worker \ {w} : store'[v] = store[v]
          /\ \A b : b \in store'[w] <=> (b \in store[w] /\ b \notin m.free) \/ Fetched(b)
      BY <1>4, GroupStarts
    <2>2. ASSUME NEW b \in Buffer
          PROVE  /\ arena'[w][b] = arena[w][b] - (IF b \in m.free \cap store[w] THEN 1 ELSE 0)
                                    + Fetches(m.entries, w, b)
                 /\ \A v \in Worker \ {w} : arena'[v] = arena[v]
      BY <1>4, ArenaStarted
    <2>3. ASSUME NEW v \in Worker \ {w}
          PROVE  arena'[v] = arena[v]
      <3>1. CASE Buffer = {}
        BY <3>1 DEF TypeOK, WorkerTypeOK
      <3>2. CASE Buffer # {}
        BY <2>2, <3>2
      <3> QED
        BY <3>1, <3>2
    <2>4. ASSUME NEW b \in Buffer
          PROVE  Holdings(w, b)' <= arena'[w][b]
      <3>1. Fetches(m.entries, w, b) \in Nat /\ (Fetched(b) => Fetches(m.entries, w, b) >= 1)
        BY <2>1, FetchesCounted
      <3>2. arena[w][b] \in Int /\ Holdings(w, b) <= arena[w][b]
        BY <1>1, HoldingsNat
      <3>3. b \in store'[w] <=> (b \in store[w] /\ b \notin m.free) \/ Fetched(b)
        BY <2>1
      <3> DEFINE f == Fetches(m.entries, w, b)
      <3>4. arena'[w][b] = arena[w][b] - (IF b \in m.free \cap store[w] THEN 1 ELSE 0) + f
        BY <2>2
      <3>5. f \in Nat /\ (Fetched(b) => f >= 1)
        BY <3>1
      <3> HIDE DEF f, Fetched, m
      <3>6. CASE b \in m.free \cap store[w]
        BY <2>1, <3>2, <3>3, <3>4, <3>5, <3>6 DEF Holdings
      <3>7. CASE b \notin m.free \cap store[w]
        BY <2>1, <3>2, <3>3, <3>4, <3>5, <3>7 DEF Holdings
      <3> QED
        BY <3>6, <3>7
    <2> HIDE DEF m, Fetched
    <2> QED
      BY <1>3, <2>1, <2>3, <2>4
  <1>5. ASSUME NEW w \in Worker, FetchLazy(w)
        PROVE  NoDanglingTensor'
    <2>1. PICK m \in lazyQueue[w] :
            /\ received' = [received EXCEPT ![w] = @ \cup {Named(m, m.tensor)}]
            /\ arena' = [arena EXCEPT ![w][Named(m, m.tensor)] = @ + 1]
            /\ UNCHANGED store
      BY <1>5 DEF FetchLazy, Named
    <2> DEFINE c == Named(m, m.tensor)
    <2>2. /\ received \in [Worker -> SUBSET Buffer] /\ arena \in [Worker -> [Buffer -> Int]]
          /\ c \in Buffer
      BY <2>1 DEF TypeOK, WorkerTypeOK, CoordinatorTypeOK, ChannelTypeOK, LazyArrival, Buffer,
                  Named
    <2> HIDE DEF c
    <2>3. /\ \A v \in Worker \ {w} : received'[v] = received[v] /\ arena'[v] = arena[v]
          /\ received'[w] = received[w] \cup {c}
          /\ arena'[w] = [arena[w] EXCEPT ![c] = @ + 1]
      BY <2>1, <2>2 DEF c
    <2>4. ASSUME NEW b \in Buffer
          PROVE  Holdings(w, b)' <= arena'[w][b]
      <3>1. Holdings(w, b) <= arena[w][b] /\ arena[w][b] \in Int
        BY <1>1, HoldingsNat
      <3>2. arena'[w][b] = IF b = c THEN arena[w][b] + 1 ELSE arena[w][b]
        BY <2>2, <2>3
      <3> QED
        BY <2>1, <2>3, <3>1, <3>2 DEF Holdings
    <2> QED
      BY <1>3, <2>1, <2>3, <2>4
  <1>6. ASSUME NEW w \in Worker, AcquireLazy(w)
        PROVE  NoDanglingTensor'
    <2>1. PICK b \in current[w].lazy :
            /\ b \in store[w] \/ b \in received[w]
            /\ received' = IF b \in store[w] THEN received
                           ELSE [received EXCEPT ![w] = @ \ {b}]
            /\ store' = [store EXCEPT ![w] = @ \cup {b}]
            /\ UNCHANGED arena
      BY <1>6 DEF AcquireLazy
    <2>2. received \in [Worker -> SUBSET Buffer] /\ store \in [Worker -> SUBSET Buffer]
      BY DEF TypeOK, WorkerTypeOK
    <2>3. /\ \A v \in Worker \ {w} : received'[v] = received[v] /\ store'[v] = store[v]
          /\ store'[w] = store[w] \cup {b}
          /\ received'[w] = IF b \in store[w] THEN received[w] ELSE received[w] \ {b}
      BY <2>1, <2>2
    <2>4. ASSUME NEW c \in Buffer
          PROVE  Holdings(w, c)' <= arena'[w][c]
      <3>1. Holdings(w, c) <= arena[w][c] /\ arena[w][c] \in Int
        BY <1>1, HoldingsNat
      <3>2. Holdings(w, c)' = Holdings(w, c)
        BY <2>1, <2>3 DEF Holdings
      <3> QED
        BY <2>1, <3>1, <3>2
    <2> QED
      BY <1>3, <2>1, <2>3, <2>4
  \* Outputs are stored in memory of their own.
  <1>7. ASSUME NEW w \in Worker, NEW new, store' = [store EXCEPT ![w] = @ \cup new],
               arena' = Allocated(w, new), UNCHANGED received
        PROVE  NoDanglingTensor'
    <2>1. store \in [Worker -> SUBSET Buffer]
      BY DEF TypeOK, WorkerTypeOK
    <2>2. store'[w] = store[w] \cup new /\ \A v \in Worker \ {w} : store'[v] = store[v]
      BY <1>7, <2>1
    <2>3. \A v \in Worker \ {w} : arena'[v] = arena[v]
      BY <1>7 DEF Allocated, TypeOK, WorkerTypeOK
    <2>4. ASSUME NEW b \in Buffer
          PROVE  Holdings(w, b)' <= arena'[w][b]
      <3>1. Holdings(w, b) <= arena[w][b] /\ arena[w][b] \in Int
        BY <1>1, HoldingsNat
      <3>2. arena'[w][b] = IF b \in new THEN arena[w][b] + 1 ELSE arena[w][b]
        BY <1>7, ArenaAllocated
      <3> QED
        BY <1>7, <2>2, <3>1, <3>2 DEF Holdings
    <2> QED
      BY <1>3, <1>7, <2>2, <2>3, <2>4
  <1>8. ASSUME NEW w \in Worker, YieldOutput(w)
        PROVE  NoDanglingTensor'
    <2>1. PICK buffers \in SUBSET current[w].yields :
            /\ store' = [store EXCEPT ![w] = @ \cup buffers]
            /\ arena' = Allocated(w, buffers) /\ UNCHANGED received
      BY <1>8 DEF YieldOutput
    <2> QED
      BY <1>7, <2>1
  <1>9. ASSUME NEW w \in Worker, CompleteGroup(w)
        PROVE  NoDanglingTensor'
    <2> DEFINE new == OverEntries(current[w].entries, LAMBDA e : BuffersOf(e, LateOutputs(e)))
    <2>1. /\ store' = [store EXCEPT ![w] = @ \cup new]
          /\ arena' = Allocated(w, new) /\ UNCHANGED received
      BY <1>9 DEF CompleteGroup
    <2> HIDE DEF new
    <2> QED
      BY <1>7, <2>1
  <1> QED
    BY <1>2, <1>4, <1>5, <1>6, <1>8, <1>9 DEF Next, WorkerNext, vars, workerVars

(***************************************************************************)
(* A tensor a worker has, in its tensor map or among those that arrived,   *)
(* has memory of its own in the arena: no free, fetch or early arrival     *)
(* leaves an entry that points to a released buffer.                       *)
(***************************************************************************)
THEOREM TensorsHaveMemory == Spec => []NoDanglingTensor
  <1>1. Init => TypeOK /\ NoDanglingTensor
    <2>1. Init => NoDanglingTensor
      BY DEF Init, WorkerInit, NoDanglingTensor, Holdings
    <2> QED
      BY <2>1, InitType
  <1>2. TypeOK /\ NoDanglingTensor /\ [Next]_vars => (TypeOK /\ NoDanglingTensor)'
    <2>1. TypeOK /\ [Next]_vars => TypeOK'
      BY StepType
    <2> QED
      BY <2>1, StepMemory
  <1> QED
    BY <1>1, <1>2, PTL DEF Spec

-----------------------------------------------------------------------------
(* The copies a location names, and the lazy inputs still to come *)

\* Every node that takes t has completed and given it up, or the request is over.
GivenUp(r, t) ==
    /\ Started(r)
    /\ phase[r] = "live" =>
         \A n \in Consumers(t) : n \in completedNodes[r] /\ ~FreeDue(r, n)

Released(b) == GivenUp(b.req, b.tensor)

HeldAt(b, w) == b \in store[w] \/ Released(b)

\* What is to be freed on w: listed for its next group, or on its way with one.
FreesAt(w) == freeDict[w] \cup (UNION { m.free : m \in ToSet(taskQueue[w]) })

FreesReleased == \A w \in Worker : \A b \in FreesAt(w) : Released(b)

\* Locations are of inputs.
EntriesLocated ==
    \A w \in Worker : \A e \in EntriesAt(w) : \A t \in Tensor :
        /\ e.at[t] # {} => t \in Inputs[e.node]
        /\ \A v \in e.at[t] : HeldAt(Named(e, t), v)
        /\ t \in e.lazy => t \in LazyInputs[e.node]

MapHeld ==
    \A r \in Request, t \in Tensor : \A v \in tensorMap[r][t] :
        HeldAt([req |-> r, tensor |-> t], v)

\* What a running group took or called for is in the tensor map of the worker.
RunHeld ==
    \A w \in Worker : \A e \in RunningAt(w) :
        /\ \A t \in Remote(e, w) : HeldAt(Named(e, t), w)
        /\ \A t \in e.lazy : Named(e, t) \in current[w].lazy \/ HeldAt(Named(e, t), w)

ResultsHeld ==
    /\ \A w \in Worker : \A m \in ToSet(resultQueue[w]) : \A b \in Announced(m) : HeldAt(b, w)
    /\ \A b \in ToldBy(results.rest) : HeldAt(b, results.from)

HeldInv == FreesReleased /\ EntriesLocated /\ MapHeld /\ RunHeld /\ ResultsHeld

\* A lazy input that is still to come to w.
Expected(x, t, w) ==
    \/ <<x.node, w>> \in lazyDependents[x.req][t]
    \/ \E m \in lazyQueue[w] : m.req = x.req /\ m.tensor = t
    \/ Named(x, t) \in received[w] \cup store[w]

\* What the entries in the queue of w, and in its group, still lack.
WaitersServed ==
    \A w \in Worker :
        /\ \A m \in ToSet(taskQueue[w]) : \A e \in ToSet(m.entries) : \A t \in e.lazy :
             Expected(e, t, w)
        /\ \A e \in RunningAt(w) : \A t \in e.lazy :
             Named(e, t) \in current[w].lazy => Expected(e, t, w)

NoticePending(r, t) ==
    \E c \in ToSet(ready) : c.cb = "notify" /\ c.req = r /\ t \in c.tensors

WaitersTold ==
    \A r \in Request, t \in Tensor :
        lazyDependents[r][t] # {} /\ Available(r, t) => NoticePending(r, t)

LazyInv == WaitersServed /\ WaitersTold

-----------------------------------------------------------------------------
(* What was given up stays so *)

LEMMA NoRelease ==
    ASSUME TypeOK, CallsOnce, InPlace, [Next]_vars, NEW r \in Request, NEW n \in Node,
           n \in completedNodes[r], FreeDue(r, n)'
    PROVE  FreeDue(r, n)
  <1>1. ready \in Seq(Callback)
    BY DEF TypeOK, CoordinatorTypeOK, LoopTypeOK
  <1>2. PICK i \in DOMAIN ready' : ready'[i].cb = "free" /\ ready'[i].task = [req |-> r, node |-> n]
    BY DEF FreeDue, FreeAt
  <1>3. ASSUME NEW k \in DOMAIN ready, ready[k] = ready'[i]
        PROVE  FreeDue(r, n)
    BY <1>2, <1>3 DEF FreeDue, FreeAt
  <1>4. CASE UNCHANGED ready
    BY <1>2, <1>3, <1>4
  <1>5. ASSUME NEW P \in Seq(Callback), Quietly(P), ready' = ready \o P
        PROVE  FreeDue(r, n)
    <2>1. \/ i \in DOMAIN ready /\ ready'[i] = ready[i]
          \/ i - Len(ready) \in DOMAIN P /\ ready'[i] = P[i - Len(ready)]
      BY <1>1, <1>5, QueueGrows
    <2> QED
      BY <1>2, <1>3, <1>5, <2>1 DEF Quietly
  <1>6. CASE ready # <<>> /\ ready' = Tail(ready)
    BY <1>1, <1>3, <1>6, QueueShrinks
  <1>7. CASE GatherTask
    <2> DEFINE q == Head(results.rest).req
               m == Head(results.rest).node
    <2>0. PICK new \in Seq(Callback) : \E k \in DOMAIN new :
            /\ ready' = ready \o new
            /\ new[k] = [cb |-> "free", task |-> [req |-> q, node |-> m]]
            /\ \A j \in DOMAIN new : new[j].cb = "free" => j = k
      BY <1>7, ReleaseCreated
    <2>1. PICK k \in DOMAIN new :
            /\ ready' = ready \o new
            /\ new[k] = [cb |-> "free", task |-> [req |-> q, node |-> m]]
            /\ \A j \in DOMAIN new : new[j].cb = "free" => j = k
      BY <2>0
    <2>2. m \notin completedNodes[q]
      BY <1>7, HandledResult
    <2>3. \/ i \in DOMAIN ready /\ ready'[i] = ready[i]
          \/ i - Len(ready) \in DOMAIN new /\ ready'[i] = new[i - Len(ready)]
      BY <1>1, <2>1, QueueGrows
    <2>4. CASE i - Len(ready) \in DOMAIN new /\ ready'[i] = new[i - Len(ready)]
      <3>1. ready'[i].task = [req |-> q, node |-> m]
        BY <1>2, <2>1, <2>4
      <3>2. r = q /\ n = m
        BY <1>2, <3>1
      <3> QED
        BY <2>2, <3>2
    <2> QED
      BY <1>3, <2>3, <2>4
  <1>8. QueueStep
    BY QueueSteps
  <1> QED
    BY <1>4, <1>5, <1>6, <1>7, <1>8 DEF QueueStep

LEMMA GivenUpKept ==
    ASSUME TypeOK, CallsOnce, InPlace, [Next]_vars, NEW r \in Request, NEW t \in Tensor,
           GivenUp(r, t)
    PROVE  GivenUp(r, t)'
  <1>1. Started(r)' /\ (phase'[r] = "live" => phase[r] = "live")
    BY StepKeeps DEF Kept, GivenUp
  <1>2. SUFFICES ASSUME phase'[r] = "live", NEW n \in Consumers(t)
                 PROVE  n \in completedNodes'[r] /\ ~FreeDue(r, n)'
    BY <1>1 DEF GivenUp
  <1>3. phase[r] = "live" /\ n \in Node /\ n \in completedNodes[r] /\ ~FreeDue(r, n)
    BY <1>1, <1>2 DEF GivenUp, Consumers
  <1>4. n \in completedNodes'[r]
    <2>1. CASE GatherTask
      BY <1>3, <2>1, HandledResult
    <2>2. CASE ~GatherTask
      BY <1>2, <1>3, <2>2, CompletedKept
    <2> QED
      BY <2>1, <2>2
  <1> QED
    BY <1>3, <1>4, NoRelease

LEMMA ReleasedKept ==
    ASSUME TypeOK, CallsOnce, InPlace, [Next]_vars, NEW b \in Buffer, Released(b)
    PROVE  Released(b)'
  BY GivenUpKept DEF Released, Buffer

\* A pending task has not given its inputs up.
LEMMA StillTaken ==
    ASSUME NEW e, TaskOf(e) \in Pending, NEW t \in Tensor, t \in Inputs[e.node]
    PROVE  ~Released(Named(e, t))
  BY DEF TaskOf, Pending, Task, Released, GivenUp, Consumers, Named

-----------------------------------------------------------------------------
(* Only what was given up is freed *)

LEMMA FreesListed ==
    ASSUME TypeOK, [Next]_vars, NEW w \in Worker
    PROVE  freeDict'[w] \subseteq freeDict[w] \/ UpdateFreeTensorDict
  <1>1. CASE UNCHANGED vars
    BY <1>1 DEF vars, coordinatorVars, tensorVars
  <1>2. CASE WorkerNext
    <2>1. UNCHANGED coordinatorSide
      BY <1>2 DEF WorkerNext, StartGroup, FetchLazy, AcquireLazy, YieldOutput, CompleteGroup
    <2> QED
      BY <2>1 DEF coordinatorSide, tensorVars
  <1>3. CASE CoordinatorNext
    <2>1. CASE ScheduleTaskGroup
      <3>1. freeDict' = [freeDict EXCEPT ![Head(ready).dst] = {}]
        BY <2>1 DEF ScheduleTaskGroup
      <3> QED
        BY <3>1 DEF TypeOK, CoordinatorTypeOK, TensorTypeOK
    <2>2. CASE RunCallback /\ ~ScheduleTaskGroup
      BY <2>2 DEF RunCallback, StartRequest, PutTask, FinishRequest,
                  NotifyLazyInputAvailable, SchedulerWake, GatherWake, tensorVars
    <2>3. CASE SchedulerStep \/ GatherTask \/ GatherSleep
      BY <2>3 DEF SchedulerStep, PickFirstTask, JoinGroup, AssignGroup, SchedulerSleep,
                  GatherTask, GatherSleep, tensorVars
    <2>4. CASE \E requests \in SUBSET Request, due \in DueTimers : LoopIteration(requests, due)
      BY <2>4 DEF LoopIteration, tensorVars
    <2>5. CASE \E v \in Worker : GatherTensorBatch(v) \/ GatherTaskComplete(v)
      BY <2>5 DEF GatherTensorBatch, GatherTaskComplete, tensorVars
    <2> QED
      BY <1>3, <2>1, <2>2, <2>3, <2>4, <2>5 DEF CoordinatorNext
  <1> QED
    BY <1>1, <1>2, <1>3 DEF Next

LEMMA FreesCome ==
    ASSUME TypeOK, [Next]_vars, NEW w \in Worker, NEW b \in FreesAt(w)'
    PROVE  b \in FreesAt(w) \/ (UpdateFreeTensorDict /\ b \in freeDict'[w])
  <1>1. taskQueue[w] \in Seq(TaskMessage)
    BY DEF TypeOK, CoordinatorTypeOK, ChannelTypeOK
  <1>2. ASSUME NEW m \in ToSet(taskQueue'[w]), b \in m.free
        PROVE  b \in FreesAt(w)
    <2>1. CASE m \in ToSet(taskQueue[w])
      BY <1>2, <2>1 DEF FreesAt
    <2>2. CASE m = Dispatched /\ w = Head(ready).dst
      BY <1>2, <2>2 DEF FreesAt, Dispatched
    <2>3. CASE taskQueue'[w] = Append(taskQueue[w], Dispatched) /\ w = Head(ready).dst
      <3>1. ToSet(taskQueue'[w]) = ToSet(taskQueue[w]) \cup {Dispatched}
        BY <1>1, <2>3, Elements
      <3> QED
        BY <1>2, <2>1, <2>2, <2>3, <3>1
    <2>4. CASE taskQueue[w] # <<>> /\ taskQueue'[w] = Tail(taskQueue[w])
      <3>1. ToSet(taskQueue'[w]) \subseteq ToSet(taskQueue[w])
        BY <1>1, <2>4, Elements
      <3> QED
        BY <1>2, <2>1, <3>1
    <2>5. CASE taskQueue'[w] = taskQueue[w]
      BY <1>2, <2>1, <2>5
    <2> QED
      BY <2>3, <2>4, <2>5, QueueChanges
  <1>3. CASE b \in freeDict'[w]
    BY <1>3, FreesListed DEF FreesAt
  <1> QED
    BY <1>2, <1>3 DEF FreesAt

LEMMA StepFrees ==
    ASSUME ReleaseInv, ReleaseInv', FreesReleased, [Next]_vars
    PROVE  FreesReleased'
  <1>1. TypeOK /\ CallsOnce /\ InPlace /\ TypeOK' /\ FreesInOrder
    BY DEF ReleaseInv, FlowInv, TaskInv
  <1>2. ASSUME NEW w \in Worker, NEW b \in FreesAt(w)'
        PROVE  Released(b)'
    <2>1. CASE b \in FreesAt(w)
      <3>1. Released(b)
        BY <2>1 DEF FreesReleased
      <3>2. b \in Buffer
        <4>1. freeDict[w] \subseteq Buffer /\ taskQueue[w] \in Seq(TaskMessage)
          BY <1>1 DEF TypeOK, CoordinatorTypeOK, TensorTypeOK, ChannelTypeOK
        <4>2. \A m \in ToSet(taskQueue[w]) : m \in TaskMessage
          BY <4>1, Elements
        <4> QED
          BY <2>1, <4>1, <4>2 DEF FreesAt, TaskMessage
      <3> QED
        BY <1>1, <3>1, <3>2, ReleasedKept
    <2>2. CASE UpdateFreeTensorDict /\ b \in freeDict'[w] /\ b \notin freeDict[w]
      <3>3. PICK r \in Request, n \in Node :
              /\ r = Head(ready).task.req /\ n = Head(ready).task.node
              /\ phase[r] = "live"
              /\ \A u \in Tensor : refCount'[r][u] =
                   IF u \in Inputs[n] THEN refCount[r][u] - 1 ELSE refCount[r][u]
        BY <1>1, <2>2, CountsReleased
      <3>1. b \in freeDict[w] \cup
                { [req |-> r, tensor |-> t] :
                    t \in { u \in Exhausted(r, n) : w \in tensorMap[r][u] } }
        BY <2>2, <3>3 DEF UpdateFreeTensorDict
      <3>2. PICK t \in Exhausted(r, n) : b = [req |-> r, tensor |-> t]
        BY <2>2, <3>1
      <3>4. t \in Tensor /\ t \in Inputs[n] /\ refCount[r][t] = 1
        BY <3>2, <3>3, WorkflowAssumption DEF Exhausted
      <3>5. refCount'[r][t] = 0
        BY <3>3, <3>4
      <3>6. phase'[r] = "live"
        BY <2>2, <3>3 DEF UpdateFreeTensorDict, requestVars
      <3>7. Cardinality(Owed(r, t)') = 0
        BY <3>3, <3>4, <3>5, <3>6 DEF ReleaseInv, RefsCounted
      <3>8. IsFiniteSet(Owed(r, t)')
        BY WorkflowAssumption, FS_Subset DEF Owed, Consumers
      <3>9. Owed(r, t)' = {}
        BY <3>7, <3>8, FS_EmptySet
      <3>10. GivenUp(r, t)'
        BY <3>6, <3>9 DEF GivenUp, Owed, Started
      <3> QED
        BY <3>2, <3>10 DEF Released
    <2> QED
      BY <1>1, <1>2, <2>1, <2>2, FreesCome DEF FreesAt
  <1> QED
    BY <1>2 DEF FreesReleased

\* A copy stays where it is until it was given up.
LEMMA HeldKept ==
    ASSUME TypeOK, CallsOnce, InPlace, FreesReleased, [Next]_vars,
           NEW b \in Buffer, NEW w \in Worker, HeldAt(b, w)
    PROVE  HeldAt(b, w)'
  <1>1. CASE Released(b)
    BY <1>1, ReleasedKept DEF HeldAt
  <1>2. CASE b \in store[w] /\ ~Released(b)
    <2>1. b \in store'[w]
      <3>1. CASE UNCHANGED store
        BY <1>2, <3>1
      <3>2. ASSUME NEW v \in Worker, StartGroup(v)
            PROVE  b \in store'[w]
        <4>1. CASE w = v
          <5>1. taskQueue[v] \in Seq(TaskMessage) /\ taskQueue[v] # <<>>
            BY <3>2, GroupStarts
          <5>2. Head(taskQueue[v]) \in ToSet(taskQueue[v])
            BY <5>1, Elements
          <5>3. b \notin Head(taskQueue[v]).free
            BY <1>2, <5>2 DEF FreesReleased, FreesAt
          <5> QED
            BY <1>2, <3>2, <4>1, <5>3, GroupStarts
        <4>2. CASE w # v
          <5>1. w \in Worker \ {v}
            BY <4>2
          <5> QED
            BY <1>2, <3>2, <5>1, GroupStarts
        <4> QED
          BY <4>1, <4>2
      <3>3. ASSUME NEW v \in Worker, AcquireLazy(v) \/ YieldOutput(v) \/ CompleteGroup(v)
            PROVE  store[w] \subseteq store'[w]
        <4>1. CASE w = v
          BY <3>3, <4>1, LazyAcquired, OutputYielded, GroupCompletes
        <4>2. CASE w # v
          <5>1. w \in Worker \ {v}
            BY <4>2
          <5> QED
            BY <3>3, <5>1, LazyAcquired, OutputYielded, GroupCompletes
        <4> QED
          BY <4>1, <4>2
      <3> QED
        BY <1>2, <3>1, <3>2, <3>3, Footprints DEF Footprint
    <2> QED
      BY <2>1 DEF HeldAt
  <1> QED
    BY <1>1, <1>2 DEF HeldAt

-----------------------------------------------------------------------------
(* A location is that of a copy, or of a tensor that was given up *)

\* What comes into a tensor map.
LEMMA MapGrows ==
    ASSUME TypeOK, CallsOnce, InPlace, [Next]_vars, NEW r \in Request, NEW t \in Tensor,
           NEW v \in tensorMap'[r][t]
    PROVE  LET b == [req |-> r, tensor |-> t]
           IN  \/ v \in tensorMap[r][t]
               \/ v = results.from /\ b \in ToldBy(results.rest)
               \/ /\ v \in Worker /\ resultQueue[v] # <<>>
                  /\ b \in Announced(Head(resultQueue[v]))
                  /\ Head(resultQueue[v]) \in ToSet(resultQueue[v])
  <1> DEFINE b == [req |-> r, tensor |-> t]
  <1>1. CASE UNCHANGED tensorMap
    BY <1>1
  <1>2. CASE FinishRequest
    <2>1. CASE r = Head(ready).req
      BY <1>2, <2>1, FinishedRequest DEF NoTensors
    <2>2. CASE r # Head(ready).req
      BY <1>2, <2>2, FinishedRequest
    <2> QED
      BY <2>1, <2>2
  <1>3. CASE GatherTask
    <2>1. CASE r = Head(results.rest).req /\ t \in Head(results.rest).tensors
      <3>1. /\ Head(results.rest) \in ToSet(results.rest)
            /\ tensorMap'[r][t] = tensorMap[r][t] \cup {results.from}
        BY <1>3, <2>1, HandledResult
      <3>2. b \in BuffersOf(Head(results.rest), Head(results.rest).tensors)
        BY <2>1 DEF BuffersOf
      <3> QED
        BY <3>1, <3>2 DEF ToldBy
    <2>2. CASE ~(r = Head(results.rest).req /\ t \in Head(results.rest).tensors)
      BY <1>3, <2>2, HandledResult
    <2> QED
      BY <2>1, <2>2
  <1>4. ASSUME NEW w \in Worker, GatherTensorBatch(w)
        PROVE  \/ v \in tensorMap[r][t]
               \/ /\ v \in Worker /\ resultQueue[v] # <<>>
                  /\ b \in Announced(Head(resultQueue[v]))
                  /\ Head(resultQueue[v]) \in ToSet(resultQueue[v])
    <2> DEFINE m == Head(resultQueue[w])
    <2>1. /\ resultQueue[w] \in Seq(ResultMessage) /\ resultQueue[w] # <<>>
          /\ m.type = "tensor_batch_ready"
          /\ tensorMap'[r][t] = IF b \in m.buffers THEN tensorMap[r][t] \cup {w}
                                                   ELSE tensorMap[r][t]
      BY <1>4, TakenFromBatch
    <2>2. m \in ToSet(resultQueue[w])
      BY <2>1, Elements
    <2>3. CASE b \in m.buffers /\ v = w
      BY <2>1, <2>2, <2>3 DEF Announced
    <2> HIDE DEF m, b
    <2> QED
      BY <2>1, <2>3
  <1> QED
    BY <1>1, <1>2, <1>3, <1>4, Footprints DEF Footprint

LEMMA StepMap ==
    ASSUME TypeOK, CallsOnce, InPlace, HeldInv, [Next]_vars
    PROVE  MapHeld'
  <1> SUFFICES ASSUME NEW r \in Request, NEW t \in Tensor, NEW v \in tensorMap'[r][t]
               PROVE  HeldAt([req |-> r, tensor |-> t], v)'
    BY DEF MapHeld
  <1>1. PICK b \in Buffer : b = [req |-> r, tensor |-> t]
    BY DEF Buffer
  <1>2. FreesReleased /\ MapHeld /\ ResultsHeld
    BY DEF HeldInv
  <1>3. /\ tensorMap[r][t] \subseteq Worker /\ results.from \in Worker
    BY DEF TypeOK, CoordinatorTypeOK, TensorTypeOK, ResultsTypeOK
  <1>4. v \in Worker /\ HeldAt(b, v)
    <2>1. CASE v \in tensorMap[r][t]
      BY <1>1, <1>2, <1>3, <2>1 DEF MapHeld
    <2>2. CASE v = results.from /\ b \in ToldBy(results.rest)
      BY <1>2, <1>3, <2>2 DEF ResultsHeld
    <2>3. CASE /\ v \in Worker /\ resultQueue[v] # <<>>
               /\ b \in Announced(Head(resultQueue[v]))
               /\ Head(resultQueue[v]) \in ToSet(resultQueue[v])
      BY <1>2, <2>3 DEF ResultsHeld
    <2> QED
      BY <1>1, <2>1, <2>2, <2>3, MapGrows
  <1>5. HeldAt(b, v)'
    BY <1>2, <1>4, HeldKept
  <1> QED
    BY <1>1, <1>5

LEMMA StepLocated ==
    ASSUME TypeOK, CallsOnce, InPlace, HeldInv, [Next]_vars
    PROVE  EntriesLocated'
  <1>1. FreesReleased /\ EntriesLocated /\ MapHeld /\ TasksPending
    BY TasksArePending DEF HeldInv
  <1> SUFFICES ASSUME NEW w \in Worker, NEW e \in EntriesAt(w)', NEW t \in Tensor
               PROVE  /\ e.at[t] # {} => t \in Inputs[e.node]
                      /\ \A v \in e.at[t] : HeldAt(Named(e, t), v)'
                      /\ t \in e.lazy => t \in LazyInputs[e.node]
    BY DEF EntriesLocated
  <1>2. /\ e \in Entry
        /\ e.at[t] # {} => t \in Inputs[e.node]
        /\ \A v \in e.at[t] : HeldAt(Named(e, t), v)
        /\ t \in e.lazy => t \in LazyInputs[e.node]
    <2>1. CASE e \in EntriesAt(w)
      BY <1>1, <2>1 DEF EntriesLocated, TasksPending
    <2>2. ASSUME NEW x \in ToSet(Head(ready).group), e = EntryFor(x), ScheduleTaskGroup
          PROVE  /\ e \in Entry
                 /\ e.at[t] # {} => t \in Inputs[e.node]
                 /\ \A v \in e.at[t] : HeldAt(Named(e, t), v)
                 /\ t \in e.lazy => t \in LazyInputs[e.node]
      <3>1. x \in Task /\ e \in Entry /\ e.req = x.req /\ e.node = x.node
        BY <2>2, DispatchedTasks, EntryForType
      <3>2. x.req \in Request /\ x.node \in Node /\ LazyInputs[x.node] \subseteq Inputs[x.node]
        BY <3>1, WorkflowAssumption DEF Task
      <3>3. /\ e.at[t] # {} => /\ t \in EagerInputs(x.node) \cup LazyAvailable(x)
                               /\ e.at[t] = tensorMap[x.req][t]
            /\ e.lazy = LazyMissing(x)
        BY <2>2 DEF EntryFor
      <3>4. /\ e.at[t] # {} => t \in Inputs[e.node]
            /\ t \in e.lazy => t \in LazyInputs[e.node]
        BY <3>1, <3>2, <3>3 DEF LazyMissing, EagerInputs, LazyAvailable
      <3>5. ASSUME NEW v \in e.at[t]
            PROVE  HeldAt(Named(e, t), v)
        <4>1. v \in tensorMap[x.req][t]
          BY <3>3
        <4>2. HeldAt([req |-> x.req, tensor |-> t], v)
          BY <1>1, <3>2, <4>1 DEF MapHeld
        <4> QED
          BY <3>1, <4>2 DEF Named
      <3> QED
        BY <3>1, <3>4, <3>5
    <2> QED
      BY <2>1, <2>2, EntriesStay
  <1>3. ASSUME NEW v \in e.at[t]
        PROVE  HeldAt(Named(e, t), v)'
    <2>1. e.at[t] \subseteq Worker /\ Named(e, t) \in Buffer
      BY <1>2 DEF Entry, Named, Buffer
    <2>2. PICK b \in Buffer : b = Named(e, t)
      BY <2>1
    <2>3. HeldAt(b, v)'
      BY <1>1, <1>2, <2>1, <2>2, HeldKept
    <2> QED
      BY <2>2, <2>3
  <1> QED
    BY <1>2, <1>3

LEMMA StepRunHeld ==
    ASSUME TypeOK, CallsOnce, InPlace, HeldInv, [Next]_vars
    PROVE  RunHeld'
  <1>1. FreesReleased /\ RunHeld /\ TasksPending
    BY TasksArePending DEF HeldInv
  <1> SUFFICES ASSUME NEW w \in Worker, NEW e \in RunningAt(w)'
               PROVE  /\ \A t \in Remote(e, w) : HeldAt(Named(e, t), w)'
                      /\ \A t \in e.lazy : \/ Named(e, t) \in current'[w].lazy
                                           \/ HeldAt(Named(e, t), w)'
    BY DEF RunHeld, Remote
  <1>2. ASSUME e \in RunningAt(w)
        PROVE  /\ e \in Entry /\ e.lazy \subseteq Tensor /\ Remote(e, w) \subseteq Tensor
               /\ \A t \in Tensor : HeldAt(Named(e, t), w) => HeldAt(Named(e, t), w)'
    <2>1. e \in Entry
      BY <1>1, <1>2 DEF TasksPending, EntriesAt
    <2>2. \A b \in Buffer : HeldAt(b, w) => HeldAt(b, w)'
      BY <1>1, HeldKept
    <2>3. \A t \in Tensor : Named(e, t) \in Buffer
      BY <2>1, EntryTypes DEF Named, Buffer
    <2> QED
      BY <2>1, <2>2, <2>3, EntryTypes
  <1>3. ASSUME e \in RunningAt(w), current'[w].lazy = current[w].lazy
        PROVE  /\ \A t \in Remote(e, w) : HeldAt(Named(e, t), w)'
               /\ \A t \in e.lazy : \/ Named(e, t) \in current'[w].lazy
                                    \/ HeldAt(Named(e, t), w)'
    BY <1>1, <1>2, <1>3 DEF RunHeld
  <1>4. CASE current'[w] = current[w]
    BY <1>3, <1>4 DEF RunningAt
  <1>5. CASE StartGroup(w)
    <2> DEFINE m == Head(taskQueue[w])
    <2>1. /\ current'[w].entries = m.entries
          /\ \A b : b \in current'[w].lazy <=>
               \E x \in ToSet(m.entries) : \E t \in x.lazy : b = Named(x, t)
          /\ \A b : b \in store'[w] <=>
               \/ b \in store[w] /\ b \notin m.free
               \/ \E x \in ToSet(m.entries) : \E t \in Remote(x, w) : b = Named(x, t)
      BY <1>5, GroupStarts
    <2> HIDE DEF m
    <2>2. e \in ToSet(m.entries)
      BY <2>1 DEF RunningAt
    <2> QED
      BY <2>1, <2>2 DEF HeldAt
  <1>6. CASE AcquireLazy(w)
    <2>1. PICK b \in current[w].lazy :
            /\ current'[w].entries = current[w].entries
            /\ current'[w].lazy = current[w].lazy \ {b}
            /\ store'[w] = store[w] \cup {b}
      BY <1>6, LazyAcquired
    <2>2. e \in RunningAt(w)
      BY <2>1 DEF RunningAt
    <2> QED
      BY <1>1, <1>2, <2>1, <2>2 DEF RunHeld, HeldAt
  <1>7. CASE YieldOutput(w)
    BY <1>3, <1>7, OutputYielded DEF RunningAt
  <1>8. CASE CompleteGroup(w) /\ current'[w] = Idle
    BY <1>8 DEF RunningAt, Idle, ToSet
  <1> QED
    BY <1>4, <1>5, <1>6, <1>7, <1>8, CurrentChanges

LEMMA AnnouncedTypes ==
    /\ \A m \in ResultMessage : Announced(m) \subseteq Buffer
    /\ \A data \in Seq(Response) : ToldBy(data) \subseteq Buffer
  <1>1. ASSUME NEW data \in Seq(Response), NEW b \in ToldBy(data)
        PROVE  b \in Buffer
    <2>1. PICK res \in ToSet(data) : b \in BuffersOf(res, res.tensors)
      BY DEF ToldBy
    <2>2. res \in Response
      BY Elements
    <2> QED
      BY <2>1, <2>2 DEF BuffersOf, Response, Buffer
  <1> QED
    BY <1>1, ResultMessageFields DEF Announced, ResultMessage

\* A group that completes reports what it took, called for and made.
LEMMA CompletionHeld ==
    ASSUME TypeOK, InPlace, HeldInv, NEW w \in Worker, CompleteGroup(w),
           NEW b \in Announced(Completion(w))
    PROVE  HeldAt(b, w) \/ b \in store'[w]
  <1>1. RunHeld /\ TasksPending
    BY TasksArePending DEF HeldInv
  <1>2. b \in ToldBy(Completion(w).data)
    BY DEF Announced, Completion
  <1>3. PICK res \in ToSet(Completion(w).data) : b \in BuffersOf(res, res.tensors)
    BY <1>2 DEF ToldBy
  <1>4. PICK e \in RunningAt(w) :
          res = [req |-> e.req, node |-> e.node, tensors |-> Reported(e, w)]
    BY DEF Completion, ToSet, RunningAt
  <1>5. PICK t \in Reported(e, w) : b = Named(e, t)
    BY <1>3, <1>4 DEF BuffersOf, Named
  <1>6. /\ current[w].lazy = {}
        /\ \A u \in LateOutputs(e) : Named(e, u) \in store'[w]
    BY GroupCompletes
  <1>7. CASE t \in Remote(e, w) \cup e.lazy
    BY <1>1, <1>5, <1>6, <1>7 DEF RunHeld
  <1>8. CASE t \in LateOutputs(e)
    BY <1>5, <1>6, <1>8
  <1> QED
    BY <1>5, <1>7, <1>8 DEF Reported

LEMMA StepResultsHeld ==
    ASSUME TypeOK, TypeOK', CallsOnce, InPlace, HeldInv, [Next]_vars
    PROVE  ResultsHeld'
  <1>1. FreesReleased /\ ResultsHeld
    BY DEF HeldInv
  <1>2. /\ resultQueue \in [Worker -> Seq(ResultMessage)]
        /\ results.rest \in Seq(Response) /\ results.from \in Worker
    BY DEF TypeOK, CoordinatorTypeOK, ChannelTypeOK, ResultsTypeOK
  <1>3. \A w \in Worker, b \in Buffer : HeldAt(b, w) => HeldAt(b, w)'
    BY <1>1, HeldKept
  <1>4. ASSUME NEW w \in Worker, NEW m \in ToSet(resultQueue[w]), NEW b \in Announced(m)
        PROVE  HeldAt(b, w)'
    <2>1. m \in ResultMessage
      BY <1>2, Elements
    <2> QED
      BY <1>1, <1>3, <2>1, AnnouncedTypes DEF ResultsHeld
  <1>5. ASSUME NEW w \in Worker, NEW m \in ToSet(resultQueue'[w]), NEW b \in Announced(m)
        PROVE  HeldAt(b, w)'
    <2>1. CASE ToSet(resultQueue'[w]) \subseteq ToSet(resultQueue[w])
      BY <1>4, <2>1
    <2>2. CASE resultQueue'[w] = resultQueue[w]
      BY <2>1, <2>2
    <2>3. CASE resultQueue[w] # <<>> /\ resultQueue'[w] = Tail(resultQueue[w])
      BY <1>2, <2>1, <2>3, Elements
    <2>4. ASSUME NEW x, resultQueue'[w] = Append(resultQueue[w], x)
          PROVE  m \in ToSet(resultQueue[w]) \/ m = x
      BY <1>2, <2>4, Elements
    <2>5. ASSUME NEW buffers \in SUBSET current[w].yields,
                 store'[w] = store[w] \cup buffers,
                 resultQueue'[w] = Append(resultQueue[w],
                   [type |-> "tensor_batch_ready", buffers |-> buffers])
          PROVE  HeldAt(b, w)'
      <3>1. CASE m = [type |-> "tensor_batch_ready", buffers |-> buffers]
        BY <2>5, <3>1 DEF Announced, HeldAt
      <3> QED
        BY <1>4, <2>4, <2>5, <3>1
    <2>6. CASE CompleteGroup(w) /\ resultQueue'[w] = Append(resultQueue[w], Completion(w))
      <3>1. CASE m = Completion(w)
        <4>1. HeldAt(b, w) \/ b \in store'[w]
          BY <2>6, <3>1, CompletionHeld
        <4>2. b \in Buffer
          <5>1. resultQueue'[w] \in Seq(ResultMessage)
            BY DEF TypeOK, CoordinatorTypeOK, ChannelTypeOK
          <5>2. m \in ResultMessage
            BY <5>1, Elements
          <5> QED
            BY <5>2, AnnouncedTypes
        <4> QED
          BY <1>3, <4>1, <4>2 DEF HeldAt
      <3> QED
        BY <1>4, <2>4, <2>6, <3>1
    <2> QED
      BY <2>2, <2>3, <2>5, <2>6, ResultQueueChanges
  <1>6. ASSUME NEW b \in ToldBy(results.rest), NEW v \in Worker, v = results.from
        PROVE  HeldAt(b, v)'
    <2>1. HeldAt(b, v) /\ b \in Buffer
      BY <1>1, <1>2, <1>6, AnnouncedTypes DEF ResultsHeld
    <2> QED
      BY <1>3, <2>1
  <1>7. ASSUME NEW b \in ToldBy(results'.rest), NEW v, v = results'.from
        PROVE  HeldAt(b, v)'
    <2>1. CASE UNCHANGED results
      BY <1>2, <1>6, <1>7, <2>1
    <2>2. ASSUME NEW w \in Worker, GatherTaskComplete(w)
          PROVE  HeldAt(b, v)'
      <3> DEFINE m == Head(resultQueue[w])
      <3>1. /\ m \in ResultMessage /\ m.type = "task_complete"
            /\ results' = [from |-> w, rest |-> m.data]
        BY <2>2, TakenCompletion
      <3>2. resultQueue[w] # <<>>
        BY <2>2 DEF GatherTaskComplete, Gathers
      <3>3. m \in ToSet(resultQueue[w])
        BY <1>2, <3>2, Elements
      <3> HIDE DEF m
      <3>4. v = w /\ b \in Announced(m)
        BY <1>7, <3>1 DEF Announced
      <3> QED
        BY <1>4, <3>3, <3>4
    <2>3. CASE GatherTask
      <3>1. /\ results' = [results EXCEPT !.rest = Tail(@)] /\ results.rest # <<>>
        BY <2>3, HandledResult
      <3>2. results'.rest = Tail(results.rest) /\ results'.from = results.from
        BY <3>1 DEF TypeOK, CoordinatorTypeOK, ResultsTypeOK
      <3>3. ToSet(Tail(results.rest)) \subseteq ToSet(results.rest)
        BY <1>2, <3>1, Elements
      <3>4. b \in ToldBy(results.rest)
        BY <1>7, <3>2, <3>3 DEF ToldBy
      <3> QED
        BY <1>2, <1>6, <1>7, <3>2, <3>4
    <2>4. ASSUME NEW w \in Worker, GatherTensorBatch(w) \/ YieldOutput(w) \/ CompleteGroup(w)
          PROVE  UNCHANGED results
      BY <2>4, TakenBatch, OutputYielded, GroupCompletes DEF coordinatorSide
    <2> QED
      BY <2>1, <2>2, <2>3, <2>4, Footprints DEF Footprint
  <1> QED
    BY <1>5, <1>7 DEF ResultsHeld

-----------------------------------------------------------------------------
(* No dangling location *)

LEMMA InitHeld ==
    ASSUME Init
    PROVE  HeldInv
  <1> USE DEF Init, CoordinatorInit, WorkerInit, ToSet
  <1>1. FreesReleased
    BY DEF FreesReleased, FreesAt
  <1>2. EntriesLocated /\ RunHeld
    BY DEF EntriesLocated, RunHeld, EntriesAt, RunningAt, Idle
  <1>3. MapHeld
    BY DEF MapHeld, NoTensors
  <1>4. ResultsHeld
    BY DEF ResultsHeld, ToldBy
  <1> QED
    BY <1>1, <1>2, <1>3, <1>4 DEF HeldInv

LEMMA StepHeld ==
    ASSUME ReleaseInv, ReleaseInv', HeldInv, [Next]_vars
    PROVE  HeldInv'
  <1>1. TypeOK /\ TypeOK' /\ CallsOnce /\ InPlace
    BY DEF ReleaseInv, FlowInv, TaskInv
  <1>2. FreesReleased'
    BY StepFrees DEF HeldInv
  <1> QED
    BY <1>1, <1>2, StepLocated, StepMap, StepRunHeld, StepResultsHeld DEF HeldInv

LEMMA LocationsHeld ==
    ASSUME TypeOK, InPlace, HeldInv
    PROVE  QueuedLocationsHeld
  <1>1. FreesReleased /\ EntriesLocated /\ TasksPending
    BY TasksArePending DEF HeldInv
  <1> SUFFICES ASSUME NEW w \in Worker, NEW i \in DOMAIN taskQueue[w],
                      NEW j \in DOMAIN taskQueue[w][i].entries, NEW e,
                      e = taskQueue[w][i].entries[j], NEW t \in Tensor, NEW v \in e.at[t], NEW b,
                      b = [req |-> e.req, tensor |-> t]
               PROVE  /\ b \in store[v] /\ b \notin freeDict[v]
                      /\ \A k \in DOMAIN taskQueue[v] : b \notin taskQueue[v][k].free
    BY DEF QueuedLocationsHeld
  <1>2. \A u \in Worker : \A k \in DOMAIN taskQueue[u] :
          taskQueue[u][k] \in ToSet(taskQueue[u]) /\ taskQueue[u][k] \in TaskMessage
    BY Elements DEF TypeOK, CoordinatorTypeOK, ChannelTypeOK
  <1>3. e \in ToSet(taskQueue[w][i].entries)
    BY <1>2, Elements DEF TaskMessage
  <1>4. e \in EntriesAt(w)
    BY <1>2, <1>3 DEF EntriesAt
  <1>5. e \in Entry /\ TaskOf(e) \in Pending /\ v \in Worker
    BY <1>1, <1>4 DEF TasksPending, Entry
  <1>6. t \in Inputs[e.node] /\ HeldAt(b, v) /\ b = Named(e, t)
    BY <1>1, <1>4 DEF EntriesLocated, Named
  <1>7. ~Released(b)
    BY <1>5, <1>6, StillTaken
  <1>8. b \in store[v] /\ b \notin FreesAt(v)
    BY <1>1, <1>5, <1>6, <1>7 DEF HeldAt, FreesReleased
  <1> QED
    BY <1>2, <1>5, <1>8 DEF FreesAt

LEMMA HeldHolds == Spec => [](ReleaseInv /\ HeldInv)
  <1>1. Init => HeldInv
    BY InitHeld
  <1>2. ReleaseInv /\ ReleaseInv' /\ HeldInv /\ [Next]_vars => HeldInv'
    BY StepHeld
  <1> QED
    BY <1>1, <1>2, ReleaseHolds, PTL DEF Spec

\* A copy a queued task may read is still there, and nothing is on its way to
\* free it, wherever the frees that travel with the groups are applied.
THEOREM LocationsStay == Spec => []QueuedLocationsHeld
  <1>1. ReleaseInv /\ HeldInv => QueuedLocationsHeld
    BY LocationsHeld DEF ReleaseInv, FlowInv, TaskInv
  <1> QED
    BY <1>1, HeldHolds, PTL

-----------------------------------------------------------------------------
(* No lost lazy arrival *)

\* What the notification c sends.
SentOf(c, m) ==
    /\ m.req = c.req /\ m.tensor \in c.tensors /\ m.src = c.src
    /\ \E d \in lazyDependents[m.req][m.tensor] : m.node = d[1]

LEMMA LazyNotified ==
    ASSUME TypeOK, NotifyLazyInputAvailable
    PROVE  LET c == Head(ready)
           IN  /\ ready # <<>> /\ c \in Callback /\ c.cb = "notify" /\ ready' = Tail(ready)
               /\ c.req \in Request /\ c.tensors \subseteq Tensor
               /\ tensorMap' = tensorMap
               /\ c \in ToSet(ready)
               /\ \A w \in Worker : /\ lazyQueue[w] \subseteq lazyQueue'[w]
                                    /\ \A m \in lazyQueue'[w] : \/ m \in lazyQueue[w]
                                                                \/ SentOf(c, m)
               /\ \A r \in Request, t \in Tensor :
                    IF r = c.req /\ t \in c.tensors
                    THEN /\ lazyDependents'[r][t] = {}
                         /\ \A d \in lazyDependents[r][t] : \A w \in Worker : d[2] = w =>
                              \E m \in lazyQueue'[w] : m.req = r /\ m.tensor = t
                    ELSE lazyDependents'[r][t] = lazyDependents[r][t]
  <1> DEFINE c == Head(ready)
  <1>1. ready # <<>> /\ c \in Callback /\ c.cb = "notify" /\ Ran(<<>>)
    BY HeadRuns DEF NotifyLazyInputAvailable
  <1>2. c.req \in Request /\ c.tensors \subseteq Tensor
    BY <1>1, CallbackFields
  <1>3. ready' = Tail(ready)
    <2>1. Tail(ready) \o <<>> = Tail(ready)
      BY <1>1, HeadTailProperties DEF TypeOK, CoordinatorTypeOK, LoopTypeOK
    <2> QED
      BY <1>1, <2>1 DEF Ran
  <1>4. /\ lazyQueue' = [w \in Worker |-> lazyQueue[w] \cup
            (UNION { { [req |-> c.req, tensor |-> t, src |-> c.src, node |-> d[1]] :
                      d \in { e \in lazyDependents[c.req][t] : e[2] = w } } :
                    t \in c.tensors })]
        /\ lazyDependents' = [lazyDependents EXCEPT ![c.req] = DependentsAfter(c.req, c.tensors)]
        /\ tensorMap' = tensorMap
    BY DEF NotifyLazyInputAvailable
  <1> HIDE DEF c
  <1>5. ASSUME NEW w \in Worker
        PROVE  /\ lazyQueue[w] \subseteq lazyQueue'[w]
               /\ \A m \in lazyQueue'[w] : m \in lazyQueue[w] \/ SentOf(c, m)
    <2>1. lazyQueue'[w] = lazyQueue[w] \cup
            (UNION { { [req |-> c.req, tensor |-> t, src |-> c.src, node |-> d[1]] :
                      d \in { e \in lazyDependents[c.req][t] : e[2] = w } } :
                    t \in c.tensors })
      BY <1>4
    <2>2. ASSUME NEW m \in lazyQueue'[w], m \notin lazyQueue[w]
          PROVE  SentOf(c, m)
      <3>1. PICK t \in c.tensors : \E d \in lazyDependents[c.req][t] :
              m = [req |-> c.req, tensor |-> t, src |-> c.src, node |-> d[1]]
        BY <2>1, <2>2
      <3> QED
        BY <3>1 DEF SentOf
    <2> QED
      BY <2>1, <2>2
  <1>6. ASSUME NEW r \in Request, NEW t \in Tensor, ~(r = c.req /\ t \in c.tensors)
        PROVE  lazyDependents'[r][t] = lazyDependents[r][t]
    BY <1>2, <1>4, <1>6 DEF DependentsAfter, TypeOK, CoordinatorTypeOK, TensorTypeOK
  <1>7. ASSUME NEW r \in Request, NEW t \in Tensor, r = c.req, t \in c.tensors
        PROVE  /\ lazyDependents'[r][t] = {}
               /\ \A d \in lazyDependents[r][t] : \A w \in Worker : d[2] = w =>
                    \E m \in lazyQueue'[w] : m.req = r /\ m.tensor = t
    <2>1. lazyDependents'[r][t] = {}
      BY <1>2, <1>4, <1>7 DEF DependentsAfter, TypeOK, CoordinatorTypeOK, TensorTypeOK
    <2>2. ASSUME NEW d \in lazyDependents[r][t], NEW w \in Worker, d[2] = w
          PROVE  \E m \in lazyQueue'[w] : m.req = r /\ m.tensor = t
      <3>1. [req |-> c.req, tensor |-> t, src |-> c.src, node |-> d[1]] \in
              { [req |-> c.req, tensor |-> t, src |-> c.src, node |-> e[1]] :
                  e \in { f \in lazyDependents[c.req][t] : f[2] = w } }
        BY <1>7, <2>2
      <3>2. [req |-> c.req, tensor |-> t, src |-> c.src, node |-> d[1]] \in lazyQueue'[w]
        BY <1>4, <1>7, <3>1
      <3> QED
        BY <1>7, <3>2
    <2> QED
      BY <2>1, <2>2
  <1>8. c \in ToSet(ready)
    BY <1>1, Elements DEF c, TypeOK, CoordinatorTypeOK, LoopTypeOK
  <1> QED
    BY <1>1, <1>2, <1>3, <1>4, <1>5, <1>6, <1>7, <1>8 DEF c

LEMMA NoticeStays ==
    ASSUME TypeOK, CallsOnce, [Next]_vars, NEW c \in ToSet(ready), c.cb = "notify"
    PROVE  c \in ToSet(ready') \/ (NotifyLazyInputAvailable /\ c = Head(ready))
  <1>1. ready \in Seq(Callback) /\ Footprint
    BY Footprints DEF TypeOK, CoordinatorTypeOK, LoopTypeOK
  <1>2. ASSUME NEW P \in Seq(Callback), ready' = ready \o P
        PROVE  c \in ToSet(ready')
    <2>1. PICK i \in DOMAIN ready : ready[i] = c
      BY <1>1, Elements
    <2> QED
      BY <1>1, <1>2, <2>1, QueueGrows DEF ToSet
  <1>3. CASE RunCallback /\ Ran(<<>>)
    <2>1. ASSUME NEW cb, Runs(cb), cb # "notify"
          PROVE  c \in ToSet(ready')
      <3>1. ready # <<>> /\ Head(ready).cb = cb
        BY <2>1, HeadRuns
      <3>2. ready' = Tail(ready)
        BY <1>1, <1>3, <3>1, HeadTailProperties DEF Ran
      <3>3. c # Head(ready)
        BY <2>1, <3>1
      <3> QED
        BY <1>1, <3>1, <3>2, <3>3, Elements
    <2>2. CASE NotifyLazyInputAvailable
      <3>1. ready # <<>> /\ ready' = Tail(ready)
        BY <2>2, LazyNotified
      <3> QED
        BY <1>1, <2>2, <3>1, Elements
    <2>3. CASE ~NotifyLazyInputAvailable
      <3>1. \/ Runs("start") \/ Runs("put") \/ Runs("wake") \/ Runs("dispatch") \/ Runs("free")
            \/ Runs("scheduler") \/ Runs("gather")
        BY <1>3, <2>3 DEF RunCallback, StartRequest, PutTask, FinishRequest, ScheduleTaskGroup,
                          UpdateFreeTensorDict, SchedulerWake, GatherWake
      <3> QED
        BY <2>1, <3>1
    <2> QED
      BY <2>2, <2>3
  <1>4. CASE UNCHANGED ready
    BY <1>4
  <1>5. CASE Accepts
    <2>1. PICK requests \in SUBSET Request, due \in DueTimers : LoopIteration(requests, due)
      BY <1>5 DEF Accepts
    <2>2. PICK starts \in Seq(Callback), turns \in Seq(Callback) :
            ready' = ready \o (starts \o turns)
      BY <2>1, LoopIterationQueues
    <2>3. starts \o turns \in Seq(Callback)
      BY <2>2
    <2> QED
      BY <1>2, <2>2, <2>3
  <1>6. CASE AssignGroup
    <2>1. PICK w \in Worker :
            ready' = Append(ready, [cb |-> "dispatch", group |-> group, dst |-> w])
      BY <1>6 DEF AssignGroup
    <2> QED
      BY <1>1, <2>1, Elements
  <1>7. CASE GatherTask
    <2>1. PICK new \in Seq(Callback) : \E k \in DOMAIN new : ready' = ready \o new
      BY <1>7, ReleaseCreated
    <2> QED
      BY <1>2, <2>1
  <1>8. ASSUME NEW w \in Worker, GatherTensorBatch(w)
        PROVE  c \in ToSet(ready')
    <2>1. PICK created \in Seq(Created) : ready' = ready \o created
      BY <1>8, GatherTensorBatchCreates
    <2>2. created \in Seq(Callback)
      BY <2>1 DEF Created
    <2> QED
      BY <1>2, <2>1, <2>2
  <1> QED
    BY <1>1, <1>3, <1>4, <1>5, <1>6, <1>7, <1>8 DEF Footprint

LEMMA JoinedElements ==
    ASSUME NEW T, NEW s \in Seq(T), NEW t \in Seq(T)
    PROVE  ToSet(s) \subseteq ToSet(s \o t) /\ ToSet(t) \subseteq ToSet(s \o t)
  <1>1. /\ \A i \in DOMAIN s : i \in DOMAIN (s \o t) /\ (s \o t)[i] = s[i]
        /\ \A i \in DOMAIN t : Len(s) + i \in DOMAIN (s \o t) /\ (s \o t)[Len(s) + i] = t[i]
    BY Positions
  <1> QED
    BY <1>1 DEF ToSet

\* A result is announced with its tensors.
LEMMA ResultAnnounced ==
    ASSUME TypeOK, GatherTask, NEW t \in Head(results.rest).tensors,
           NEW q, q = Head(results.rest).req
    PROVE  NoticePending(q, t)'
  <1> DEFINE r == Head(results.rest).req
             n == Head(results.rest).node
             notify == [cb |-> "notify", req |-> r, tensors |-> Head(results.rest).tensors,
                        src |-> results.from]
             one == <<[cb |-> "free", task |-> [req |-> r, node |-> n]]>>
  <1>1. PICK P, W \in Seq(Callback) :
          /\ ready' = ready \o ((P \o one) \o W) /\ notify \in ToSet(P)
    BY GatherTaskCallbacks
  <1> DEFINE A == P \o one
             B == A \o W
  <1>2. one \in Seq(Callback)
    <2>1. results.rest # <<>> /\ results.rest \in Seq(Response)
      BY DEF GatherTask, TypeOK, CoordinatorTypeOK, ResultsTypeOK
    <2>2. Head(results.rest) \in Response
      BY <2>1, HeadTailProperties
    <2>3. [cb |-> "free", task |-> [req |-> r, node |-> n]] \in Callback
      BY <2>2 DEF Response, Callback, Task
    <2> QED
      BY <2>3
  <1> HIDE DEF one
  <1>3. ToSet(P) \subseteq ToSet(A) /\ A \in Seq(Callback)
    BY <1>1, <1>2, JoinedElements
  <1>4. ready' = ready \o B
    BY <1>1 DEF A, B
  <1> HIDE DEF A
  <1>5. ToSet(A) \subseteq ToSet(B) /\ B \in Seq(Callback)
    BY <1>1, <1>3, JoinedElements
  <1> HIDE DEF B
  <1>6. ready \in Seq(Callback)
    BY DEF TypeOK, CoordinatorTypeOK, LoopTypeOK
  <1>7. ToSet(B) \subseteq ToSet(ready')
    BY <1>4, <1>5, <1>6, JoinedElements
  <1>8. PICK c : c = notify
    OBVIOUS
  <1>9. c \in ToSet(ready')
    BY <1>1, <1>3, <1>5, <1>7, <1>8
  <1> QED
    BY <1>8, <1>9 DEF NoticePending

LEMMA BatchAnnounced ==
    ASSUME TypeOK, NEW w \in Worker, GatherTensorBatch(w),
           NEW r \in Request, NEW t \in Tensor,
           [req |-> r, tensor |-> t] \in Head(resultQueue[w]).buffers
    PROVE  NoticePending(r, t)'
  <1> DEFINE buffers == Head(resultQueue[w]).buffers
             TensorsOf(q) == { b.tensor : b \in { c \in buffers : c.req = q } }
             S == { b.req : b \in buffers }
  <1>1. buffers \subseteq Buffer
    BY TakenBatch
  <1>2. PICK order \in SetToSeqs(S) :
          ready' = ready \o [i \in DOMAIN order |->
              [cb |-> "notify", req |-> order[i], tensors |-> TensorsOf(order[i]), src |-> w]]
    BY DEF GatherTensorBatch
  <1> DEFINE new == [i \in DOMAIN order |->
              [cb |-> "notify", req |-> order[i], tensors |-> TensorsOf(order[i]), src |-> w]]
  <1>3. r \in S /\ t \in TensorsOf(r)
    OBVIOUS
  <1>4. \A q \in Request : TensorsOf(q) \subseteq Tensor
    BY <1>1 DEF Buffer
  <1> HIDE DEF TensorsOf
  <1>5. S \subseteq Request /\ IsFiniteSet(S)
    <2>1. S \subseteq Request
      BY <1>1 DEF Buffer
    <2> QED
      BY <2>1, FS_Subset, SchedulingAssumption
  <1> HIDE DEF S
  <1>6. order \in Seq(S) /\ ToSet(order) = S
    BY <1>2, <1>5, OrderOfSet
  <1>7. order \in Seq(Request)
    BY <1>5, <1>6, SeqMonotonic
  <1>8. PICK k \in DOMAIN order : order[k] = r
    BY <1>3, <1>6 DEF ToSet
  <1>9. new \in Seq(Callback)
    <2>1. \A q \in Request : [cb |-> "notify", req |-> q, tensors |-> TensorsOf(q), src |-> w] \in Callback
      BY <1>4 DEF Callback
    <2> QED
      BY <1>7, <2>1, LenProperties
  <1>10. new[k] = [cb |-> "notify", req |-> r, tensors |-> TensorsOf(r), src |-> w] /\ k \in DOMAIN new
    BY <1>8
  <1> HIDE DEF new
  <1>11. ready \in Seq(Callback) /\ ready' = ready \o new
    BY <1>2 DEF new, TypeOK, CoordinatorTypeOK, LoopTypeOK
  <1>12. new[k] \in ToSet(ready')
    <2>1. ToSet(new) \subseteq ToSet(ready')
      BY <1>9, <1>11, JoinedElements
    <2> QED
      BY <1>10, <2>1 DEF ToSet
  <1>13. PICK c : c = [cb |-> "notify", req |-> r, tensors |-> TensorsOf(r), src |-> w]
    OBVIOUS
  <1> QED
    BY <1>3, <1>10, <1>12, <1>13 DEF NoticePending

\* What is newly registered: the lazy inputs, not known yet, of the group sent.
LEMMA LazyRegistered ==
    ASSUME TypeOK, InPlace, ScheduleTaskGroup
    PROVE  LET g == Head(ready).group
               w == Head(ready).dst
           IN  /\ tensorMap' = tensorMap
               /\ \A r \in Request, t \in Tensor : \A d :
                    d \in lazyDependents'[r][t] <=>
                      \/ d \in lazyDependents[r][t]
                      \/ \E x \in ToSet(g) : x.req = r /\ t \in LazyMissing(x) /\ d = <<x.node, w>>
  <1> DEFINE g == Head(ready).group
             w == Head(ready).dst
  <1>1. /\ tensorMap' = tensorMap
        /\ lazyDependents' = [r \in Request |-> [t \in Tensor |->
             lazyDependents[r][t] \cup
               { <<g[i].node, w>> : i \in { j \in DOMAIN g :
                    g[j].req = r /\ t \in LazyMissing(g[j]) } }]]
    BY DEF ScheduleTaskGroup
  <1> HIDE DEF g, w
  <1>2. ASSUME NEW r \in Request, NEW t \in Tensor, NEW d
        PROVE  d \in lazyDependents'[r][t] <=>
                 \/ d \in lazyDependents[r][t]
                 \/ \E x \in ToSet(g) : x.req = r /\ t \in LazyMissing(x) /\ d = <<x.node, w>>
    <2>1. lazyDependents'[r][t] =
            lazyDependents[r][t] \cup
               { <<g[i].node, w>> : i \in { j \in DOMAIN g :
                    g[j].req = r /\ t \in LazyMissing(g[j]) } }
      BY <1>1
    <2> QED
      BY <2>1 DEF ToSet
  <1> QED
    BY <1>1, <1>2 DEF g, w

\* A registered waiter of a known tensor has its notification pending.
LEMMA StepTold ==
    ASSUME TypeOK, CallsOnce, InPlace, WaitersTold, [Next]_vars
    PROVE  WaitersTold'
  <1> SUFFICES ASSUME NEW r \in Request, NEW t \in Tensor,
                      lazyDependents'[r][t] # {}, Available(r, t)'
               PROVE  NoticePending(r, t)'
    BY DEF WaitersTold
  <1>1. Footprint
    BY Footprints
  <1>2. CASE lazyDependents[r][t] # {} /\ Available(r, t)
    <2>1. PICK c \in ToSet(ready) : c.cb = "notify" /\ c.req = r /\ t \in c.tensors
      BY <1>2 DEF WaitersTold, NoticePending
    <2>2. CASE NotifyLazyInputAvailable /\ c = Head(ready)
      BY <2>1, <2>2, LazyNotified
    <2> QED
      BY <2>1, <2>2, NoticeStays DEF NoticePending
  <1>3. ASSUME lazyDependents[r][t] = {}
        PROVE  FALSE
    <2>1. CASE UNCHANGED lazyDependents
      BY <1>3, <2>1
    <2>2. CASE ScheduleTaskGroup
      <3>1. PICK x \in ToSet(Head(ready).group) : x.req = r /\ t \in LazyMissing(x)
        BY <1>3, <2>2, LazyRegistered
      <3>2. ~Available(r, t) /\ tensorMap' = tensorMap
        BY <2>2, <3>1, LazyRegistered DEF LazyMissing, LazyAvailable
      <3> QED
        BY <3>2 DEF Available
    <2>3. CASE NotifyLazyInputAvailable
      BY <1>3, <2>3, LazyNotified
    <2>4. CASE FinishRequest
      <3>1. \/ lazyDependents'[r][t] = {} \/ lazyDependents'[r][t] = lazyDependents[r][t]
        BY <2>4 DEF FinishRequest, NoTensors, TypeOK, CoordinatorTypeOK, TensorTypeOK
      <3> QED
        BY <1>3, <3>1
    <2> QED
      BY <1>1, <2>1, <2>2, <2>3, <2>4 DEF Footprint
  <1>4. CASE ~Available(r, t)
    <2>1. CASE UNCHANGED tensorMap
      BY <1>4, <2>1 DEF Available
    <2>2. CASE FinishRequest
      <3>1. tensorMap'[r] = NoTensors \/ tensorMap'[r] = tensorMap[r]
        BY <2>2, FinishedRequest
      <3> QED
        BY <1>4, <3>1 DEF Available, NoTensors
    <2>3. CASE GatherTask
      <3>1. r = Head(results.rest).req /\ t \in Head(results.rest).tensors
        BY <1>4, <2>3, HandledResult DEF Available
      <3> QED
        BY <2>3, <3>1, ResultAnnounced
    <2>4. ASSUME NEW w \in Worker, GatherTensorBatch(w)
          PROVE  NoticePending(r, t)'
      <3>1. [req |-> r, tensor |-> t] \in Head(resultQueue[w]).buffers
        BY <1>4, <2>4, TakenFromBatch DEF Available
      <3> QED
        BY <2>4, <3>1, BatchAnnounced
    <2> QED
      BY <1>1, <2>1, <2>2, <2>3, <2>4 DEF Footprint
  <1> QED
    BY <1>2, <1>3, <1>4

\* A lazy input a pending task may still call for does not get lost on its way.
LEMMA ExpectedKept ==
    ASSUME TypeOK, CallsOnce, InPlace, FreesReleased, [Next]_vars, NEW w \in Worker,
           NEW x \in Entry, TaskOf(x) \in Pending, NEW t \in Inputs[x.node], Expected(x, t, w)
    PROVE  Expected(x, t, w)'
  <1> DEFINE r == x.req
             b == Named(x, t)
  <1>1. /\ Footprint /\ r \in Request /\ x.node \in Node /\ t \in Tensor /\ b \in Buffer
        /\ x.node \notin completedNodes[r] /\ ~Released(b)
    <2>1. r \in Request /\ x.node \in Node /\ x.node \notin completedNodes[r]
      BY PendingLive
    <2>2. t \in Tensor
      BY <2>1, WorkflowAssumption
    <2> QED
      BY <2>1, <2>2, Footprints, StillTaken DEF Named, Buffer
  <1>2. ASSUME <<x.node, w>> \in lazyDependents[r][t]
        PROVE  Expected(x, t, w)'
    <2>1. CASE UNCHANGED lazyDependents
      BY <1>2, <2>1 DEF Expected
    <2>2. CASE ScheduleTaskGroup
      BY <1>1, <1>2, <2>2, LazyRegistered DEF Expected
    <2>3. CASE NotifyLazyInputAvailable
      <3>1. CASE r = Head(ready).req /\ t \in Head(ready).tensors
        <4>1. \A d \in lazyDependents[r][t] : \A v \in Worker : d[2] = v =>
                \E m \in lazyQueue'[v] : m.req = r /\ m.tensor = t
          BY <1>1, <2>3, <3>1, LazyNotified
        <4> QED
          BY <1>2, <4>1 DEF Expected
      <3>2. CASE ~(r = Head(ready).req /\ t \in Head(ready).tensors)
        BY <1>1, <1>2, <2>3, <3>2, LazyNotified DEF Expected
      <3> QED
        BY <3>1, <3>2
    <2>4. CASE FinishRequest
      <3>1. r # Head(ready).req
        BY <1>1, <2>4, FinishedRequest
      <3>2. lazyDependents'[r] = lazyDependents[r]
        BY <1>1, <2>4, <3>1 DEF FinishRequest, TypeOK, CoordinatorTypeOK, TensorTypeOK
      <3> QED
        BY <1>2, <3>2 DEF Expected
    <2> QED
      BY <1>1, <2>1, <2>2, <2>3, <2>4 DEF Footprint
  <1>3. ASSUME NEW m \in lazyQueue[w], m.req = r, m.tensor = t
        PROVE  Expected(x, t, w)'
    <2>1. CASE m \in lazyQueue'[w]
      BY <1>3, <2>1 DEF Expected
    <2>2. CASE NotifyLazyInputAvailable
      BY <1>3, <2>1, <2>2, LazyNotified
    <2>3. ASSUME NEW v \in Worker, FetchLazy(v)
          PROVE  Expected(x, t, w)'
      <3>1. PICK a \in lazyQueue[v] :
              /\ lazyQueue' = [lazyQueue EXCEPT ![v] = @ \ {a}]
              /\ received' = [received EXCEPT ![v] = @ \cup {Named(a, a.tensor)}]
        BY <2>3 DEF FetchLazy, Named
      <3>2. /\ lazyQueue \in [Worker -> SUBSET LazyArrival] /\ received \in [Worker -> SUBSET Buffer]
        BY DEF TypeOK, CoordinatorTypeOK, ChannelTypeOK, WorkerTypeOK
      <3>3. CASE v = w /\ a = m
        <4>1. Named(a, a.tensor) = b
          BY <1>3, <3>3 DEF Named
        <4>2. b \in received'[w]
          BY <3>1, <3>2, <3>3, <4>1
        <4> QED
          BY <4>2 DEF Expected
      <3>4. CASE ~(v = w /\ a = m)
        <4>1. m \in lazyQueue'[w]
          BY <1>3, <3>1, <3>2, <3>4
        <4> QED
          BY <2>1, <4>1
      <3> QED
        BY <3>3, <3>4
    <2>4. CASE UNCHANGED lazyQueue
      BY <1>3, <2>1, <2>4
    <2> QED
      BY <1>1, <2>2, <2>3, <2>4 DEF Footprint
  <1>4. ASSUME b \in store[w]
        PROVE  Expected(x, t, w)'
    <2>1. HeldAt(b, w)'
      BY <1>1, <1>4, HeldKept DEF HeldAt
    <2>2. CASE b \in store'[w]
      BY <2>2 DEF Expected
    <2>3. CASE b \notin store'[w]
      <3>1. UNCHANGED <<current, store>> \/ \E v \in Worker : StartGroup(v)
        <4>1. ASSUME NEW v \in Worker, AcquireLazy(v) \/ YieldOutput(v) \/ CompleteGroup(v)
              PROVE  store[w] \subseteq store'[w]
          <5>1. CASE w = v
            BY <4>1, <5>1, LazyAcquired, OutputYielded, GroupCompletes
          <5>2. CASE w # v
            <6>1. w \in Worker \ {v}
              BY <5>2
            <6> QED
              BY <4>1, <6>1, LazyAcquired, OutputYielded, GroupCompletes
          <5> QED
            BY <5>1, <5>2
        <4> QED
          BY <1>1, <1>4, <2>3, <4>1 DEF Footprint
      <3>2. PICK v \in Worker : StartGroup(v)
        BY <1>4, <2>3, <3>1
      <3>3. CASE w = v
        <4>1. taskQueue[v] \in Seq(TaskMessage) /\ taskQueue[v] # <<>>
          BY <3>2, GroupStarts
        <4>2. Head(taskQueue[v]) \in ToSet(taskQueue[v])
          BY <4>1, Elements
        <4>3. b \notin Head(taskQueue[v]).free
          BY <1>1, <4>2 DEF FreesReleased, FreesAt
        <4> QED
          BY <1>4, <2>3, <3>2, <3>3, <4>3, GroupStarts
      <3>4. CASE w # v
        <4>1. w \in Worker \ {v}
          BY <3>4
        <4> QED
          BY <1>4, <2>3, <3>2, <4>1, GroupStarts
      <3> QED
        BY <3>3, <3>4
    <2> QED
      BY <2>2, <2>3
  <1>5. ASSUME b \in received[w]
        PROVE  Expected(x, t, w)'
    <2>1. CASE b \in received'[w] \cup store'[w]
      BY <2>1 DEF Expected
    <2>2. ASSUME NEW v \in Worker, FetchLazy(v)
          PROVE  b \in received'[w]
      <3>1. PICK a : received' = [received EXCEPT ![v] = @ \cup {a}]
        BY <2>2 DEF FetchLazy
      <3> QED
        BY <1>5, <3>1 DEF TypeOK, WorkerTypeOK
    <2>3. ASSUME NEW v \in Worker, AcquireLazy(v)
          PROVE  b \in received'[w] \cup store'[w]
      <3>1. CASE w = v
        BY <1>5, <2>3, <3>1, LazyAcquired
      <3>2. CASE w # v
        <4>1. w \in Worker \ {v}
          BY <3>2
        <4> QED
          BY <1>5, <2>3, <4>1, LazyAcquired
      <3> QED
        BY <3>1, <3>2
    <2> QED
      BY <1>1, <1>5, <2>1, <2>2, <2>3 DEF Footprint
  <1> QED
    BY <1>2, <1>3, <1>4, <1>5 DEF Expected

\* A group that is sent has its lazy inputs registered with it.
LEMMA StepServed ==
    ASSUME TypeOK, CallsOnce, InPlace, HeldInv, WaitersServed, [Next]_vars
    PROVE  WaitersServed'
  <1>1. FreesReleased /\ EntriesLocated /\ TasksPending
    BY TasksArePending DEF HeldInv
  <1>2. \A w \in Worker : taskQueue[w] \in Seq(TaskMessage)
    BY DEF TypeOK, CoordinatorTypeOK, ChannelTypeOK
  \* What was lacking before the step.
  <1>3. ASSUME NEW w \in Worker, NEW e \in EntriesAt(w), NEW t \in e.lazy, Expected(e, t, w)
        PROVE  Expected(e, t, w)'
    <2>1. e \in Entry /\ TaskOf(e) \in Pending
      BY <1>1 DEF TasksPending
    <2>2. t \in Tensor /\ e.node \in Node
      BY <2>1, EntryTypes
    <2>3. t \in Inputs[e.node]
      BY <1>1, <2>2, WorkflowAssumption DEF EntriesLocated
    <2> QED
      BY <1>1, <1>3, <2>1, <2>3, ExpectedKept
  <1>4. ASSUME NEW w \in Worker, NEW m \in ToSet(taskQueue[w]), NEW e \in ToSet(m.entries),
               NEW t \in e.lazy
        PROVE  Expected(e, t, w)'
    <2>1. e \in EntriesAt(w) /\ Expected(e, t, w)
      BY <1>4 DEF EntriesAt, WaitersServed
    <2> QED
      BY <1>3, <2>1
  <1>5. ASSUME NEW w \in Worker, NEW e \in RunningAt(w), NEW t \in e.lazy,
               Named(e, t) \in current[w].lazy
        PROVE  Expected(e, t, w)'
    <2>1. e \in EntriesAt(w) /\ Expected(e, t, w)
      BY <1>5 DEF EntriesAt, WaitersServed
    <2> QED
      BY <1>3, <2>1
  <1>6. ASSUME NEW w \in Worker, NEW m \in ToSet(taskQueue'[w]), NEW e \in ToSet(m.entries),
               NEW t \in e.lazy
        PROVE  Expected(e, t, w)'
    <2>1. CASE m \in ToSet(taskQueue[w])
      BY <1>4, <2>1
    <2>2. CASE taskQueue[w] # <<>> /\ taskQueue'[w] = Tail(taskQueue[w])
      <3>1. ToSet(taskQueue'[w]) \subseteq ToSet(taskQueue[w])
        BY <1>2, <2>2, Elements
      <3> QED
        BY <2>1, <3>1
    <2>3. ASSUME ScheduleTaskGroup, w = Head(ready).dst, m = Dispatched
          PROVE  Expected(e, t, w)'
      <3> DEFINE g == Head(ready).group
      <3>1. g \in Seq(Task)
        BY <2>3, DispatchedTasks
      <3>2. m.entries = [i \in DOMAIN g |-> EntryFor(g[i])]
        BY <2>3 DEF Dispatched
      <3> HIDE DEF g
      <3>3. PICK i \in DOMAIN g : e = EntryFor(g[i])
        BY <3>2 DEF ToSet
      <3>4. PICK y \in ToSet(g) : e = EntryFor(y) /\ y \in Task
        BY <3>1, <3>3, Elements
      <3>5. e.lazy = LazyMissing(y) /\ e.req = y.req /\ e.node = y.node
        BY <3>4 DEF EntryFor
      <3>6. y.req \in Request /\ t \in Tensor
        BY <3>4, <3>5, EntryForType DEF Task
      <3>7. <<y.node, w>> \in lazyDependents'[y.req][t]
        <4>1. \A d : d \in lazyDependents'[y.req][t] <=>
                \/ d \in lazyDependents[y.req][t]
                \/ \E x \in ToSet(g) :
                     x.req = y.req /\ t \in LazyMissing(x) /\ d = <<x.node, Head(ready).dst>>
          BY <2>3, <3>6, LazyRegistered DEF g
        <4> QED
          BY <2>3, <3>4, <3>5, <4>1
      <3> QED
        BY <3>5, <3>7 DEF Expected
    <2>4. CASE /\ ScheduleTaskGroup /\ w = Head(ready).dst
               /\ taskQueue'[w] = Append(taskQueue[w], Dispatched)
      <3>1. m \in ToSet(taskQueue[w]) \/ m = Dispatched
        BY <1>2, <2>4, Elements
      <3> QED
        BY <2>1, <2>3, <2>4, <3>1
    <2>5. CASE taskQueue'[w] = taskQueue[w]
      BY <2>1, <2>5
    <2> QED
      BY <2>2, <2>4, <2>5, QueueChanges
  <1>7. ASSUME NEW w \in Worker, NEW e \in RunningAt(w)', NEW t \in e.lazy,
               Named(e, t) \in current'[w].lazy
        PROVE  Expected(e, t, w)'
    <2>1. CASE e \in RunningAt(w) /\ Named(e, t) \in current[w].lazy
      BY <1>5, <2>1
    <2>2. CASE StartGroup(w)
      <3>1. /\ taskQueue[w] # <<>> /\ current'[w].entries = Head(taskQueue[w]).entries
        BY <2>2, GroupStarts
      <3>2. Head(taskQueue[w]) \in ToSet(taskQueue[w])
        BY <1>2, <3>1, Elements
      <3>3. e \in ToSet(Head(taskQueue[w]).entries)
        BY <3>1 DEF RunningAt
      <3> QED
        BY <1>4, <3>2, <3>3
    <2>3. CASE AcquireLazy(w)
      <3>1. current'[w].entries = current[w].entries /\ current'[w].lazy \subseteq current[w].lazy
        BY <2>3, LazyAcquired
      <3> QED
        BY <1>7, <2>1, <3>1 DEF RunningAt
    <2>4. CASE YieldOutput(w)
      <3>1. current'[w].entries = current[w].entries /\ current'[w].lazy = current[w].lazy
        BY <2>4, OutputYielded
      <3> QED
        BY <1>7, <2>1, <3>1 DEF RunningAt
    <2>5. CASE current'[w] = current[w]
      BY <1>7, <2>1, <2>5 DEF RunningAt
    <2>6. CASE current'[w] = Idle
      BY <2>6 DEF RunningAt, Idle, ToSet
    <2> QED
      BY <2>2, <2>3, <2>4, <2>5, <2>6, CurrentChanges
  <1> QED
    BY <1>6, <1>7 DEF WaitersServed

LEMMA InitLazy ==
    ASSUME Init
    PROVE  LazyInv
  <1> USE DEF Init, CoordinatorInit, WorkerInit
  <1>1. WaitersServed
    BY DEF WaitersServed, RunningAt, Idle, ToSet
  <1>2. WaitersTold
    BY DEF WaitersTold, NoTensors
  <1> QED
    BY <1>1, <1>2 DEF LazyInv

LEMMA StepLazy ==
    ASSUME ReleaseInv, HeldInv, LazyInv, [Next]_vars
    PROVE  LazyInv'
  <1>1. TypeOK /\ CallsOnce /\ InPlace
    BY DEF ReleaseInv, FlowInv, TaskInv
  <1> QED
    BY <1>1, StepServed, StepTold DEF LazyInv

LEMMA WaitsServed ==
    ASSUME TypeOK, HeldInv, InPlace, LazyInv
    PROVE  NoLostLazyArrival
  <1>1. WaitersServed /\ WaitersTold /\ TasksPending
    BY TasksArePending DEF LazyInv
  <1>2. \A w \in Worker : \A i \in DOMAIN taskQueue[w] :
          taskQueue[w][i] \in ToSet(taskQueue[w]) /\ taskQueue[w][i] \in TaskMessage
    BY Elements DEF TypeOK, CoordinatorTypeOK, ChannelTypeOK
  <1>3. ASSUME NEW w \in Worker, NEW x \in Waits(w)
        PROVE  Expected(x[1], x[2], w)
    <2>1. ASSUME NEW i \in DOMAIN taskQueue[w], NEW j \in DOMAIN taskQueue[w][i].entries,
                 NEW t \in taskQueue[w][i].entries[j].lazy,
                 x = <<taskQueue[w][i].entries[j], t>>
          PROVE  Expected(x[1], x[2], w)
      <3> DEFINE e == taskQueue[w][i].entries[j]
      <3>1. e \in ToSet(taskQueue[w][i].entries)
        BY <1>2, Elements DEF TaskMessage
      <3>2. Expected(e, t, w)
        BY <1>1, <1>2, <3>1 DEF WaitersServed
      <3> QED
        BY <2>1, <3>2
    <2>2. ASSUME NEW j \in DOMAIN current[w].entries, NEW b \in current[w].lazy,
                 b.req = current[w].entries[j].req,
                 b.tensor \in current[w].entries[j].lazy,
                 x = <<current[w].entries[j], b.tensor>>
          PROVE  Expected(x[1], x[2], w)
      <3> DEFINE e == current[w].entries[j]
      <3>1. e \in RunningAt(w)
        BY DEF RunningAt, ToSet
      <3>2. b \in Buffer
        BY DEF TypeOK, WorkerTypeOK
      <3>3. Named(e, b.tensor) = b
        BY <2>2, <3>2 DEF Named, Buffer
      <3>4. Expected(e, b.tensor, w)
        BY <1>1, <2>2, <3>1, <3>3 DEF WaitersServed
      <3> QED
        BY <2>2, <3>4
    <2>3. \/ \E i \in DOMAIN taskQueue[w] : \E j \in DOMAIN taskQueue[w][i].entries :
               \E t \in taskQueue[w][i].entries[j].lazy : x = <<taskQueue[w][i].entries[j], t>>
          \/ \E j \in DOMAIN current[w].entries : \E b \in current[w].lazy :
               /\ b.req = current[w].entries[j].req
               /\ b.tensor \in current[w].entries[j].lazy
               /\ x = <<current[w].entries[j], b.tensor>>
      BY DEF Waits
    <2> QED
      BY <2>1, <2>2, <2>3
  <1>4. ASSUME NEW r \in Request, NEW t \in Tensor, NoticePending(r, t)
        PROVE  \E i \in DOMAIN ready : /\ ready[i].cb = "notify" /\ ready[i].req = r
                                       /\ t \in ready[i].tensors
    BY <1>4 DEF NoticePending, ToSet
  <1> QED
    BY <1>1, <1>3, <1>4 DEF NoLostLazyArrival, WaitersTold, Expected, Named

LEMMA LazyHolds == Spec => [](ReleaseInv /\ HeldInv /\ LazyInv)
  <1>1. Init => LazyInv
    BY InitLazy
  <1>2. ReleaseInv /\ HeldInv /\ LazyInv /\ [Next]_vars => LazyInv'
    BY StepLazy
  <1> QED
    BY <1>1, <1>2, HeldHolds, PTL DEF Spec

\* A lazy input a task still lacks is registered for it, on its way, or there,
\* and a registered waiter of a known tensor has a notification coming.
THEOREM LazyArrivalsReach == Spec => []NoLostLazyArrival
  <1>1. ReleaseInv /\ HeldInv /\ LazyInv => NoLostLazyArrival
    BY WaitsServed DEF ReleaseInv, FlowInv, TaskInv
  <1> QED
    BY <1>1, LazyHolds, PTL

-----------------------------------------------------------------------------
(* The copies announced to waiters *)

NoticesHeld ==
    \A c \in ToSet(ready) : c.cb = "notify" =>
        \A t \in c.tensors : HeldAt(Named(c, t), c.src)

ArrivalsHeld ==
    \A w \in Worker : \A m \in lazyQueue[w] :
        HeldAt(Named(m, m.tensor), m.src) /\ m.tensor \in Inputs[m.node]

WaitersTake ==
    \A r \in Request, t \in Tensor : \A d \in lazyDependents[r][t] : t \in Inputs[d[1]]

ArrivalInv == NoticesHeld /\ ArrivalsHeld /\ WaitersTake

LEMMA StepWaiters ==
    ASSUME TypeOK, CallsOnce, InPlace, WaitersTake, [Next]_vars
    PROVE  WaitersTake'
  <1> SUFFICES ASSUME NEW r \in Request, NEW t \in Tensor, NEW d \in lazyDependents'[r][t]
               PROVE  t \in Inputs[d[1]]
    BY DEF WaitersTake
  <1>1. CASE d \in lazyDependents[r][t]
    BY <1>1 DEF WaitersTake
  <1>2. CASE ScheduleTaskGroup
    <2>1. ASSUME NEW x \in ToSet(Head(ready).group), t \in LazyMissing(x),
                 d = <<x.node, Head(ready).dst>>
          PROVE  t \in Inputs[d[1]]
      <3>1. x.node \in Node
        BY <1>2, DispatchedTasks DEF Task
      <3> QED
        BY <2>1, <3>1, WorkflowAssumption DEF LazyMissing
    <2> QED
      BY <1>1, <1>2, <2>1, LazyRegistered
  <1>3. CASE NotifyLazyInputAvailable
    BY <1>1, <1>3, LazyNotified
  <1>4. CASE FinishRequest
    <2>1. \/ lazyDependents'[r][t] = {} \/ lazyDependents'[r][t] = lazyDependents[r][t]
      BY <1>4 DEF FinishRequest, NoTensors, TypeOK, CoordinatorTypeOK, TensorTypeOK
    <2> QED
      BY <1>1, <2>1
  <1> QED
    BY <1>1, <1>2, <1>3, <1>4, Footprints DEF Footprint

LEMMA StepNoticesHeld ==
    ASSUME TypeOK, CallsOnce, InPlace, HeldInv, NoticesHeld, [Next]_vars
    PROVE  NoticesHeld'
  <1>1. FreesReleased /\ ResultsHeld
    BY DEF HeldInv
  <1>2. ASSUME NEW b, NEW v, b \in Buffer, v \in Worker, HeldAt(b, v)
        PROVE  HeldAt(b, v)'
    BY <1>1, <1>2, HeldKept
  <1> SUFFICES ASSUME NEW c \in ToSet(ready'), c.cb = "notify", NEW t \in c.tensors
               PROVE  HeldAt(Named(c, t), c.src)'
    BY DEF NoticesHeld
  <1>3. CASE c \in ToSet(ready)
    <2>1. c \in Callback
      BY <1>3, Elements DEF TypeOK, CoordinatorTypeOK, LoopTypeOK
    <2>2. c.src \in Worker /\ Named(c, t) \in Buffer
      BY <2>1, CallbackFields DEF Named, Buffer
    <2> QED
      BY <1>2, <1>3, <2>2 DEF NoticesHeld
  <1>4. CASE /\ GatherTask /\ c.req = Head(results.rest).req
             /\ c.tensors = Head(results.rest).tensors /\ c.src = results.from
    <2>1. /\ Head(results.rest) \in ToSet(results.rest) /\ results.rest \in Seq(Response)
          /\ results.from \in Worker
      BY <1>4, HandledResult
    <2>2. Named(c, t) \in ToldBy(results.rest)
      BY <1>4, <2>1 DEF ToldBy, BuffersOf, Named
    <2>3. Named(c, t) \in Buffer /\ HeldAt(Named(c, t), c.src)
      BY <1>1, <1>4, <2>1, <2>2, AnnouncedTypes DEF ResultsHeld
    <2> QED
      BY <1>2, <1>4, <2>1, <2>3
  <1>5. ASSUME NEW w \in Worker, GatherTensorBatch(w), c.src = w,
               Named(c, t) \in Head(resultQueue[w]).buffers
        PROVE  HeldAt(Named(c, t), c.src)'
    <2> DEFINE m == Head(resultQueue[w])
    <2>1. /\ resultQueue[w] \in Seq(ResultMessage) /\ resultQueue[w] # <<>>
          /\ m.type = "tensor_batch_ready" /\ m.buffers \subseteq Buffer
      BY <1>5, TakenBatch
    <2>2. m \in ToSet(resultQueue[w])
      BY <2>1, Elements
    <2> HIDE DEF m
    <2>3. Named(c, t) \in Announced(m) /\ Named(c, t) \in Buffer
      BY <1>5, <2>1 DEF Announced, m
    <2>4. HeldAt(Named(c, t), c.src)
      BY <1>1, <1>5, <2>2, <2>3 DEF ResultsHeld
    <2> QED
      BY <1>2, <1>5, <2>3, <2>4
  <1> QED
    BY <1>3, <1>4, <1>5, NoticesCreated

LEMMA StepArrivalsHeld ==
    ASSUME TypeOK, CallsOnce, InPlace, HeldInv, ArrivalInv, [Next]_vars
    PROVE  ArrivalsHeld'
  <1>1. FreesReleased /\ NoticesHeld /\ ArrivalsHeld /\ WaitersTake
    BY DEF HeldInv, ArrivalInv
  <1>2. ASSUME NEW b, NEW v, b \in Buffer, v \in Worker, HeldAt(b, v)
        PROVE  HeldAt(b, v)'
    BY <1>1, <1>2, HeldKept
  <1> SUFFICES ASSUME NEW w \in Worker, NEW m \in lazyQueue'[w]
               PROVE  HeldAt(Named(m, m.tensor), m.src)' /\ m.tensor \in Inputs[m.node]
    BY DEF ArrivalsHeld
  <1>3. CASE m \in lazyQueue[w]
    <2>1. m \in LazyArrival
      BY <1>3 DEF TypeOK, CoordinatorTypeOK, ChannelTypeOK
    <2>2. m.src \in Worker /\ Named(m, m.tensor) \in Buffer
      BY <2>1 DEF LazyArrival, Named, Buffer
    <2> QED
      BY <1>1, <1>2, <1>3, <2>2 DEF ArrivalsHeld
  <1>4. CASE NotifyLazyInputAvailable /\ m \notin lazyQueue[w]
    <2> DEFINE c == Head(ready)
    <2>1. /\ c \in Callback /\ c.cb = "notify" /\ c \in ToSet(ready) /\ SentOf(c, m)
          /\ c.req \in Request /\ c.tensors \subseteq Tensor
      BY <1>4, LazyNotified
    <2> HIDE DEF c
    <2>2. /\ m.req = c.req /\ m.tensor \in c.tensors /\ m.src = c.src
          /\ \E d \in lazyDependents[m.req][m.tensor] : m.node = d[1]
      BY <2>1 DEF SentOf
    <2>3. m.tensor \in Inputs[m.node]
      BY <1>1, <2>1, <2>2 DEF WaitersTake
    <2>4. Named(m, m.tensor) = Named(c, m.tensor) /\ Named(m, m.tensor) \in Buffer
          /\ m.src \in Worker
      BY <2>1, <2>2, CallbackFields DEF Named, Buffer
    <2>5. HeldAt(Named(m, m.tensor), m.src)
      BY <1>1, <2>1, <2>2, <2>4 DEF NoticesHeld
    <2> QED
      BY <1>2, <2>3, <2>4, <2>5
  <1>5. ASSUME NEW v \in Worker, FetchLazy(v)
        PROVE  m \in lazyQueue[w]
    <2>1. PICK a \in lazyQueue[v] : lazyQueue' = [lazyQueue EXCEPT ![v] = @ \ {a}]
      BY <1>5 DEF FetchLazy
    <2> QED
      BY <2>1 DEF TypeOK, CoordinatorTypeOK, ChannelTypeOK
  <1> QED
    BY <1>3, <1>4, <1>5, Footprints DEF Footprint

LEMMA InitArrivals ==
    ASSUME Init
    PROVE  ArrivalInv
  <1> USE DEF Init, CoordinatorInit, WorkerInit
  <1>1. NoticesHeld
    BY DEF NoticesHeld, ToSet
  <1>2. ArrivalsHeld /\ WaitersTake
    BY DEF ArrivalsHeld, WaitersTake, NoTensors
  <1> QED
    BY <1>1, <1>2 DEF ArrivalInv

LEMMA StepArrivalInv ==
    ASSUME ReleaseInv, HeldInv, ArrivalInv, [Next]_vars
    PROVE  ArrivalInv'
  <1>1. TypeOK /\ CallsOnce /\ InPlace
    BY DEF ReleaseInv, FlowInv, TaskInv
  <1> QED
    BY <1>1, StepWaiters, StepNoticesHeld, StepArrivalsHeld DEF ArrivalInv

LEMMA WaitersFetch ==
    ASSUME TypeOK, ArrivalInv
    PROVE  ArrivingTensorsHeld
  <1> SUFFICES ASSUME NEW w \in Worker, NEW m \in lazyQueue[w], phase[m.req] = "live",
                      m.node \notin completedNodes[m.req]
               PROVE  [req |-> m.req, tensor |-> m.tensor] \in store[m.src]
    BY DEF ArrivingTensorsHeld
  <1>1. m.node \in Node
    BY DEF TypeOK, CoordinatorTypeOK, ChannelTypeOK, LazyArrival
  <1>2. HeldAt(Named(m, m.tensor), m.src) /\ m.tensor \in Inputs[m.node]
    BY DEF ArrivalInv, ArrivalsHeld
  <1>3. ~Released(Named(m, m.tensor))
    BY <1>1, <1>2 DEF Released, GivenUp, Consumers, Named
  <1> QED
    BY <1>2, <1>3 DEF HeldAt, Named

\* The fetching thread finds the copy it was told of, as long as the task that
\* waits for it has not completed.
THEOREM ArrivalsFindTheirSource == Spec => []ArrivingTensorsHeld
  <1>1. Init => ArrivalInv
    BY InitArrivals
  <1>2. ReleaseInv /\ HeldInv /\ ArrivalInv /\ [Next]_vars => ArrivalInv'
    BY StepArrivalInv
  <1>3. ReleaseInv /\ ArrivalInv => ArrivingTensorsHeld
    BY WaitersFetch DEF ReleaseInv, FlowInv, TaskInv
  <1> QED
    BY <1>1, <1>2, <1>3, HeldHolds, PTL DEF Spec

-----------------------------------------------------------------------------
(***************************************************************************)
(* Where the work of a worker comes from: the steps of a request's denoise *)
(* scheduler all execute on one worker; the load the coordinator keeps of  *)
(* a worker is what is outstanding there; and a dedicated worker only has  *)
(* work of its request.  For every workflow, every number of requests and  *)
(* workers, and (the first two) both policies.                             *)
(***************************************************************************)

-----------------------------------------------------------------------------
(* Pins *)

\* A pin, once made, stays.
PinsKept == \A r \in Request : pinned[r] # None => pinned'[r] = pinned[r]

\* What is placed remains so while the pins are kept.
LEMMA PlacedStable ==
    ASSUME TypeOK, PinsKept
    PROVE  /\ PlacedCallback \subseteq PlacedCallback'
           /\ \A w \in Worker : PlacedMessage(w) \subseteq PlacedMessage(w)'
  <1>1. \A task, w : task.req \in Request /\ w \in Worker /\ MayBeAt(task, w)
                        => MayBeAt(task, w)'
    BY SchedulingAssumption DEF PinsKept, MayBeAt
  <1>2. ASSUME NEW c \in PlacedCallback
        PROVE  c \in PlacedCallback'
    <2>1. c \in Callback
      BY DEF PlacedCallback
    <2>2. CASE c.cb = "dispatch"
      <3>1. c.group \in Seq(Task) /\ c.dst \in Worker
        BY <2>1, <2>2, CallbackFields
      <3>2. \A i \in DOMAIN c.group : c.group[i].req \in Request
        <4>1. \A i \in DOMAIN c.group : c.group[i] \in Task
          BY <3>1, ElementOfSeq, LenProperties
        <4> QED
          BY <4>1 DEF Task
      <3>3. \A i \in DOMAIN c.group : MayBeAt(c.group[i], c.dst)
        BY <2>2 DEF PlacedCallback
      <3>4. \A i \in DOMAIN c.group : MayBeAt(c.group[i], c.dst)'
        BY <1>1, <3>1, <3>2, <3>3
      <3> QED
        BY <2>1, <3>4 DEF PlacedCallback
    <2> QED
      BY <2>1, <2>2 DEF PlacedCallback
  <1>3. ASSUME NEW w \in Worker, NEW m \in PlacedMessage(w)
        PROVE  m \in PlacedMessage(w)'
    <2>1. m \in TaskMessage /\ m.entries \in Seq(Entry)
      BY DEF PlacedMessage, TaskMessage
    <2>2. \A i \in DOMAIN m.entries : m.entries[i].req \in Request
      <3>1. \A i \in DOMAIN m.entries : m.entries[i] \in Entry
        BY <2>1, ElementOfSeq, LenProperties
      <3> QED
        BY <3>1 DEF Entry
    <2>3. \A i \in DOMAIN m.entries : MayBeAt(m.entries[i], w)
      BY DEF PlacedMessage
    <2>4. \A i \in DOMAIN m.entries : MayBeAt(m.entries[i], w)'
      BY <1>1, <2>2, <2>3
    <2> QED
      BY <2>1, <2>4 DEF PlacedMessage
  <1> QED
    BY <1>2, <1>3

\* A group without scheduler steps, or callbacks of another kind, are placed.
LEMMA CreatedPlaced == Seq(Created) \subseteq Seq(PlacedCallback)
  <1>1. Created \subseteq PlacedCallback
    BY DEF Created, PlacedCallback
  <1> QED
    BY <1>1, SeqMonotonic

-----------------------------------------------------------------------------
(* Steps that leave the queues, the pins or the group alone *)

LEMMA StepsAloneUnchanged ==
    ASSUME AffinityInv, UNCHANGED scheduleVars
    PROVE  StepsAlone'
  BY DEF AffinityInv, StepsAlone, scheduleVars

\* A step that keeps the pins and the workers and only creates callbacks.
LEMMA PlacedAfterCreation ==
    ASSUME AffinityInv, NEW created \in Seq(Created),
           ready' = ready \o created
             \/ (ready # <<>> /\ ready' = Tail(ready) \o created),
           UNCHANGED <<pinned, taskQueue, requestSchedulers>>
    PROVE  StepsPlaced'
  <1>1. ready \in Seq(PlacedCallback) /\ created \in Seq(PlacedCallback)
    BY CreatedPlaced DEF AffinityInv, StepsPlaced
  <1>2. ready # <<>> => Tail(ready) \in Seq(PlacedCallback)
    BY <1>1, HeadTailProperties
  <1>3. ready' \in Seq(PlacedCallback)
    BY <1>1, <1>2, ConcatProperties
  <1>4. PlacedCallback' = PlacedCallback
        /\ \A w \in Worker : PlacedMessage(w)' = PlacedMessage(w)
    BY DEF PlacedCallback, PlacedMessage, MayBeAt
  <1> QED
    BY <1>3, <1>4 DEF AffinityInv, StepsPlaced

\* The same for a step that leaves the event loop alone too.
LEMMA PlacedUnchanged ==
    ASSUME AffinityInv, UNCHANGED <<ready, pinned, taskQueue, requestSchedulers>>
    PROVE  StepsPlaced'
  BY DEF AffinityInv, StepsPlaced, PlacedCallback, PlacedMessage, MayBeAt

\* A callback that creates none.
LEMMA PlacedAfterCallback ==
    ASSUME AffinityInv, NEW cb, Runs(cb), Ran(<<>>),
           UNCHANGED <<pinned, taskQueue, requestSchedulers>>
    PROVE  StepsPlaced'
  <1>1. ready # <<>>
    BY EmptySeq DEF Runs, AffinityInv, TypeOK, CoordinatorTypeOK, LoopTypeOK
  <1>2. <<>> \in Seq(Created) /\ ready' = Tail(ready) \o <<>>
    BY DEF Ran
  <1> QED
    BY <1>1, <1>2, PlacedAfterCreation

-----------------------------------------------------------------------------
(* The steps that matter *)

LEMMA StartRequestPlaced ==
    ASSUME AffinityInv, StartRequest, UNCHANGED workerVars
    PROVE  StepsAlone' /\ StepsPlaced'
  <1>1. StepsAlone'
    BY DEF StartRequest, AffinityInv, StepsAlone
  <1>2. StepsPlaced'
    BY PlacedAfterCallback DEF StartRequest, workerVars, channelVars, policyVars
  <1> QED
    BY <1>1, <1>2

LEMMA PutTaskPlaced ==
    ASSUME AffinityInv, PutTask, UNCHANGED workerVars
    PROVE  StepsAlone' /\ StepsPlaced'
  <1>1. StepsAlone'
    BY DEF PutTask, AffinityInv, StepsAlone
  <1>2. StepsPlaced'
    BY PlacedAfterCallback DEF PutTask, workerVars, channelVars, policyVars
  <1> QED
    BY <1>1, <1>2

\* The group that is sent was placed as a callback; now it is as a message.
LEMMA ScheduleTaskGroupPlaced ==
    ASSUME AffinityInv, ScheduleTaskGroup, UNCHANGED workerVars
    PROVE  StepsAlone' /\ StepsPlaced'
  <1> DEFINE g == Head(ready).group
             w == Head(ready).dst
             m == [entries |-> [i \in DOMAIN g |-> EntryFor(g[i])], free |-> freeDict[w]]
  <1>1. TypeOK'
    BY ScheduleTaskGroupType DEF AffinityInv
  <1>2. /\ ready \in Seq(PlacedCallback) /\ ready # <<>>
        /\ Head(ready) \in PlacedCallback /\ Head(ready).cb = "dispatch"
        /\ Tail(ready) \in Seq(PlacedCallback)
    BY HeadTailProperties, EmptySeq
       DEF ScheduleTaskGroup, Runs, AffinityInv, StepsPlaced, TypeOK, CoordinatorTypeOK, LoopTypeOK
  <1>3. g \in Seq(Task) /\ w \in Worker
    BY <1>2, CallbackFields DEF PlacedCallback
  <1>4. \A i \in DOMAIN g : g[i] \in Task /\ MayBeAt(g[i], w)
    BY <1>2, <1>3, ElementOfSeq, LenProperties DEF PlacedCallback
  <1>5. taskQueue' = [taskQueue EXCEPT ![w] = Append(@, m)]
    BY DEF ScheduleTaskGroup
  <1>6. m \in PlacedMessage(w)
    <2>1. \A i \in DOMAIN g : EntryFor(g[i]) \in Entry /\ MayBeAt(EntryFor(g[i]), w)
      BY <1>4, EntryForType DEF MayBeAt, AffinityInv
    <2>2. [i \in DOMAIN g |-> EntryFor(g[i])] \in Seq(Entry)
      BY <1>3, <2>1, LenProperties
    <2>3. freeDict[w] \subseteq Buffer
      BY <1>3 DEF AffinityInv, TypeOK, CoordinatorTypeOK, TensorTypeOK
    <2> QED
      BY <2>1, <2>2, <2>3 DEF PlacedMessage, TaskMessage
  <1>7. \A v \in Worker : taskQueue'[v] \in Seq(PlacedMessage(v))
    <2>1. taskQueue \in [Worker -> Seq(TaskMessage)]
      BY DEF AffinityInv, TypeOK, CoordinatorTypeOK, ChannelTypeOK
    <2>2. \A v \in Worker : taskQueue[v] \in Seq(PlacedMessage(v))
      BY DEF AffinityInv, StepsPlaced
    <2>3. Append(taskQueue[w], m) \in Seq(PlacedMessage(w))
      BY <1>3, <1>6, <2>2, AppendProperties
    <2> HIDE DEF m, w
    <2> QED
      BY <1>3, <1>5, <2>1, <2>2, <2>3
  <1>8. ready' \in Seq(PlacedCallback)
    BY <1>2, ConcatEmptySeq DEF ScheduleTaskGroup, Ran
  <1>9. UNCHANGED <<pinned, requestSchedulers>>
    BY DEF ScheduleTaskGroup, policyVars, workerVars
  <1>10. PlacedCallback' = PlacedCallback
         /\ \A v \in Worker : PlacedMessage(v)' = PlacedMessage(v)
    BY <1>9 DEF PlacedCallback, PlacedMessage, MayBeAt
  <1>11. StepsPlaced'
    BY <1>7, <1>8, <1>9, <1>10 DEF StepsPlaced, AffinityInv
  <1> QED
    BY <1>11, StepsAloneUnchanged DEF ScheduleTaskGroup

\* A scheduler step at the head of the list may only be alone.
LEMMA PickFirstTaskPlaced ==
    ASSUME AffinityInv, PickFirstTask, UNCHANGED workerVars
    PROVE  StepsAlone' /\ StepsPlaced'
  <1> DEFINE first == Head(readyTasks)
  <1>1. first \in Task
    BY HeadTailProperties
       DEF PickFirstTask, CanSchedule, AffinityInv, TypeOK, CoordinatorTypeOK, ScheduleTypeOK
  <1>2. first.node \in SchedulerOp => BatchSize(first, Tail(readyTasks)) = 1
    BY <1>1, SchedulingAssumption, WorkflowAssumption DEF BatchSize, DynamicBatchSize, ExclusiveBatchSize
  <1>3. StepsAlone'
    BY <1>2 DEF PickFirstTask, StepsAlone
  <1> QED
    BY <1>3, PlacedUnchanged
       DEF PickFirstTask, loopVars, channelVars, policyVars, workerVars

\* No task joins a scheduler step, and so none that is one joins a group.
LEMMA JoinGroupPlaced ==
    ASSUME AffinityInv, JoinGroup, UNCHANGED workerVars
    PROVE  StepsAlone' /\ StepsPlaced'
  <1>1. PICK i \in DOMAIN readyTasks : Joins(i) /\ group' = Append(group, readyTasks[i])
    BY DEF JoinGroup
  <1>2. readyTasks[i] \in Task
    BY ElementOfSeq, LenProperties DEF AffinityInv, TypeOK, CoordinatorTypeOK, ScheduleTypeOK
  <1>3. /\ group \in Seq(Task) /\ Len(group) \in Nat \ {0} /\ batchSize \in Nat
        /\ group[1] \in Task
    BY EmptySeq, ElementOfSeq DEF JoinGroup, AffinityInv, TypeOK, CoordinatorTypeOK, ScheduleTypeOK
  <1>4. Len(group) < batchSize
    BY <1>3 DEF JoinGroup, GroupComplete
  <1>5. \A j \in 1 .. Len(group) : group[j].node \notin SchedulerOp
    BY <1>3, <1>4, LenProperties DEF AffinityInv, StepsAlone
  <1>6. readyTasks[i].node \notin SchedulerOp
    <2>1. OpId[group[1].node] = OpId[readyTasks[i].node]
      BY <1>1 DEF Joins, CanGroup, DynamicCanGroup, ExclusiveCanGroup
    <2>2. group[1].node \in Node /\ readyTasks[i].node \in Node
      BY <1>2, <1>3 DEF Task
    <2>3. group[1].node \in SchedulerOp <=> readyTasks[i].node \in SchedulerOp
      BY <2>1, <2>2, WorkflowAssumption
    <2> QED
      BY <1>3, <1>5, <2>3
  <1>7. \A j \in DOMAIN group' : group'[j].node \notin SchedulerOp
    <2>1. DOMAIN group' = 1 .. (Len(group) + 1)
      BY <1>1, <1>2, <1>3, AppendProperties, LenProperties
    <2>2. \A j \in 1 .. Len(group) : group'[j] = group[j]
      BY <1>1, <1>2, <1>3, AppendProperties
    <2>3. group'[Len(group) + 1] = readyTasks[i]
      BY <1>1, <1>2, <1>3, AppendProperties
    <2> QED
      BY <1>3, <1>5, <1>6, <2>1, <2>2, <2>3
  <1> QED
    BY <1>7, PlacedUnchanged
       DEF JoinGroup, StepsAlone, loopVars, channelVars, policyVars, workerVars

\* The worker is chosen for the first of a group; only the first can be a step.
LEMMA AssignGroupPlaced ==
    ASSUME AffinityInv, AssignGroup, UNCHANGED workerVars
    PROVE  StepsAlone' /\ StepsPlaced'
  <1>1. /\ group \in Seq(Task) /\ Len(group) \in Nat \ {0}
        /\ group[1] \in Task /\ group[1].req \in Request
    <2>1. group \in Seq(Task) /\ Len(group) \in Nat \ {0}
      BY EmptySeq DEF AssignGroup, AffinityInv, TypeOK, CoordinatorTypeOK, ScheduleTypeOK
    <2>2. group[1] \in Task
      BY <2>1, ElementOfSeq
    <2> QED
      BY <2>1, <2>2 DEF Task
  <1>2. PICK w \in Worker :
          /\ SelectWorkerForTaskGroup(group[1], w)
          /\ ready' = Append(ready, [cb |-> "dispatch", group |-> group, dst |-> w])
    BY DEF AssignGroup
  <1>3. pinned \in [Request -> Worker \cup {None}]
    BY DEF AffinityInv, TypeOK, PolicyTypeOK
  <1>4. PinsKept
    BY <1>1, <1>2, <1>3 DEF SelectWorkerForTaskGroup, IsPinned, PinsKept
  <1> DEFINE c == [cb |-> "dispatch", group |-> group, dst |-> w]
  <1>5. c \in PlacedCallback'
    <2>1. c \in Callback /\ c.group = group /\ c.dst = w
      BY <1>1, CallbackTypes
    <2>2. group[1].node \in SchedulerOp => pinned'[group[1].req] = w
      BY <1>1, <1>2, <1>3 DEF SelectWorkerForTaskGroup
    <2>3. \A i \in DOMAIN group : group[i].node \in SchedulerOp => i = 1
      BY <1>1, LenProperties DEF AffinityInv, StepsAlone
    <2>4. \A i \in DOMAIN group :
            group[i].node \in SchedulerOp => pinned'[group[i].req] = w
      BY <2>2, <2>3
    <2> QED
      BY <2>1, <2>4 DEF PlacedCallback, MayBeAt
  <1>6. ready' \in Seq(PlacedCallback')
    <2>1. ready \in Seq(PlacedCallback')
      BY <1>4, PlacedStable, SeqMonotonic DEF AffinityInv, StepsPlaced
    <2> HIDE DEF c
    <2>2. ready' = Append(ready, c)
      BY <1>2 DEF c
    <2> QED
      BY <1>5, <2>1, <2>2, AppendProperties
  <1>7. \A v \in Worker : taskQueue'[v] \in Seq(PlacedMessage(v)')
    BY <1>4, PlacedStable, SeqMonotonic DEF AffinityInv, StepsPlaced, AssignGroup, channelVars
  <1>8. \A v \in Worker : \A r \in requestSchedulers'[v] : pinned'[r] = v
    <2>1. requestSchedulers \in [Worker -> SUBSET Request]
      BY DEF AffinityInv, TypeOK, WorkerTypeOK
    <2> QED
      BY <1>4, <2>1, SchedulingAssumption DEF PinsKept, AffinityInv, StepsPlaced, workerVars
  <1>9. StepsAlone'
    BY DEF AssignGroup, StepsAlone
  <1> QED
    BY <1>6, <1>7, <1>8, <1>9 DEF StepsPlaced

\* The worker loads the schedulers of the steps it was sent.
LEMMA StartGroupPlaced ==
    ASSUME AffinityInv, NEW w \in Worker, StartGroup(w)
    PROVE  StepsPlaced'
  <1> DEFINE m == Head(taskQueue[w])
  <1>1. /\ m \in PlacedMessage(w) /\ Tail(taskQueue[w]) \in Seq(PlacedMessage(w))
        /\ taskQueue' = [taskQueue EXCEPT ![w] = Tail(@)]
    BY HeadTailProperties DEF StartGroup, AffinityInv, StepsPlaced
  <1>2. UNCHANGED <<ready, pinned>>
    BY DEF StartGroup, coordinatorSide, loopVars, policyVars
  <1>3. \A r \in LoadedSchedulers(m.entries) : pinned[r] = w
    BY <1>1 DEF LoadedSchedulers, PlacedMessage, MayBeAt
  <1>4. requestSchedulers' =
          [requestSchedulers EXCEPT ![w] = @ \cup LoadedSchedulers(m.entries)]
    BY DEF StartGroup
  <1> HIDE DEF m
  <1>5. \A v \in Worker : \A r \in requestSchedulers'[v] : pinned[r] = v
    BY <1>3, <1>4 DEF AffinityInv, StepsPlaced, TypeOK, WorkerTypeOK
  <1>6. \A v \in Worker : taskQueue'[v] \in Seq(PlacedMessage(v))
    BY <1>1 DEF AffinityInv, StepsPlaced, TypeOK, CoordinatorTypeOK, ChannelTypeOK
  <1>7. PlacedCallback' = PlacedCallback
        /\ \A v \in Worker : PlacedMessage(v)' = PlacedMessage(v)
    BY <1>2 DEF PlacedCallback, PlacedMessage, MayBeAt
  <1> QED
    BY <1>2, <1>5, <1>6, <1>7 DEF AffinityInv, StepsPlaced

-----------------------------------------------------------------------------
(* Every step keeps the invariant *)

LEMMA CoordinatorStepPlaced ==
    ASSUME AffinityInv, CoordinatorNext, UNCHANGED workerVars
    PROVE  StepsAlone' /\ StepsPlaced'
  <1>1. UNCHANGED requestSchedulers
    BY DEF workerVars
  <1>2. ASSUME NEW requests \in SUBSET Request, NEW due \in DueTimers,
               LoopIteration(requests, due)
        PROVE  StepsAlone' /\ StepsPlaced'
    BY <1>1, <1>2, LoopIterationCreates, PlacedAfterCreation, StepsAloneUnchanged
       DEF LoopIteration, AffinityInv, channelVars, policyVars
  <1>3. CASE FinishRequest
    BY <1>1, <1>3, PlacedAfterCallback, StepsAloneUnchanged
       DEF FinishRequest, channelVars, policyVars
  <1>4. CASE NotifyLazyInputAvailable
    BY <1>1, <1>4, PlacedAfterCallback, StepsAloneUnchanged
       DEF NotifyLazyInputAvailable, policyVars
  <1>5. CASE UpdateFreeTensorDict
    BY <1>1, <1>5, PlacedAfterCallback, StepsAloneUnchanged
       DEF UpdateFreeTensorDict, channelVars, policyVars
  <1>6. CASE SchedulerWake \/ GatherWake
    BY <1>1, <1>6, PlacedAfterCallback, StepsAloneUnchanged
       DEF SchedulerWake, GatherWake, channelVars, policyVars
  <1>7. CASE SchedulerSleep \/ GatherSleep
    BY <1>1, <1>7, PlacedUnchanged, StepsAloneUnchanged
       DEF SchedulerSleep, GatherSleep, channelVars, policyVars
  <1>8. ASSUME NEW w \in Worker, GatherTensorBatch(w)
        PROVE  StepsAlone' /\ StepsPlaced'
    BY <1>1, <1>8, GatherTensorBatchCreates, PlacedAfterCreation, StepsAloneUnchanged
       DEF GatherTensorBatch, AffinityInv, policyVars
  <1>9. ASSUME NEW w \in Worker, GatherTaskComplete(w)
        PROVE  StepsAlone' /\ StepsPlaced'
    BY <1>1, <1>9, PlacedUnchanged, StepsAloneUnchanged
       DEF GatherTaskComplete, UpdateWorkerStatusAfterCompletion, loopVars
  <1>10. CASE GatherTask
    <2>1. UNCHANGED pinned
      BY <1>10 DEF GatherTask, CleanupRequest, policyVars
    <2> QED
      BY <1>1, <1>10, <2>1, GatherTaskCreates, PlacedAfterCreation, StepsAloneUnchanged
         DEF GatherTask, AffinityInv, channelVars
  <1> QED
    BY <1>2, <1>3, <1>4, <1>5, <1>6, <1>7, <1>8, <1>9, <1>10, StartRequestPlaced,
       PutTaskPlaced, ScheduleTaskGroupPlaced, PickFirstTaskPlaced, JoinGroupPlaced,
       AssignGroupPlaced
       DEF CoordinatorNext, RunCallback, SchedulerStep

LEMMA WorkerStepPlaced ==
    ASSUME AffinityInv, WorkerNext
    PROVE  StepsAlone' /\ StepsPlaced'
  <1>1. UNCHANGED scheduleVars
    BY DEF WorkerNext, StartGroup, FetchLazy, AcquireLazy, YieldOutput, CompleteGroup,
           coordinatorSide
  <1>2. PICK w \in Worker : \/ StartGroup(w) \/ FetchLazy(w) \/ AcquireLazy(w)
                            \/ YieldOutput(w) \/ CompleteGroup(w)
    BY DEF WorkerNext
  <1>3. CASE StartGroup(w)
    BY <1>1, <1>3, StartGroupPlaced, StepsAloneUnchanged
  <1>4. CASE FetchLazy(w) \/ AcquireLazy(w) \/ YieldOutput(w) \/ CompleteGroup(w)
    <2>1. UNCHANGED <<ready, pinned, taskQueue, requestSchedulers>>
      BY <1>4 DEF FetchLazy, AcquireLazy, YieldOutput, CompleteGroup, coordinatorSide,
                  loopVars, policyVars, channelVars
    <2> QED
      BY <1>1, <2>1, PlacedUnchanged, StepsAloneUnchanged
  <1> QED
    BY <1>2, <1>3, <1>4

LEMMA AffinityStep ==
    ASSUME AffinityInv, [Next]_vars
    PROVE  AffinityInv'
  <1>1. TypeOK'
    BY StepType DEF AffinityInv
  <1>2. StepsAlone' /\ StepsPlaced'
    <2>1. CASE UNCHANGED vars
      BY <2>1, PlacedUnchanged, StepsAloneUnchanged
         DEF vars, coordinatorVars, workerVars, loopVars, policyVars, channelVars
    <2> QED
      BY <2>1, CoordinatorStepPlaced, WorkerStepPlaced DEF Next
  <1> QED
    BY <1>1, <1>2 DEF AffinityInv

LEMMA AffinityInit == Init => AffinityInv
  <1> SUFFICES ASSUME Init PROVE AffinityInv
    OBVIOUS
  <1>1. ready \in Seq(Created)
    <2>1. ready = <<[cb |-> "scheduler"], [cb |-> "gather"]>>
      BY DEF Init, CoordinatorInit
    <2>2. [cb |-> "scheduler"] \in Created /\ [cb |-> "gather"] \in Created
      BY CallbackTypes DEF Loops
    <2> QED
      BY <2>1, <2>2
  <1>2. StepsPlaced
    <2>1. ready \in Seq(PlacedCallback)
      BY <1>1, CreatedPlaced
    <2>2. \A w \in Worker : taskQueue[w] = <<>> /\ requestSchedulers[w] = {}
      BY DEF Init, CoordinatorInit, WorkerInit
    <2>3. \A w \in Worker : taskQueue[w] \in Seq(PlacedMessage(w))
      <3> TAKE w \in Worker
      <3>1. <<>> \in Seq(PlacedMessage(w))
        BY EmptySeq
      <3> QED
        BY <2>2, <3>1
    <2> QED
      BY <2>1, <2>2, <2>3 DEF StepsPlaced
  <1>3. StepsAlone
    BY DEF Init, CoordinatorInit, StepsAlone
  <1> QED
    BY <1>2, <1>3, InitType DEF AffinityInv

\* A scheduler that is on two workers would be pinned to both.
LEMMA AffinityHolds == AffinityInv => SchedulerAffinity
  BY DEF AffinityInv, StepsPlaced, SchedulerAffinity

\* All steps of a request's denoise scheduler execute on one worker, whatever
\* the load, the batching and the policy: its state is never split.
THEOREM SchedulersStay == Spec => []SchedulerAffinity
  <1>1. Spec => []AffinityInv
    BY AffinityInit, AffinityStep, PTL DEF Spec
  <1> QED
    BY <1>1, AffinityHolds, PTL

-----------------------------------------------------------------------------
(* The groups a worker has, by where they are *)

Dispatches(w) == { c \in ToSet(ready) : c.cb = "dispatch" /\ c.dst = w }

Reports(w) == { m \in ToSet(resultQueue[w]) : m.type = "task_complete" }

Sending(w) == { c.group[1] : c \in Dispatches(w) }

Queued(w) == { TaskOf(m.entries[1]) : m \in ToSet(taskQueue[w]) }

AtWork(w) == { TaskOf(e[1]) : e \in {current[w].entries} \ {<<>>} }

Reporting(w) == { TaskOf(m.data[1]) : m \in Reports(w) }

Outstanding(w) == Sending(w) \cup Queued(w) \cup AtWork(w) \cup Reporting(w)

\* No group is empty: its first task names it.
GroupsNamed ==
    /\ \A c \in ToSet(ready) : c.cb = "dispatch" => c.group # <<>>
    /\ \A w \in Worker : \A m \in ToSet(taskQueue[w]) : m.entries # <<>>
    /\ \A w \in Worker : \A m \in Reports(w) : m.data # <<>>

StatusKept ==
    \A w \in Worker : taskGroup[w] = Outstanding(w) /\ estimated[w] \subseteq taskGroup[w]

\* EXCLUSIVE: while a request has nodes left, it is pinned to its own worker.
PinsDedicated ==
    \A r \in Request : pinned[r] # None =>
        /\ Started(r)
        /\ phase[r] = "live" /\ completedNodes[r] # Node => assigned[r] = pinned[r]

LoadInv ==
    /\ TaskInv /\ GroupsNamed /\ StatusKept
    /\ Policy = "EXCLUSIVE" => DedicatedWorkers /\ PinsDedicated

LEMMA OutstandingAre ==
    ASSUME TypeOK, NEW w \in Worker
    PROVE  OutstandingGroups(w) = Outstanding(w)
  <1>1. /\ ready \in Seq(Callback) /\ taskQueue[w] \in Seq(TaskMessage)
        /\ resultQueue[w] \in Seq(ResultMessage)
    BY DEF TypeOK, CoordinatorTypeOK, LoopTypeOK, ChannelTypeOK
  <1>2. { ready[i].group[1] : i \in { k \in DOMAIN ready :
                            ready[k].cb = "dispatch" /\ ready[k].dst = w } } = Sending(w)
    BY <1>1, ZenonT(30) DEF Sending, Dispatches, ToSet
  <1>3. { TaskOf(taskQueue[w][i].entries[1]) : i \in DOMAIN taskQueue[w] } = Queued(w)
    BY <1>1, ZenonT(30) DEF Queued, ToSet
  <1>4. (IF current[w].entries = <<>> THEN {} ELSE { TaskOf(current[w].entries[1]) }) = AtWork(w)
    BY DEF AtWork
  <1>5. { TaskOf(resultQueue[w][i].data[1]) : i \in { k \in DOMAIN resultQueue[w] :
                            resultQueue[w][k].type = "task_complete" } } = Reporting(w)
    BY <1>1, ZenonT(30) DEF Reporting, Reports, ToSet
  <1> QED
    BY <1>2, <1>3, <1>4, <1>5 DEF OutstandingGroups, Outstanding

\* Callbacks that dispatch nothing come and go.
LEMMA SendingKept ==
    ASSUME TypeOK, NEW c \in Seq(Created),
           ready' = ready \o c
             \/ (ready # <<>> /\ Head(ready).cb # "dispatch" /\ ready' = Tail(ready) \o c)
    PROVE  \A w \in Worker : Dispatches(w)' = Dispatches(w) /\ Sending(w)' = Sending(w)
  <1>1. ready \in Seq(Callback)
    BY DEF TypeOK, CoordinatorTypeOK, LoopTypeOK
  <1>2. c \in Seq(Callback) /\ \A x \in ToSet(c) : x.cb # "dispatch"
    <2>1. Created \subseteq Callback /\ \A x \in Created : x.cb # "dispatch"
      BY DEF Created
    <2>2. ToSet(c) \subseteq Created
      BY Elements
    <2> QED
      BY <2>1, <2>2, SeqMonotonic
  <1>3. \A x : x.cb = "dispatch" => (x \in ToSet(ready') <=> x \in ToSet(ready))
    <2>1. CASE ready' = ready \o c
      <3>1. ToSet(ready') = ToSet(ready) \cup ToSet(c)
        BY <1>1, <1>2, <2>1, JoinedList
      <3> QED
        BY <1>2, <3>1
    <2>2. CASE ready # <<>> /\ Head(ready).cb # "dispatch" /\ ready' = Tail(ready) \o c
      <3>1. Tail(ready) \in Seq(Callback) /\ ToSet(ready) = {Head(ready)} \cup ToSet(Tail(ready))
        BY <1>1, <2>2, Elements, HeadTailProperties
      <3>2. ToSet(ready') = ToSet(Tail(ready)) \cup ToSet(c)
        BY <1>2, <2>2, <3>1, JoinedList
      <3> QED
        BY <1>2, <2>2, <3>1, <3>2
    <2> QED
      BY <2>1, <2>2
  <1>4. \A w \in Worker : Dispatches(w)' = Dispatches(w)
    BY <1>3 DEF Dispatches
  <1> QED
    BY <1>4 DEF Sending

\* A group is named by one of the tasks its lane has.
NamesInLanes ==
    \A w \in Worker :
        /\ Sending(w) \subseteq Tasks(Lists[Of("ready")])
        /\ Queued(w) \subseteq Tasks(Lists[<<"queue", w>>])
        /\ AtWork(w) \subseteq Tasks(Lists[<<"run", w>>])
        /\ Reporting(w) \subseteq Tasks(Lists[<<"result", w>>])

LEMMA MappedTask ==
    ASSUME NEW f, NEW s, NEW x \in ToSet(s), NEW j \in DOMAIN f[x]
    PROVE  f[x][j] \in Tasks(Mapped(f, s))
  <1>1. PICK i \in DOMAIN s : s[i] = x
    BY DEF ToSet
  <1>2. i \in DOMAIN Mapped(f, s) /\ Mapped(f, s)[i] = f[x]
    BY <1>1 DEF Mapped
  <1>3. f[x][j] \in ToSet(f[x])
    BY DEF ToSet
  <1> QED
    BY <1>2, <1>3 DEF Tasks

LEMMA FirstInSeq ==
    ASSUME NEW T, NEW s \in Seq(T), s # <<>>
    PROVE  1 \in DOMAIN s /\ s[1] = Head(s) /\ s[1] \in T /\ s[1] \in ToSet(s)
  BY HeadTailProperties, LenProperties, EmptySeq, Elements

LEMMA NamesPlaced == TypeOK /\ GroupsNamed => NamesInLanes
  <1> SUFFICES ASSUME TypeOK, GroupsNamed, NEW w \in Worker
               PROVE  /\ Sending(w) \subseteq Tasks(Lists[Of("ready")])
                      /\ Queued(w) \subseteq Tasks(Lists[<<"queue", w>>])
                      /\ AtWork(w) \subseteq Tasks(Lists[<<"run", w>>])
                      /\ Reporting(w) \subseteq Tasks(Lists[<<"result", w>>])
    BY DEF NamesInLanes
  <1>1. /\ ready \in Seq(Callback) /\ taskQueue[w] \in Seq(TaskMessage)
        /\ resultQueue[w] \in Seq(ResultMessage) /\ current[w].entries \in Seq(Entry)
    BY DEF TypeOK, CoordinatorTypeOK, LoopTypeOK, ChannelTypeOK, WorkerTypeOK
  <1>2. /\ Lists[Of("ready")] = Mapped(Carried, ready)
        /\ Lists[<<"queue", w>>] = Mapped(Sent, taskQueue[w])
        /\ Lists[<<"run", w>>] = << Mapped(TaskIn, current[w].entries) >>
        /\ Lists[<<"result", w>>] = Mapped(Answered, resultQueue[w])
    BY ListsAre DEF LaneContents
  <1>3. ASSUME NEW s \in Seq(Entry \cup Response), s # <<>>
        PROVE  /\ 1 \in DOMAIN Mapped(TaskIn, s) /\ Mapped(TaskIn, s)[1] = TaskOf(s[1])
    <2>1. 1 \in DOMAIN s /\ s[1] \in Entry \cup Response
      BY <1>3, FirstInSeq
    <2> QED
      BY <2>1 DEF Mapped, TaskIn
  <1>4. ASSUME NEW c \in Dispatches(w)
        PROVE  c.group[1] \in Tasks(Lists[Of("ready")])
    <2>1. c \in ToSet(ready) /\ c \in Callback /\ c.cb = "dispatch" /\ c.group # <<>>
      BY <1>1, Elements DEF Dispatches, GroupsNamed
    <2>2. c.group \in Seq(Task) /\ Carried[c] = c.group
      BY <2>1, CallbackFields DEF Carried
    <2>3. 1 \in DOMAIN Carried[c]
      BY <2>1, <2>2, FirstInSeq
    <2> QED
      BY <1>2, <2>1, <2>2, <2>3, MappedTask
  <1>5. ASSUME NEW m \in ToSet(taskQueue[w])
        PROVE  TaskOf(m.entries[1]) \in Tasks(Lists[<<"queue", w>>])
    <2>1. m \in TaskMessage /\ m.entries # <<>>
      BY <1>1, Elements DEF GroupsNamed
    <2>2. m.entries \in Seq(Entry \cup Response) /\ Sent[m] = Mapped(TaskIn, m.entries)
      BY <2>1, CarryTypes DEF Sent, TaskMessage
    <2>3. 1 \in DOMAIN Sent[m] /\ Sent[m][1] = TaskOf(m.entries[1])
      BY <1>3, <2>1, <2>2
    <2> QED
      BY <1>2, <2>3, MappedTask
  <1>6. ASSUME current[w].entries # <<>>
        PROVE  TaskOf(current[w].entries[1]) \in Tasks(Lists[<<"run", w>>])
    <2> DEFINE g == Mapped(TaskIn, current[w].entries)
    <2>1. 1 \in DOMAIN g /\ g[1] = TaskOf(current[w].entries[1])
      BY <1>1, <1>3, <1>6, CarryTypes
    <2>2. g \in Seq(Task)
      BY <1>1, CarryTypes
    <2> HIDE DEF g
    <2>3. Tasks(<<g>>) = ToSet(g)
      BY <2>2, OneList
    <2>4. g[1] \in ToSet(g)
      BY <2>1 DEF ToSet
    <2> QED
      BY <1>2, <2>1, <2>3, <2>4 DEF g
  <1>7. ASSUME NEW m \in Reports(w)
        PROVE  TaskOf(m.data[1]) \in Tasks(Lists[<<"result", w>>])
    <2>1. m \in ToSet(resultQueue[w]) /\ m \in ResultMessage /\ m.type = "task_complete"
          /\ m.data # <<>>
      BY <1>1, Elements DEF GroupsNamed, Reports
    <2>2. m.data \in Seq(Entry \cup Response) /\ Answered[m] = Mapped(TaskIn, m.data)
      BY <2>1, ResultMessageFields, CarryTypes DEF Answered
    <2>3. 1 \in DOMAIN Answered[m] /\ Answered[m][1] = TaskOf(m.data[1])
      BY <1>3, <2>1, <2>2
    <2> QED
      BY <1>2, <2>1, <2>3, MappedTask
  <1> QED
    BY <1>4, <1>5, <1>6, <1>7 DEF Sending, Queued, AtWork, Reporting

LEMMA NamesPlacedNext == (TypeOK /\ GroupsNamed => NamesInLanes)'
  BY NamesPlaced, PTL

LEMMA OutstandingPending ==
    ASSUME TypeOK, InPlace, GroupsNamed, NEW w \in Worker
    PROVE  /\ Outstanding(w) \subseteq Pending
           /\ Outstanding(w) \cap Tasks(Lists[Of("gather")]) = {}
           /\ (Sending(w) \cup Queued(w) \cup AtWork(w)) \cap Tasks(Lists[<<"result", w>>]) = {}
  <1>1. /\ Of("ready") \in Lane /\ Of("gather") \in Lane
        /\ \A name \in {"queue", "run", "result"} : <<name, w>> \in Lane
        /\ Of("ready") # Of("gather")
        /\ \A name \in {"queue", "run", "result"} :
             <<name, w>> # Of("gather") /\ <<name, w>> # Of("ready")
        /\ <<"queue", w>> # <<"result", w>> /\ <<"run", w>> # <<"result", w>>
    BY LanesAre
  <1>2. NamesInLanes
    BY NamesPlaced
  <1>3. /\ Tasks(Lists[Of("ready")]) \subseteq Pending
        /\ \A name \in {"queue", "run", "result"} : Tasks(Lists[<<name, w>>]) \subseteq Pending
    BY <1>1, LanePending
  <1>4. /\ Tasks(Lists[Of("ready")]) \cap Tasks(Lists[Of("gather")]) = {}
        /\ \A name \in {"queue", "run", "result"} :
             Tasks(Lists[<<name, w>>]) \cap Tasks(Lists[Of("gather")]) = {}
    BY <1>1, LanesDisjoint
  <1>5. /\ Tasks(Lists[Of("ready")]) \cap Tasks(Lists[<<"result", w>>]) = {}
        /\ Tasks(Lists[<<"queue", w>>]) \cap Tasks(Lists[<<"result", w>>]) = {}
        /\ Tasks(Lists[<<"run", w>>]) \cap Tasks(Lists[<<"result", w>>]) = {}
    BY <1>1, LanesDisjoint
  <1>6. /\ Sending(w) \subseteq Tasks(Lists[Of("ready")])
        /\ Queued(w) \subseteq Tasks(Lists[<<"queue", w>>])
        /\ AtWork(w) \subseteq Tasks(Lists[<<"run", w>>])
        /\ Reporting(w) \subseteq Tasks(Lists[<<"result", w>>])
    BY <1>2 DEF NamesInLanes
  <1> QED
    BY <1>3, <1>4, <1>5, <1>6 DEF Outstanding

-----------------------------------------------------------------------------
(* The steps that move a group *)

\* Where a name is, when three of the four places of a group stay as they are.
LEMMA OnlySendingChanges ==
    ASSUME UNCHANGED <<taskQueue, current, resultQueue>>, NEW w \in Worker
    PROVE  Queued(w)' = Queued(w) /\ AtWork(w)' = AtWork(w) /\ Reporting(w)' = Reporting(w)
  BY DEF Queued, AtWork, Reporting, Reports

LEMMA SendingUnchanged ==
    ASSUME UNCHANGED ready, NEW w \in Worker
    PROVE  Sending(w)' = Sending(w)
  BY DEF Sending, Dispatches

\* A group is assigned.
LEMMA GroupAssigned ==
    ASSUME TypeOK, TypeOK', InPlace, AssignGroup, UNCHANGED workerVars
    PROVE  \E v \in Worker :
             /\ SelectWorkerForTaskGroup(group[1], v)
             /\ group[1] \in Task /\ group[1] \in Pending
             /\ \A w \in Worker : Outstanding(w)' =
                  Outstanding(w) \cup (IF w = v THEN {group[1]} ELSE {})
  <1>1. PICK v \in Worker :
          /\ SelectWorkerForTaskGroup(group[1], v)
          /\ ready' = Append(ready, [cb |-> "dispatch", group |-> group, dst |-> v])
    BY DEF AssignGroup
  <1> DEFINE c == [cb |-> "dispatch", group |-> group, dst |-> v]
  <1>2. c.cb = "dispatch" /\ c.group = group /\ c.dst = v
    OBVIOUS
  <1>3. ready \in Seq(Callback) /\ ready' = Append(ready, c)
    BY <1>1 DEF TypeOK, CoordinatorTypeOK, LoopTypeOK
  <1>4. group \in Seq(Task) /\ group # <<>> /\ ToSet(group) \subseteq Pending
    BY ListAndGroup DEF AssignGroup
  <1>5. group[1] \in Task /\ group[1] \in Pending
    BY <1>4, FirstInSeq
  <1>6. UNCHANGED <<taskQueue, current, resultQueue>>
    BY DEF AssignGroup, channelVars, workerVars
  <1> HIDE DEF c
  <1>7. ToSet(ready') = ToSet(ready) \cup {c}
    BY <1>3, Elements
  <1>8. ASSUME NEW w \in Worker
        PROVE  Outstanding(w)' = Outstanding(w) \cup (IF w = v THEN {group[1]} ELSE {})
    <2>1. Queued(w)' = Queued(w) /\ AtWork(w)' = AtWork(w) /\ Reporting(w)' = Reporting(w)
      BY <1>6, OnlySendingChanges
    <2>2. Dispatches(w)' = Dispatches(w) \cup (IF w = v THEN {c} ELSE {})
      BY <1>2, <1>7 DEF Dispatches
    <2>3. Sending(w)' = Sending(w) \cup (IF w = v THEN {group[1]} ELSE {})
      BY <1>2, <2>2 DEF Sending
    <2> QED
      BY <2>1, <2>3 DEF Outstanding
  <1> QED
    BY <1>1, <1>5, <1>8

\* The group the event loop sends goes to the queue of its worker.
LEMMA GroupSent ==
    ASSUME TypeOK, TypeOK', InPlace, GroupsNamed, ScheduleTaskGroup, UNCHANGED workerVars
    PROVE  \A w \in Worker : Outstanding(w)' = Outstanding(w)
  <1> DEFINE v == Head(ready).dst
             g == Head(ready).group
  <1>1. /\ ready \in Seq(Callback) /\ ready # <<>> /\ Head(ready).cb = "dispatch"
        /\ ready' = Tail(ready)
    <2>1. ready \in Seq(Callback) /\ ready # <<>> /\ Head(ready).cb = "dispatch"
      BY HeadRuns DEF ScheduleTaskGroup, TypeOK, CoordinatorTypeOK, LoopTypeOK
    <2>2. Tail(ready) \o <<>> = Tail(ready)
      BY <2>1, HeadTailProperties
    <2> QED
      BY <2>1, <2>2 DEF ScheduleTaskGroup, Ran
  <1>2. v \in Worker /\ g \in Seq(Task)
    BY DispatchedTasks
  <1>3. Head(ready) \in ToSet(ready) /\ ToSet(ready) = {Head(ready)} \cup ToSet(ready')
    BY <1>1, Elements
  <1>4. g # <<>>
    BY <1>1, <1>3 DEF GroupsNamed
  <1>5. taskQueue' = [taskQueue EXCEPT ![v] = Append(@, Dispatched)]
        /\ UNCHANGED <<current, resultQueue>>
    BY DEF ScheduleTaskGroup, Dispatched, workerVars
  <1>6. taskQueue \in [Worker -> Seq(TaskMessage)]
    BY DEF TypeOK, CoordinatorTypeOK, ChannelTypeOK
  <1>7. TaskOf(Dispatched.entries[1]) = g[1]
    <2>1. 1 \in DOMAIN g /\ g[1] \in Task
      BY <1>2, <1>4, FirstInSeq
    <2>2. Dispatched.entries[1] = EntryFor(g[1])
      BY <2>1 DEF Dispatched
    <2>3. TaskOf(EntryFor(g[1])) = g[1]
      BY <2>1 DEF EntryFor, TaskOf, Task
    <2> QED
      BY <2>2, <2>3
  <1> HIDE DEF v, g
  <1>8. ASSUME NEW w \in Worker
        PROVE  Outstanding(w)' = Outstanding(w)
    <2>1. AtWork(w)' = AtWork(w) /\ Reporting(w)' = Reporting(w)
      BY <1>5 DEF AtWork, Reporting, Reports
    <2>2. CASE w # v
      <3>1. Dispatches(w)' = Dispatches(w)
        BY <1>3, <2>2 DEF Dispatches, v
      <3>2. taskQueue'[w] = taskQueue[w]
        BY <1>5, <1>6, <2>2
      <3> QED
        BY <2>1, <3>1, <3>2 DEF Outstanding, Sending, Queued
    <2>3. CASE w = v
      <3>1. Dispatches(w) = Dispatches(w)' \cup {Head(ready)}
        BY <1>1, <1>3, <2>3 DEF Dispatches, v
      <3>2. Sending(w) = Sending(w)' \cup {g[1]}
        BY <3>1 DEF Sending, g
      <3>3. taskQueue'[w] = Append(taskQueue[w], Dispatched)
        BY <1>5, <1>6, <2>3
      <3>4. ToSet(taskQueue'[w]) = ToSet(taskQueue[w]) \cup {Dispatched}
        <4>1. taskQueue[w] \in Seq(TaskMessage)
          BY <1>6
        <4> QED
          BY <3>3, <4>1, Elements
      <3>5. Queued(w)' = Queued(w) \cup {g[1]}
        BY <1>7, <3>4 DEF Queued
      <3> QED
        BY <2>1, <3>2, <3>5 DEF Outstanding
    <2> QED
      BY <2>2, <2>3
  <1> QED
    BY <1>8

\* The worker takes it from there.
LEMMA GroupTaken ==
    ASSUME TypeOK, TypeOK', GroupsNamed, NEW v \in Worker, StartGroup(v)
    PROVE  \A w \in Worker : Outstanding(w)' = Outstanding(w)
  <1>1. /\ taskQueue[v] \in Seq(TaskMessage) /\ taskQueue[v] # <<>>
        /\ taskQueue'[v] = Tail(taskQueue[v])
        /\ \A w \in Worker \ {v} : taskQueue'[w] = taskQueue[w] /\ current'[w] = current[w]
        /\ current[v].entries = <<>> /\ current'[v].entries = Head(taskQueue[v]).entries
        /\ UNCHANGED resultQueue /\ UNCHANGED ready
    BY GroupStarts DEF coordinatorSide, loopVars
  <1>2. /\ Head(taskQueue[v]) \in ToSet(taskQueue[v])
        /\ ToSet(taskQueue[v]) = {Head(taskQueue[v])} \cup ToSet(taskQueue'[v])
    BY <1>1, Elements
  <1>3. Head(taskQueue[v]).entries # <<>>
    BY <1>2 DEF GroupsNamed
  <1>4. ASSUME NEW w \in Worker
        PROVE  Outstanding(w)' = Outstanding(w)
    <2>1. Sending(w)' = Sending(w) /\ Reporting(w)' = Reporting(w)
      BY <1>1 DEF Sending, Dispatches, Reporting, Reports
    <2>2. CASE w # v
      <3>1. taskQueue'[w] = taskQueue[w] /\ current'[w] = current[w]
        BY <1>1, <2>2
      <3> QED
        BY <2>1, <3>1 DEF Outstanding, Queued, AtWork
    <2>3. CASE w = v
      <3>1. Queued(w) = Queued(w)' \cup {TaskOf(Head(taskQueue[v]).entries[1])}
        BY <1>2, <2>3 DEF Queued
      <3>2. AtWork(w) = {} /\ AtWork(w)' = {TaskOf(Head(taskQueue[v]).entries[1])}
        BY <1>1, <1>3, <2>3 DEF AtWork
      <3> QED
        BY <2>1, <3>1, <3>2 DEF Outstanding
    <2> QED
      BY <2>2, <2>3
  <1> QED
    BY <1>4

\* And reports it.
LEMMA GroupReported ==
    ASSUME TypeOK, TypeOK', NEW v \in Worker, CompleteGroup(v)
    PROVE  \A w \in Worker : Outstanding(w)' = Outstanding(w)
  <1>1. /\ current[v].entries # <<>> /\ current'[v] = Idle
        /\ \A w \in Worker \ {v} : current'[w] = current[w]
        /\ resultQueue' = [resultQueue EXCEPT ![v] = Append(@, Completion(v))]
        /\ UNCHANGED taskQueue /\ UNCHANGED ready
    BY GroupCompletes DEF coordinatorSide, loopVars
  <1>2. resultQueue \in [Worker -> Seq(ResultMessage)] /\ current[v].entries \in Seq(Entry)
    BY DEF TypeOK, CoordinatorTypeOK, ChannelTypeOK, WorkerTypeOK
  <1>3. Completion(v).type = "task_complete"
        /\ TaskOf(Completion(v).data[1]) = TaskOf(current[v].entries[1])
    <2>1. 1 \in DOMAIN current[v].entries
      BY <1>1, <1>2, FirstInSeq
    <2> QED
      BY <2>1 DEF Completion, TaskOf
  <1>4. ASSUME NEW w \in Worker
        PROVE  Outstanding(w)' = Outstanding(w)
    <2>1. Sending(w)' = Sending(w) /\ Queued(w)' = Queued(w)
      BY <1>1 DEF Sending, Dispatches, Queued
    <2>2. CASE w # v
      <3>1. resultQueue'[w] = resultQueue[w] /\ current'[w] = current[w]
        BY <1>1, <1>2, <2>2
      <3> QED
        BY <2>1, <3>1 DEF Outstanding, Reporting, Reports, AtWork
    <2>3. CASE w = v
      <3>1. resultQueue'[w] = Append(resultQueue[w], Completion(v))
        BY <1>1, <1>2, <2>3
      <3>2. ToSet(resultQueue'[w]) = ToSet(resultQueue[w]) \cup {Completion(v)}
        <4>1. resultQueue[w] \in Seq(ResultMessage)
          BY <1>2
        <4> QED
          BY <3>1, <4>1, Elements
      <3>3. Reporting(w)' = Reporting(w) \cup {TaskOf(current[v].entries[1])}
        BY <1>3, <3>2 DEF Reporting, Reports
      <3>4. AtWork(w)' = {} /\ AtWork(w) = {TaskOf(current[v].entries[1])}
        BY <1>1, <2>3 DEF AtWork, Idle
      <3> QED
        BY <2>1, <3>3, <3>4 DEF Outstanding
    <2> QED
      BY <2>2, <2>3
  <1> QED
    BY <1>4

\* The coordinator takes a completion: the group it is of was nowhere else.
LEMMA CompletionTaken ==
    ASSUME TypeOK, TypeOK', InPlace, GroupsNamed, GroupsNamed', NEW v \in Worker,
           GatherTaskComplete(v), UNCHANGED workerVars
    PROVE  \E id \in Task :
             /\ UpdateWorkerStatusAfterCompletion(v, id)
             /\ \A w \in Worker : Outstanding(w)' =
                  Outstanding(w) \ (IF w = v THEN {id} ELSE {})
  <1> DEFINE m == Head(resultQueue[v])
             id == TaskOf(m.data[1])
  <1>1. /\ m \in ResultMessage /\ m.type = "task_complete" /\ m.data \in Seq(Response)
    BY TakenCompletion
  <1>2. Gathers(v, "task_complete") /\ UpdateWorkerStatusAfterCompletion(v, id)
    BY DEF GatherTaskComplete, TaskOf
  <1>3. /\ resultQueue \in [Worker -> Seq(ResultMessage)] /\ resultQueue[v] # <<>>
        /\ resultQueue' = [resultQueue EXCEPT ![v] = Tail(@)]
    BY <1>2 DEF Gathers, TypeOK, CoordinatorTypeOK, ChannelTypeOK
  <1>4. resultQueue[v] \in Seq(ResultMessage) /\ resultQueue'[v] = Tail(resultQueue[v])
    BY <1>3
  <1>5. /\ m \in ToSet(resultQueue[v]) /\ ToSet(resultQueue[v]) = {m} \cup ToSet(resultQueue'[v])
    BY <1>3, <1>4, Elements
  <1>6. m.data # <<>>
    BY <1>1, <1>5 DEF GroupsNamed, Reports
  <1>7. /\ ToSet(Answered[m]) \subseteq Tasks(Lists[<<"result", v>>])
        /\ Tasks(Lists'[<<"result", v>>]) = Tasks(Lists[<<"result", v>>]) \ ToSet(Answered[m])
    BY <1>2, ResultTaken
  <1>8. id \in ToSet(Answered[m]) /\ id \in Task
    <2>1. 1 \in DOMAIN m.data /\ m.data[1] \in Response
      BY <1>1, <1>6, FirstInSeq
    <2>2. Answered[m] = Mapped(TaskIn, m.data)
      BY <1>1 DEF Answered
    <2>3. 1 \in DOMAIN Answered[m] /\ Answered[m][1] = id
      BY <2>1, <2>2 DEF Mapped, TaskIn
    <2>4. id \in Task
      BY <2>1 DEF TaskOf, Task, Response
    <2> QED
      BY <2>3, <2>4 DEF ToSet
  <1>9. UNCHANGED <<ready, taskQueue, current>>
    BY DEF GatherTaskComplete, loopVars, workerVars
  <1> HIDE DEF m, id
  <1>10. ASSUME NEW w \in Worker
         PROVE  Outstanding(w)' = Outstanding(w) \ (IF w = v THEN {id} ELSE {})
    <2>1. Sending(w)' = Sending(w) /\ Queued(w)' = Queued(w) /\ AtWork(w)' = AtWork(w)
      BY <1>9 DEF Sending, Dispatches, Queued, AtWork
    <2>2. CASE w # v
      <3>1. resultQueue'[w] = resultQueue[w]
        BY <1>3, <2>2
      <3> QED
        BY <2>1, <2>2, <3>1 DEF Outstanding, Reporting, Reports
    <2>3. CASE w = v
      <3>1. Reporting(w) = Reporting(w)' \cup {id}
        BY <1>1, <1>5, <2>3 DEF Reporting, Reports, id
      <3>2. Reporting(w)' \subseteq Tasks(Lists'[<<"result", v>>])
        BY <2>3, NamesPlacedNext DEF NamesInLanes
      <3>3. id \notin Reporting(w)'
        BY <1>7, <1>8, <3>2
      <3>4. id \notin Sending(w) \cup Queued(w) \cup AtWork(w)
        BY <1>7, <1>8, <2>3, OutstandingPending
      <3> QED
        BY <2>1, <2>3, <3>1, <3>3, <3>4 DEF Outstanding
    <2> QED
      BY <2>2, <2>3
  <1> QED
    BY <1>2, <1>8, <1>10

\* Steps that move no group.
LEMMA GroupsStay ==
    ASSUME TypeOK, NEW c \in Seq(Created),
           \/ UNCHANGED ready
           \/ ready' = ready \o c
           \/ ready # <<>> /\ Head(ready).cb # "dispatch" /\ ready' = Tail(ready) \o c,
           UNCHANGED taskQueue,
           \A w \in Worker : current'[w].entries = current[w].entries,
           \A w \in Worker : Reports(w)' = Reports(w)
    PROVE  \A w \in Worker : Dispatches(w)' = Dispatches(w) /\ Outstanding(w)' = Outstanding(w)
  <1>1. ASSUME NEW w \in Worker
        PROVE  Dispatches(w)' = Dispatches(w) /\ Sending(w)' = Sending(w)
    <2>1. CASE UNCHANGED ready
      BY <2>1 DEF Dispatches, Sending
    <2> QED
      BY <2>1, SendingKept
  <1>2. ASSUME NEW w \in Worker
        PROVE  Queued(w)' = Queued(w) /\ AtWork(w)' = AtWork(w) /\ Reporting(w)' = Reporting(w)
    BY DEF Queued, AtWork, Reporting
  <1> QED
    BY <1>1, <1>2 DEF Outstanding

StatusVars == <<taskGroup, estimated>>

\* What a step does to the groups, and to the status of the workers.
LEMMA GroupSteps ==
    ASSUME TypeOK, [Next]_vars
    PROVE  \/ /\ \A w \in Worker : Dispatches(w)' = Dispatches(w) /\ Outstanding(w)' = Outstanding(w)
              /\ UNCHANGED StatusVars
              /\ \A w \in Worker : taskQueue'[w] = taskQueue[w]
              /\ \A w \in Worker : Reports(w)' = Reports(w)
           \/ AssignGroup /\ UNCHANGED workerVars
           \/ ScheduleTaskGroup /\ UNCHANGED workerVars /\ UNCHANGED StatusVars
           \/ \E v \in Worker : \/ (StartGroup(v) \/ CompleteGroup(v)) /\ UNCHANGED StatusVars
                                \/ GatherTaskComplete(v) /\ UNCHANGED workerVars
  <1> USE DEF StatusVars, policyVars, channelVars, loopVars
  <1> DEFINE Stays == /\ \A w \in Worker : Dispatches(w)' = Dispatches(w)
                                           /\ Outstanding(w)' = Outstanding(w)
                      /\ UNCHANGED StatusVars
                      /\ \A w \in Worker : taskQueue'[w] = taskQueue[w]
                      /\ \A w \in Worker : Reports(w)' = Reports(w)
  <1>1. <<>> \in Seq(Created)
    BY EmptySeq
  <1>2. ASSUME UNCHANGED <<current, resultQueue>>
        PROVE  /\ \A w \in Worker : current'[w].entries = current[w].entries
               /\ \A w \in Worker : Reports(w)' = Reports(w)
    BY <1>2 DEF Reports
  <1>3. ASSUME NEW cb, Runs(cb), Ran(<<>>), cb # "dispatch"
        PROVE  ready # <<>> /\ Head(ready).cb # "dispatch" /\ ready' = Tail(ready) \o <<>>
    BY <1>3, HeadRuns DEF Ran
  <1>4. CASE UNCHANGED vars
    <2>1. UNCHANGED <<ready, taskQueue, current, resultQueue, taskGroup, estimated>>
      BY <1>4 DEF vars, coordinatorVars, workerVars
    <2>2. Stays
      BY <1>1, <1>2, <2>1, GroupsStay
    <2> QED
      BY <2>2
  <1>5. CASE WorkerNext
    <2>1. PICK v \in Worker : \/ StartGroup(v) \/ FetchLazy(v) \/ AcquireLazy(v)
                              \/ YieldOutput(v) \/ CompleteGroup(v)
      BY <1>5 DEF WorkerNext
    <2>2. UNCHANGED <<ready, taskGroup, estimated>>
      BY <2>1 DEF StartGroup, FetchLazy, AcquireLazy, YieldOutput, CompleteGroup, coordinatorSide
    <2>3. CASE FetchLazy(v)
      <3>1. UNCHANGED <<taskQueue, current, resultQueue>>
        BY <2>3 DEF FetchLazy
      <3>2. Stays
        BY <1>1, <1>2, <2>2, <3>1, GroupsStay
      <3> QED
        BY <3>2
    <2>4. CASE AcquireLazy(v) \/ YieldOutput(v)
      <3>1. UNCHANGED taskQueue
        BY <2>4 DEF AcquireLazy, YieldOutput
      <3>2. \A w \in Worker : current'[w].entries = current[w].entries
        <4>1. CASE AcquireLazy(v)
          <5>1. PICK S : current' = [current EXCEPT ![v].lazy = S]
            BY <4>1 DEF AcquireLazy
          <5> QED
            BY <5>1 DEF TypeOK, WorkerTypeOK
        <4>2. CASE YieldOutput(v)
          <5>1. PICK S : current' = [current EXCEPT ![v].yields = S]
            BY <4>2 DEF YieldOutput
          <5> QED
            BY <5>1 DEF TypeOK, WorkerTypeOK
        <4> QED
          BY <2>4, <4>1, <4>2
      <3>3. ASSUME NEW w \in Worker
            PROVE  Reports(w)' = Reports(w)
        <4>1. CASE resultQueue'[w] = resultQueue[w]
          BY <4>1 DEF Reports
        <4>2. CASE \E buffers : resultQueue'[w] = Append(resultQueue[w],
                     [type |-> "tensor_batch_ready", buffers |-> buffers])
          <5>1. resultQueue[w] \in Seq(ResultMessage)
            BY DEF TypeOK, CoordinatorTypeOK, ChannelTypeOK
          <5>2. PICK m : resultQueue'[w] = Append(resultQueue[w], m) /\ m.type # "task_complete"
            BY <4>2
          <5>3. ToSet(resultQueue'[w]) = ToSet(resultQueue[w]) \cup {m}
            BY <5>1, <5>2, Elements
          <5> QED
            BY <5>2, <5>3 DEF Reports
        <4>3. CASE AcquireLazy(v)
          <5>1. UNCHANGED resultQueue
            BY <4>3 DEF AcquireLazy
          <5> QED
            BY <5>1 DEF Reports
        <4>4. CASE YieldOutput(v)
          <5>1. PICK buffers : resultQueue' = [resultQueue EXCEPT ![v] = Append(@,
                     [type |-> "tensor_batch_ready", buffers |-> buffers])]
            BY <4>4 DEF YieldOutput
          <5>2. resultQueue \in [Worker -> Seq(ResultMessage)]
            BY DEF TypeOK, CoordinatorTypeOK, ChannelTypeOK
          <5>3. resultQueue'[w] = resultQueue[w] \/ resultQueue'[w] = Append(resultQueue[w],
                     [type |-> "tensor_batch_ready", buffers |-> buffers])
            BY <5>1, <5>2
          <5> QED
            BY <4>1, <4>2, <5>3
        <4> QED
          BY <2>4, <4>3, <4>4
      <3>4. Stays
        BY <1>1, <2>2, <3>1, <3>2, <3>3, GroupsStay
      <3> QED
        BY <3>4
    <2> QED
      BY <2>1, <2>2, <2>3, <2>4
  <1>6. CASE CoordinatorNext /\ UNCHANGED workerVars
    <2>1. UNCHANGED current
      BY <1>6 DEF workerVars
    <2>2. ASSUME NEW requests \in SUBSET Request, NEW due \in DueTimers,
                 LoopIteration(requests, due)
          PROVE  Stays
      <3>1. PICK c \in Seq(Created) : ready' = ready \o c
        BY <2>2, LoopIterationCreates
      <3>2. UNCHANGED <<taskQueue, resultQueue, taskGroup, estimated>>
        BY <2>2 DEF LoopIteration
      <3> QED
        BY <1>2, <2>1, <3>1, <3>2, GroupsStay
    <2>3. CASE StartRequest \/ PutTask \/ FinishRequest \/ NotifyLazyInputAvailable
               \/ UpdateFreeTensorDict \/ SchedulerWake \/ GatherWake
      <3>1. \E cb : Runs(cb) /\ Ran(<<>>) /\ cb # "dispatch"
        BY <2>3 DEF StartRequest, PutTask, FinishRequest, NotifyLazyInputAvailable,
                    UpdateFreeTensorDict, SchedulerWake, GatherWake
      <3>2. UNCHANGED <<taskQueue, resultQueue, taskGroup, estimated>>
        BY <2>3 DEF StartRequest, PutTask, FinishRequest, NotifyLazyInputAvailable,
                    UpdateFreeTensorDict, SchedulerWake, GatherWake
      <3>3. ready # <<>> /\ Head(ready).cb # "dispatch" /\ ready' = Tail(ready) \o <<>>
        BY <1>3, <3>1
      <3>4. Stays
        BY <1>1, <1>2, <2>1, <3>2, <3>3, GroupsStay
      <3> QED
        BY <3>4
    <2>4. CASE ScheduleTaskGroup
      <3>1. UNCHANGED <<taskGroup, estimated>>
        BY <2>4 DEF ScheduleTaskGroup
      <3> QED
        BY <1>6, <2>4, <3>1
    <2>5. CASE PickFirstTask \/ JoinGroup \/ SchedulerSleep \/ GatherSleep
      <3>1. UNCHANGED <<ready, taskQueue, resultQueue, taskGroup, estimated>>
        BY <2>5 DEF PickFirstTask, JoinGroup, SchedulerSleep, GatherSleep
      <3>2. Stays
        BY <1>1, <1>2, <2>1, <3>1, GroupsStay
      <3> QED
        BY <3>2
    <2>6. ASSUME NEW v \in Worker, GatherTensorBatch(v)
          PROVE  Stays
      <3>1. PICK c \in Seq(Created) : ready' = ready \o c
        BY <2>6, GatherTensorBatchCreates
      <3>2. UNCHANGED <<taskQueue, taskGroup, estimated>>
        BY <2>6 DEF GatherTensorBatch
      <3>3. /\ resultQueue[v] \in Seq(ResultMessage) /\ resultQueue[v] # <<>>
            /\ Head(resultQueue[v]).type = "tensor_batch_ready"
            /\ resultQueue' = [resultQueue EXCEPT ![v] = Tail(@)]
        BY <2>6, TakenBatch
      <3>4. resultQueue \in [Worker -> Seq(ResultMessage)]
        BY DEF TypeOK, CoordinatorTypeOK, ChannelTypeOK
      <3>5. ASSUME NEW w \in Worker
            PROVE  Reports(w)' = Reports(w)
        <4>1. CASE w # v
          <5>1. resultQueue'[w] = resultQueue[w]
            BY <3>3, <3>4, <4>1
          <5> QED
            BY <5>1 DEF Reports
        <4>2. CASE w = v
          <5>1. resultQueue'[v] = Tail(resultQueue[v])
            BY <3>3, <3>4
          <5>2. ToSet(resultQueue[v]) = {Head(resultQueue[v])} \cup ToSet(resultQueue'[v])
            BY <3>3, <5>1, Elements
          <5> QED
            BY <3>3, <4>2, <5>2 DEF Reports
        <4> QED
          BY <4>1, <4>2
      <3>6. \A w \in Worker : current'[w].entries = current[w].entries
        BY <2>1
      <3> QED
        BY <3>1, <3>2, <3>5, <3>6, GroupsStay
    <2>7. CASE GatherTask
      <3>1. PICK c \in Seq(Created) : ready' = ready \o c
        BY <2>7, GatherTaskCreates
      <3>2. UNCHANGED <<taskQueue, resultQueue>>
        BY <2>7 DEF GatherTask
      <3>3. UNCHANGED <<taskGroup, estimated>>
        BY <2>7 DEF GatherTask, CleanupRequest
      <3> QED
        BY <1>2, <2>1, <3>1, <3>2, <3>3, GroupsStay
    <2>8. CASE StartRequest \/ PutTask \/ FinishRequest \/ NotifyLazyInputAvailable
               \/ UpdateFreeTensorDict \/ SchedulerWake \/ GatherWake \/ PickFirstTask
               \/ JoinGroup \/ SchedulerSleep \/ GatherSleep \/ GatherTask \/ ScheduleTaskGroup
      BY <2>3, <2>4, <2>5, <2>7, <2>8
    <2>9. CASE \E requests \in SUBSET Request, due \in DueTimers : LoopIteration(requests, due)
      BY <2>2, <2>9
    <2>10. CASE \E v \in Worker : GatherTensorBatch(v) \/ GatherTaskComplete(v)
      BY <1>6, <2>6, <2>10
    <2> HIDE DEF Stays
    <2> QED
      BY <1>6, <2>8, <2>9, <2>10 DEF CoordinatorNext, RunCallback, SchedulerStep
  <1> QED
    BY <1>4, <1>5, <1>6 DEF Next

\* Groups stay named as they move.
LEMMA StepNames ==
    ASSUME TypeOK, TypeOK', GroupsNamed, [Next]_vars
    PROVE  GroupsNamed'
  <1>1. ASSUME NEW c \in ToSet(ready'), c.cb = "dispatch"
        PROVE  c.group # <<>>
    <2>1. /\ ready \in Seq(Callback) /\ ready' \in Seq(Callback)
      BY DEF TypeOK, CoordinatorTypeOK, LoopTypeOK
    <2>2. c \in Callback /\ c.dst \in Worker
      <3>1. c \in Callback
        BY <2>1, Elements
      <3> QED
        BY <1>1, <3>1, CallbackFields
    <2>3. CASE c \in ToSet(ready)
      BY <1>1, <2>3 DEF GroupsNamed
    <2>4. CASE \A w \in Worker : Dispatches(w)' = Dispatches(w)
      <3>1. c \in Dispatches(c.dst)'
        BY <1>1, <2>2 DEF Dispatches
      <3>2. c \in Dispatches(c.dst)
        BY <2>2, <2>4, <3>1
      <3> QED
        BY <2>3, <3>2 DEF Dispatches
    <2>5. CASE AssignGroup
      <3>1. PICK v \in Worker :
              ready' = Append(ready, [cb |-> "dispatch", group |-> group, dst |-> v])
        BY <2>5 DEF AssignGroup
      <3>2. ToSet(ready') = ToSet(ready) \cup {[cb |-> "dispatch", group |-> group, dst |-> v]}
        BY <2>1, <3>1, Elements
      <3> QED
        BY <2>3, <2>5, <3>2 DEF AssignGroup
    <2>6. CASE ScheduleTaskGroup
      <3>1. ready # <<>> /\ ready' = Tail(ready)
        <4>1. ready # <<>>
          BY <2>6, HeadRuns DEF ScheduleTaskGroup
        <4>2. Tail(ready) \o <<>> = Tail(ready)
          BY <2>1, <4>1, HeadTailProperties
        <4> QED
          BY <2>6, <4>1, <4>2 DEF ScheduleTaskGroup, Ran
      <3>2. ToSet(ready') \subseteq ToSet(ready)
        BY <2>1, <3>1, Elements
      <3> QED
        BY <2>3, <3>2
    <2>7. ASSUME NEW v \in Worker, StartGroup(v) \/ CompleteGroup(v) \/ GatherTaskComplete(v)
          PROVE  c.group # <<>>
      <3>1. UNCHANGED ready
        BY <2>7 DEF StartGroup, CompleteGroup, GatherTaskComplete, coordinatorSide, loopVars
      <3> QED
        BY <2>3, <3>1
    <2> QED
      BY <2>4, <2>5, <2>6, <2>7, GroupSteps
  <1>2. ASSUME NEW w \in Worker, NEW m \in ToSet(taskQueue'[w])
        PROVE  m.entries # <<>>
    <2>1. taskQueue[w] \in Seq(TaskMessage)
      BY DEF TypeOK, CoordinatorTypeOK, ChannelTypeOK
    <2>2. CASE m \in ToSet(taskQueue[w])
      BY <2>2 DEF GroupsNamed
    <2>3. CASE taskQueue[w] # <<>> /\ taskQueue'[w] = Tail(taskQueue[w])
      <3>1. ToSet(taskQueue'[w]) \subseteq ToSet(taskQueue[w])
        BY <2>1, <2>3, Elements
      <3> QED
        BY <2>2, <3>1
    <2>4. CASE ScheduleTaskGroup /\ taskQueue'[w] = Append(taskQueue[w], Dispatched)
      <3>1. ToSet(taskQueue'[w]) = ToSet(taskQueue[w]) \cup {Dispatched}
        BY <2>1, <2>4, Elements
      <3>2. Dispatched.entries # <<>>
        <4>1. /\ ready \in Seq(Callback) /\ ready # <<>> /\ Head(ready).cb = "dispatch"
          BY <2>4, HeadRuns DEF ScheduleTaskGroup, TypeOK, CoordinatorTypeOK, LoopTypeOK
        <4>2. Head(ready) \in ToSet(ready) /\ Head(ready) \in Callback
          BY <4>1, Elements, HeadTailProperties
        <4>3. Head(ready).group # <<>> /\ Head(ready).group \in Seq(Task)
          BY <4>1, <4>2, CallbackFields DEF GroupsNamed
        <4>4. 1 \in DOMAIN Head(ready).group
          BY <4>3, FirstInSeq
        <4>5. 1 \in DOMAIN Dispatched.entries
          BY <4>4 DEF Dispatched
        <4> QED
          BY <4>5
      <3> QED
        BY <2>2, <3>1, <3>2
    <2> QED
      BY <2>2, <2>3, <2>4, QueueChanges
  <1>3. ASSUME NEW w \in Worker, NEW m \in Reports(w)'
        PROVE  m.data # <<>>
    <2>1. resultQueue[w] \in Seq(ResultMessage)
      BY DEF TypeOK, CoordinatorTypeOK, ChannelTypeOK
    <2>2. CASE m \in ToSet(resultQueue[w])
      BY <1>3, <2>2 DEF GroupsNamed, Reports
    <2>3. CASE resultQueue[w] # <<>> /\ resultQueue'[w] = Tail(resultQueue[w])
      <3>1. ToSet(resultQueue'[w]) \subseteq ToSet(resultQueue[w])
        BY <2>1, <2>3, Elements
      <3> QED
        BY <1>3, <2>2, <3>1 DEF Reports
    <2>4. ASSUME NEW buffers, resultQueue'[w] = Append(resultQueue[w],
                     [type |-> "tensor_batch_ready", buffers |-> buffers])
          PROVE  m.data # <<>>
      <3>1. ToSet(resultQueue'[w]) = ToSet(resultQueue[w])
                 \cup {[type |-> "tensor_batch_ready", buffers |-> buffers]}
        BY <2>1, <2>4, Elements
      <3> QED
        BY <1>3, <2>2, <3>1 DEF Reports
    <2>5. CASE CompleteGroup(w) /\ resultQueue'[w] = Append(resultQueue[w], Completion(w))
      <3>1. ToSet(resultQueue'[w]) = ToSet(resultQueue[w]) \cup {Completion(w)}
        BY <2>1, <2>5, Elements
      <3>2. Completion(w).data # <<>>
        <4>1. current[w].entries \in Seq(Entry) /\ current[w].entries # <<>>
          BY <2>5, GroupCompletes DEF TypeOK, WorkerTypeOK
        <4>2. 1 \in DOMAIN current[w].entries
          BY <4>1, FirstInSeq
        <4>3. 1 \in DOMAIN Completion(w).data
          BY <4>2 DEF Completion
        <4> QED
          BY <4>3
      <3> QED
        BY <1>3, <2>2, <3>1, <3>2 DEF Reports
    <2>6. CASE resultQueue'[w] = resultQueue[w]
      BY <1>3, <2>2, <2>6 DEF Reports
    <2> QED
      BY <2>3, <2>4, <2>5, <2>6, ResultQueueChanges
  <1> QED
    BY <1>1, <1>2, <1>3 DEF GroupsNamed

\* The status of a worker follows its groups.
LEMMA StepStatus ==
    ASSUME TypeOK, TypeOK', InPlace, GroupsNamed, GroupsNamed', StatusKept, [Next]_vars
    PROVE  StatusKept'
  <1> USE DEF StatusVars
  <1>1. taskGroup \in [Worker -> SUBSET Task] /\ estimated \in [Worker -> SUBSET Task]
    BY DEF TypeOK, PolicyTypeOK
  <1>2. CASE UNCHANGED StatusVars /\ \A w \in Worker : Outstanding(w)' = Outstanding(w)
    BY <1>2 DEF StatusKept
  <1>3. CASE AssignGroup /\ UNCHANGED workerVars
    <2>1. PICK v \in Worker :
             /\ SelectWorkerForTaskGroup(group[1], v)
             /\ \A w \in Worker : Outstanding(w)' =
                  Outstanding(w) \cup (IF w = v THEN {group[1]} ELSE {})
      BY <1>3, GroupAssigned
    <2>2. taskGroup' = [taskGroup EXCEPT ![v] = @ \cup {group[1]}]
      BY <2>1 DEF SelectWorkerForTaskGroup
    <2>3. \/ estimated' = estimated
          \/ estimated' = [estimated EXCEPT ![v] = @ \cup {group[1]}]
      BY <2>1 DEF SelectWorkerForTaskGroup, PolicySelects, DynamicSelects, ExclusiveSelects
    <2>4. ASSUME NEW w \in Worker
          PROVE  /\ taskGroup'[w] = taskGroup[w] \cup (IF w = v THEN {group[1]} ELSE {})
                 /\ estimated'[w] \subseteq estimated[w] \cup (IF w = v THEN {group[1]} ELSE {})
      BY <1>1, <2>2, <2>3
    <2> QED
      BY <2>1, <2>4 DEF StatusKept
  <1>4. CASE ScheduleTaskGroup /\ UNCHANGED workerVars /\ UNCHANGED StatusVars
    BY <1>2, <1>4, GroupSent
  <1>5. ASSUME NEW v \in Worker, StartGroup(v) \/ CompleteGroup(v), UNCHANGED StatusVars
        PROVE  StatusKept'
    BY <1>2, <1>5, GroupTaken, GroupReported
  <1>6. ASSUME NEW v \in Worker, GatherTaskComplete(v), UNCHANGED workerVars
        PROVE  StatusKept'
    <2>1. PICK id \in Task :
             /\ UpdateWorkerStatusAfterCompletion(v, id)
             /\ \A w \in Worker : Outstanding(w)' = Outstanding(w) \ (IF w = v THEN {id} ELSE {})
      BY <1>6, CompletionTaken
    <2>2. taskGroup' = [taskGroup EXCEPT ![v] = @ \ {id}]
          /\ estimated' = [estimated EXCEPT ![v] = @ \ {id}]
      BY <2>1 DEF UpdateWorkerStatusAfterCompletion
    <2>3. ASSUME NEW w \in Worker
          PROVE  /\ taskGroup'[w] = taskGroup[w] \ (IF w = v THEN {id} ELSE {})
                 /\ estimated'[w] = estimated[w] \ (IF w = v THEN {id} ELSE {})
      BY <1>1, <2>2
    <2> QED
      BY <2>1, <2>3 DEF StatusKept
  <1> HIDE DEF StatusVars
  <1>7. \/ UNCHANGED StatusVars /\ \A w \in Worker : Outstanding(w)' = Outstanding(w)
        \/ AssignGroup /\ UNCHANGED workerVars
        \/ ScheduleTaskGroup /\ UNCHANGED workerVars /\ UNCHANGED StatusVars
        \/ \E v \in Worker : (StartGroup(v) \/ CompleteGroup(v)) /\ UNCHANGED StatusVars
        \/ \E v \in Worker : GatherTaskComplete(v) /\ UNCHANGED workerVars
    BY GroupSteps
  <1> QED
    BY <1>2, <1>3, <1>4, <1>5, <1>6, <1>7

-----------------------------------------------------------------------------
(* Dedicated workers *)

Owned == \A r \in Request, w \in Worker : assigned[r] = w <=> owner[w] = r

OwnWork == \A w \in Worker : \A id \in taskGroup[w] : owner[w] = id.req

LEMMA PolicyFootprint ==
    ASSUME [Next]_vars
    PROVE  \/ UNCHANGED policyVars
           \/ AssignGroup \/ GatherTask \/ \E w \in Worker : GatherTaskComplete(w)
  <1>1. CASE UNCHANGED vars
    BY <1>1 DEF vars, coordinatorVars
  <1>2. CASE WorkerNext
    <2>1. UNCHANGED coordinatorSide
      BY <1>2 DEF WorkerNext, StartGroup, FetchLazy, AcquireLazy, YieldOutput, CompleteGroup
    <2> QED
      BY <2>1 DEF coordinatorSide
  <1>3. CASE CoordinatorNext
    <2>1. CASE RunCallback
      BY <2>1 DEF RunCallback, StartRequest, PutTask, FinishRequest, ScheduleTaskGroup,
                  NotifyLazyInputAvailable, UpdateFreeTensorDict, SchedulerWake, GatherWake
    <2>2. CASE PickFirstTask \/ JoinGroup \/ SchedulerSleep \/ GatherSleep
      BY <2>2 DEF PickFirstTask, JoinGroup, SchedulerSleep, GatherSleep
    <2>3. CASE \E requests \in SUBSET Request, due \in DueTimers : LoopIteration(requests, due)
      BY <2>3 DEF LoopIteration
    <2>4. CASE \E w \in Worker : GatherTensorBatch(w)
      BY <2>4 DEF GatherTensorBatch
    <2> QED
      BY <1>3, <2>1, <2>2, <2>3, <2>4 DEF CoordinatorNext, SchedulerStep
  <1> QED
    BY <1>1, <1>2, <1>3 DEF Next

\* Pins say the same of requests whose policy state does not change.
LEMMA PinsStay ==
    ASSUME TypeOK, CallsOnce, InPlace, [Next]_vars, ~GatherTask, PinsDedicated,
           UNCHANGED <<assigned, pinned>>
    PROVE  PinsDedicated'
  <1> SUFFICES ASSUME NEW r \in Request, pinned'[r] # None
               PROVE  /\ Started(r)'
                      /\ phase'[r] = "live" /\ completedNodes'[r] # Node
                           => assigned'[r] = pinned'[r]
    BY DEF PinsDedicated
  <1>1. Started(r) /\ (phase[r] = "live" /\ completedNodes[r] # Node => assigned[r] = pinned[r])
    BY DEF PinsDedicated
  <1>2. Started(r)' /\ (phase'[r] = "live" => phase[r] = "live")
    BY <1>1, StepKeeps DEF Kept
  <1>3. phase'[r] = "live" => completedNodes'[r] = completedNodes[r]
    BY <1>2, CompletedKept
  <1> QED
    BY <1>1, <1>2, <1>3

LEMMA AssignDedicated ==
    ASSUME TypeOK, TypeOK', InPlace, DedicatedWorkers, PinsDedicated, Policy = "EXCLUSIVE",
           AssignGroup, UNCHANGED workerVars
    PROVE  Owned' /\ OwnWork' /\ PinsDedicated'
  <1>1. PICK v \in Worker :
          /\ SelectWorkerForTaskGroup(group[1], v)
          /\ group[1] \in Task /\ group[1] \in Pending
    BY GroupAssigned
  <1> DEFINE task == group[1]
             q == task.req
  <1>2. q \in Request /\ phase[q] = "live" /\ completedNodes[q] # Node
    BY <1>1 DEF Pending, Task
  <1>3. UNCHANGED <<phase, completedNodes>>
    BY DEF AssignGroup, requestVars
  <1>4. taskGroup' = [taskGroup EXCEPT ![v] = @ \cup {task}]
    BY <1>1 DEF SelectWorkerForTaskGroup
  <1>5. /\ taskGroup \in [Worker -> SUBSET Task]
        /\ owner \in [Worker -> Request \cup {None}]
        /\ assigned \in [Request -> Worker \cup {None}]
        /\ pinned \in [Request -> Worker \cup {None}]
    BY DEF TypeOK, PolicyTypeOK
  <1>6. Owned /\ OwnWork
    BY DEF DedicatedWorkers, Owned, OwnWork
  <1>7. \/ IsPinned(task) /\ v = pinned[q] /\ UNCHANGED <<owner, assigned>>
        \/ ~IsPinned(task) /\ assigned[q] # None /\ v = assigned[q] /\ UNCHANGED <<owner, assigned>>
        \/ /\ ~IsPinned(task) /\ assigned[q] = None /\ owner[v] = None
           /\ assigned' = [assigned EXCEPT ![q] = v] /\ owner' = [owner EXCEPT ![v] = q]
    BY <1>1 DEF SelectWorkerForTaskGroup, PolicySelects, ExclusiveSelects, FreeWorkers
  <1>8. pinned' = IF task.node \in SchedulerOp THEN [pinned EXCEPT ![q] = v] ELSE pinned
    BY <1>1 DEF SelectWorkerForTaskGroup
  <1>9. IsPinned(task) <=> task.node \in SchedulerOp /\ pinned[q] # None
    BY DEF IsPinned
  <1>10. task \in Task
    BY <1>1
  <1>11. pinned[q] # None => assigned[q] = pinned[q]
    BY <1>2 DEF PinsDedicated
  <1> HIDE DEF q, task
  <1>12. None \notin Request /\ None \notin Worker
    BY SchedulingAssumption
  <1>13. \A id \in Task : id.req \in Request
    BY DEF Task
  <1>14. CASE UNCHANGED <<owner, assigned>> /\ assigned[q] = v
    <2>1. owner[v] = q
      BY <1>2, <1>6, <1>14 DEF Owned
    <2>2. Owned'
      BY <1>6, <1>14 DEF Owned
    <2>3. OwnWork'
      BY <1>4, <1>5, <1>6, <1>14, <2>1 DEF OwnWork, q
    <2>4. PinsDedicated'
      <3> SUFFICES ASSUME NEW r \in Request, pinned'[r] # None
                   PROVE  /\ Started(r)'
                          /\ phase'[r] = "live" /\ completedNodes'[r] # Node
                               => assigned'[r] = pinned'[r]
        BY DEF PinsDedicated
      <3>1. CASE r = q
        <4>1. pinned'[q] = pinned[q] \/ pinned'[q] = v
          BY <1>2, <1>5, <1>8
        <4> QED
          BY <1>2, <1>3, <1>11, <1>14, <3>1, <4>1 DEF Started
      <3>2. CASE r # q
        <4>1. pinned'[r] = pinned[r]
          BY <1>5, <1>8, <3>2
        <4> QED
          BY <1>3, <1>14, <4>1 DEF PinsDedicated, Started
      <3> QED
        BY <3>1, <3>2
    <2> QED
      BY <2>2, <2>3, <2>4
  <1>15. CASE /\ assigned[q] = None /\ owner[v] = None
              /\ assigned' = [assigned EXCEPT ![q] = v] /\ owner' = [owner EXCEPT ![v] = q]
    <2>1. /\ assigned'[q] = v /\ \A r \in Request \ {q} : assigned'[r] = assigned[r]
          /\ owner'[v] = q /\ \A w \in Worker \ {v} : owner'[w] = owner[w]
      BY <1>2, <1>5, <1>15
    <2>2. Owned'
      <3> SUFFICES ASSUME NEW r \in Request, NEW w \in Worker
                   PROVE  assigned'[r] = w <=> owner'[w] = r
        BY DEF Owned
      <3>1. assigned[r] = w <=> owner[w] = r
        BY <1>6 DEF Owned
      <3>2. assigned[r] # v
        BY <1>6, <1>12, <1>15 DEF Owned
      <3>3. owner[w] # q
        BY <1>2, <1>6, <1>12, <1>15 DEF Owned
      <3>4. CASE r = q /\ w = v
        BY <2>1, <3>4
      <3>5. CASE r = q /\ w # v
        <4>1. owner'[w] = owner[w] /\ assigned'[r] = v
          BY <2>1, <3>5
        <4> QED
          BY <3>3, <3>5, <4>1
      <3>6. CASE r # q /\ w = v
        <4>1. owner'[w] = q /\ assigned'[r] = assigned[r]
          BY <2>1, <3>6
        <4> QED
          BY <3>2, <3>6, <4>1
      <3>7. CASE r # q /\ w # v
        <4>1. owner'[w] = owner[w] /\ assigned'[r] = assigned[r]
          BY <2>1, <3>7
        <4> QED
          BY <3>1, <4>1
      <3> QED
        BY <3>4, <3>5, <3>6, <3>7
    <2>3. OwnWork'
      <3> SUFFICES ASSUME NEW w \in Worker, NEW id \in taskGroup'[w]
                   PROVE  owner'[w] = id.req
        BY DEF OwnWork
      <3>1. taskGroup'[w] = IF w = v THEN taskGroup[w] \cup {task} ELSE taskGroup[w]
        BY <1>4, <1>5
      <3>2. taskGroup[v] = {}
        <4>1. \A id2 \in taskGroup[v] : id2 \in Task /\ owner[v] = id2.req
          BY <1>5, <1>6 DEF OwnWork
        <4> QED
          BY <1>12, <1>13, <1>15, <4>1
      <3>3. CASE w = v
        BY <2>1, <3>1, <3>2, <3>3 DEF q
      <3>4. CASE w # v
        BY <1>6, <2>1, <3>1, <3>4 DEF OwnWork
      <3> QED
        BY <3>3, <3>4
    <2>4. pinned[q] = None
      BY <1>5, <1>11, <1>15, <1>2
    <2>5. PinsDedicated'
      <3> SUFFICES ASSUME NEW r \in Request, pinned'[r] # None
                   PROVE  /\ Started(r)'
                          /\ phase'[r] = "live" /\ completedNodes'[r] # Node
                               => assigned'[r] = pinned'[r]
        BY DEF PinsDedicated
      <3>1. CASE r = q
        <4>1. pinned'[q] = v
          BY <1>2, <1>5, <1>8, <2>4, <3>1
        <4> QED
          BY <1>2, <1>3, <2>1, <3>1, <4>1 DEF Started
      <3>2. CASE r # q
        <4>1. pinned'[r] = pinned[r] /\ assigned'[r] = assigned[r]
          BY <1>5, <1>8, <2>1, <3>2
        <4> QED
          BY <1>3, <4>1 DEF PinsDedicated, Started
      <3> QED
        BY <3>1, <3>2
    <2> QED
      BY <2>2, <2>3, <2>5
  <1> QED
    BY <1>7, <1>9, <1>11, <1>14, <1>15

\* The last completion of a request frees its worker: nothing of it is there.
LEMMA CleanupDedicated ==
    ASSUME TypeOK, TypeOK', InPlace, GroupsNamed, StatusKept, DedicatedWorkers, PinsDedicated,
           Policy = "EXCLUSIVE", GatherTask
    PROVE  Owned' /\ OwnWork' /\ PinsDedicated'
  <1> DEFINE res == Head(results.rest)
             q == res.req
             n == res.node
             last == IsRequestComplete(q, n)
  <1>1. /\ q \in Request /\ n \in Node /\ phase' = phase /\ phase[q] = "live"
        /\ n \notin completedNodes[q] /\ completedNodes'[q] = completedNodes[q] \cup {n}
        /\ \A r \in Request \ {q} : completedNodes'[r] = completedNodes[r]
    BY HandledResult
  <1>2. IF last THEN CleanupRequest(q) ELSE UNCHANGED policyVars
    BY DEF GatherTask
  <1>3. last <=> completedNodes'[q] = Node
    BY <1>1 DEF IsRequestComplete
  <1>4. /\ taskGroup \in [Worker -> SUBSET Task]
        /\ owner \in [Worker -> Request \cup {None}]
        /\ assigned \in [Request -> Worker \cup {None}]
        /\ completedNodes \in [Request -> SUBSET Node]
    BY DEF TypeOK, PolicyTypeOK, CoordinatorTypeOK, RequestTypeOK
  <1>5. Owned /\ OwnWork
    BY DEF DedicatedWorkers, Owned, OwnWork
  <1>6. None \notin Request /\ None \notin Worker
    BY SchedulingAssumption
  <1>7. UNCHANGED <<taskGroup, pinned>>
    BY <1>2 DEF CleanupRequest, policyVars
  <1>8. TaskOf(res) = [req |-> q, node |-> n] /\ TaskOf(res) \in Tasks(Lists[Of("gather")])
    <2>1. TaskOf(res) \in ToSet(Mapped(TaskIn, results.rest))
      BY NextResult DEF GatherTask
    <2>2. Lists[Of("gather")] = << Mapped(TaskIn, results.rest) >>
      BY ListsAre DEF LaneContents
    <2>3. results.rest \in Seq(Response)
      BY HandledResult
    <2>4. Mapped(TaskIn, results.rest) \in Seq(Task)
      BY <2>3, CarryTypes
    <2>5. Tasks(Lists[Of("gather")]) = ToSet(Mapped(TaskIn, results.rest))
      BY <2>2, <2>4, OneList
    <2> QED
      BY <2>1, <2>5 DEF TaskOf
  <1> HIDE DEF res, q, n, last
  <1>9. CASE UNCHANGED <<owner, assigned>>
    <2>1. Owned' /\ OwnWork'
      BY <1>5, <1>7, <1>9 DEF Owned, OwnWork
    <2>2. PinsDedicated'
      <3> SUFFICES ASSUME NEW r \in Request, pinned'[r] # None
                   PROVE  /\ Started(r)'
                          /\ phase'[r] = "live" /\ completedNodes'[r] # Node
                               => assigned'[r] = pinned'[r]
        BY DEF PinsDedicated
      <3>1. CASE r = q
        <4>1. completedNodes[q] # Node
          BY <1>1
        <4> QED
          BY <1>1, <1>7, <1>9, <3>1, <4>1 DEF PinsDedicated, Started
      <3>2. CASE r # q
        BY <1>1, <1>7, <1>9, <3>2 DEF PinsDedicated, Started
      <3> QED
        BY <3>1, <3>2
    <2> QED
      BY <2>1, <2>2
  <1>10. CASE last /\ assigned[q] # None
    <2> DEFINE v == assigned[q]
    <2>1. v \in Worker /\ owner[v] = q
      BY <1>1, <1>4, <1>5, <1>10 DEF Owned
    <2>2. /\ owner' = [owner EXCEPT ![v] = None] /\ assigned' = [assigned EXCEPT ![q] = None]
      BY <1>2, <1>10 DEF CleanupRequest
    <2> HIDE DEF v
    <2>3. /\ assigned'[q] = None /\ \A r \in Request \ {q} : assigned'[r] = assigned[r]
          /\ owner'[v] = None /\ \A w \in Worker \ {v} : owner'[w] = owner[w]
      BY <1>1, <1>4, <2>1, <2>2
    <2>4. Owned'
      <3> SUFFICES ASSUME NEW r \in Request, NEW w \in Worker
                   PROVE  assigned'[r] = w <=> owner'[w] = r
        BY DEF Owned
      <3>1. assigned[r] = w <=> owner[w] = r
        BY <1>5 DEF Owned
      <3>2. CASE r = q
        <4>1. assigned'[r] = None
          BY <2>3, <3>2
        <4>2. owner'[w] # q
          <5>1. CASE w = v
            BY <1>1, <1>6, <2>3, <5>1
          <5>2. CASE w # v
            BY <2>3, <3>1, <3>2, <5>2 DEF v
          <5> QED
            BY <5>1, <5>2
        <4> QED
          BY <1>6, <3>2, <4>1, <4>2
      <3>3. CASE r # q
        <4>1. assigned'[r] = assigned[r]
          BY <2>3, <3>3
        <4>2. CASE w = v
          BY <1>6, <2>1, <2>3, <3>1, <3>3, <4>1, <4>2
        <4>3. CASE w # v
          BY <2>3, <3>1, <4>1, <4>3
        <4> QED
          BY <4>2, <4>3
      <3> QED
        BY <3>2, <3>3
    <2>5. taskGroup[v] = {}
      <3> SUFFICES ASSUME NEW id \in taskGroup[v] PROVE FALSE
        OBVIOUS
      <3>1. id \in Task /\ id.req = q
        BY <1>4, <1>5, <2>1 DEF OwnWork
      <3>2. id \in Outstanding(v)
        BY <2>1 DEF StatusKept
      <3>3. id \in Pending /\ id \notin Tasks(Lists[Of("gather")])
        BY <2>1, <3>2, OutstandingPending
      <3>4. id.node \in Node /\ id.node \notin completedNodes[q]
        BY <3>1, <3>3 DEF Pending, Task
      <3>5. id.node = n
        BY <1>1, <1>3, <1>10, <3>4
      <3>6. id = [req |-> q, node |-> n]
        BY <3>1, <3>5 DEF Task
      <3> QED
        BY <1>8, <3>3, <3>6
    <2>6. OwnWork'
      BY <1>5, <1>7, <2>3, <2>5 DEF OwnWork
    <2>7. PinsDedicated'
      <3> SUFFICES ASSUME NEW r \in Request, pinned'[r] # None
                   PROVE  /\ Started(r)'
                          /\ phase'[r] = "live" /\ completedNodes'[r] # Node
                               => assigned'[r] = pinned'[r]
        BY DEF PinsDedicated
      <3>1. CASE r = q
        <4>1. completedNodes'[q] = Node
          BY <1>3, <1>10
        <4> QED
          BY <1>1, <3>1, <4>1 DEF Started
      <3>2. CASE r # q
        BY <1>1, <1>7, <2>3, <3>2 DEF PinsDedicated, Started
      <3> QED
        BY <3>1, <3>2
    <2> QED
      BY <2>4, <2>6, <2>7
  <1> QED
    BY <1>2, <1>9, <1>10 DEF CleanupRequest, policyVars

LEMMA StepDedicated ==
    ASSUME TypeOK, TypeOK', CallsOnce, InPlace, GroupsNamed, StatusKept, DedicatedWorkers,
           PinsDedicated, Policy = "EXCLUSIVE", [Next]_vars
    PROVE  DedicatedWorkers' /\ PinsDedicated'
  <1>1. Owned /\ OwnWork
    BY DEF DedicatedWorkers, Owned, OwnWork
  <1>2. Owned' /\ OwnWork' /\ PinsDedicated'
    <2>1. CASE AssignGroup
      <3>1. AssignGroup /\ UNCHANGED workerVars
        <4>1. mode' = mode /\ ready' # ready
          <5>1. PICK c : ready' = Append(ready, c)
            BY <2>1 DEF AssignGroup
          <5>2. ready \in Seq(Callback) /\ ready' \in Seq(Callback)
            BY DEF TypeOK, CoordinatorTypeOK, LoopTypeOK
          <5>3. Len(ready') = Len(ready) + 1 /\ Len(ready) \in Nat
            BY <5>1, <5>2
          <5> QED
            BY <2>1, <5>3 DEF AssignGroup
        <4>2. ~UNCHANGED vars /\ ~WorkerNext
          BY <4>1 DEF vars, coordinatorVars, loopVars, WorkerNext, StartGroup, FetchLazy,
                      AcquireLazy, YieldOutput, CompleteGroup, coordinatorSide
        <4> QED
          BY <2>1, <4>2 DEF Next
      <3> QED
        BY <3>1, AssignDedicated
    <2>2. CASE GatherTask
      BY <2>2, CleanupDedicated
    <2>3. ASSUME ~GatherTask, NEW w \in Worker, GatherTaskComplete(w)
          PROVE  Owned' /\ OwnWork' /\ PinsDedicated'
      <3>1. PICK id : UpdateWorkerStatusAfterCompletion(w, id)
        BY <2>3 DEF GatherTaskComplete
      <3>2. taskGroup' = [taskGroup EXCEPT ![w] = @ \ {id}]
            /\ UNCHANGED <<owner, assigned, pinned>>
        BY <3>1 DEF UpdateWorkerStatusAfterCompletion
      <3>3. \A v \in Worker : taskGroup'[v] \subseteq taskGroup[v]
        BY <3>2 DEF TypeOK, PolicyTypeOK
      <3>4. PinsDedicated'
        BY <2>3, <3>2, PinsStay
      <3> QED
        BY <1>1, <3>2, <3>3, <3>4 DEF Owned, OwnWork
    <2>4. CASE ~GatherTask /\ UNCHANGED policyVars
      <3>1. UNCHANGED <<taskGroup, owner, assigned, pinned>>
        BY <2>4 DEF policyVars
      <3> QED
        BY <1>1, <2>4, <3>1, PinsStay DEF Owned, OwnWork
    <2> QED
      BY <2>1, <2>2, <2>3, <2>4, PolicyFootprint
  <1> QED
    BY <1>2 DEF DedicatedWorkers, Owned, OwnWork

LEMMA InitLoad == Init => LoadInv
  <1> SUFFICES ASSUME Init PROVE LoadInv
    OBVIOUS
  <1>1. TypeOK /\ TaskInv
    BY InitTasks DEF TaskInv
  <1>2. /\ ready = <<[cb |-> "scheduler"], [cb |-> "gather"]>>
        /\ \A w \in Worker : /\ taskQueue[w] = <<>> /\ resultQueue[w] = <<>>
                             /\ current[w].entries = <<>>
                             /\ taskGroup[w] = {} /\ estimated[w] = {} /\ owner[w] = None
        /\ \A r \in Request : assigned[r] = None /\ pinned[r] = None
    BY DEF Init, CoordinatorInit, WorkerInit, PolicyInit, Idle
  <1>3. \A c \in ToSet(ready) : c.cb # "dispatch"
    BY <1>2 DEF ToSet
  <1>4. ToSet(<<>>) = {}
    BY DEF ToSet
  <1>5. GroupsNamed
    BY <1>2, <1>3, <1>4 DEF GroupsNamed, Reports
  <1>6. ASSUME NEW w \in Worker
        PROVE  Outstanding(w) = {}
    <2>1. Dispatches(w) = {} /\ Reports(w) = {} /\ ToSet(taskQueue[w]) = {}
      BY <1>2, <1>3, <1>4 DEF Dispatches, Reports
    <2> QED
      BY <1>2, <2>1 DEF Outstanding, Sending, Queued, AtWork, Reporting
  <1>7. StatusKept
    BY <1>2, <1>6 DEF StatusKept
  <1>8. DedicatedWorkers /\ PinsDedicated
    <2>1. None \notin Request /\ None \notin Worker
      BY SchedulingAssumption
    <2> QED
      BY <1>2, <2>1 DEF DedicatedWorkers, PinsDedicated
  <1> QED
    BY <1>1, <1>5, <1>7, <1>8 DEF LoadInv

LEMMA StepLoad == LoadInv /\ [Next]_vars => LoadInv'
  <1> SUFFICES ASSUME LoadInv, [Next]_vars PROVE LoadInv'
    OBVIOUS
  <1>1. TypeOK /\ CallsOnce /\ InPlace /\ GroupsNamed /\ StatusKept
    BY DEF LoadInv, TaskInv
  <1>2. TaskInv' /\ TypeOK'
    BY StepTasks DEF LoadInv, TaskInv
  <1>3. GroupsNamed'
    BY <1>1, <1>2, StepNames
  <1>4. StatusKept'
    BY <1>1, <1>2, <1>3, StepStatus
  <1>5. ASSUME Policy = "EXCLUSIVE"
        PROVE  DedicatedWorkers' /\ PinsDedicated'
    BY <1>1, <1>2, <1>5, StepDedicated DEF LoadInv
  <1> QED
    BY <1>2, <1>3, <1>4, <1>5 DEF LoadInv

LEMMA LoadHolds == Spec => []LoadInv
  BY InitLoad, StepLoad, PTL DEF Spec

LEMMA LoadMatches == LoadInv => StatusMatchesWork
  BY OutstandingAre DEF LoadInv, TaskInv, StatusKept, StatusMatchesWork

LEMMA LoadDedicated == LoadInv => DedicatedWorkers
  BY DEF LoadInv, DedicatedWorkers

(***************************************************************************)
(* The load the coordinator keeps of a worker is what is outstanding       *)
(* there, so the removal of a completed group never raises and no worker   *)
(* stays unavailable for a group that is over.                             *)
(***************************************************************************)
THEOREM LoadIsOutstandingWork == Spec => []StatusMatchesWork
  BY LoadHolds, LoadMatches, PTL

(***************************************************************************)
(* EXCLUSIVE: the two maps between requests and workers agree, and a       *)
(* worker only has groups of its request; when it is given back, with the  *)
(* last completion of the request, it has none left.                       *)
(***************************************************************************)
THEOREM WorkersStayDedicated == Spec => []DedicatedWorkers
  BY LoadHolds, LoadDedicated, PTL
=============================================================================
