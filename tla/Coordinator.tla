---------------------------- MODULE Coordinator ----------------------------
(***************************************************************************)
(* The coordinator: one asyncio event loop that runs, one callback at a    *)
(* time, the start of requests, the scheduler loop, the gather loop, and   *)
(* the small tasks those create (put a ready task, dispatch a group,       *)
(* notify workers of a lazy input, release tensors, finish a request).     *)
(*                                                                         *)
(* ready is the loop's FIFO of callbacks; an iteration of the loop runs    *)
(* the todo callbacks that were in it when the iteration began, so what a  *)
(* callback creates runs in the next iteration, ahead of the timers that   *)
(* become due in between.  The scheduler and gather loops run without      *)
(* suspending until they have nothing to do and then sleep 10 us; mode     *)
(* says which of the two is in the middle of such a run.                   *)
(*                                                                         *)
(* task_queue and ready_tasks are one list here, readyTasks, kept in the   *)
(* order of the sort: the scheduler loop drains the queue into the list    *)
(* before it reads it, and nothing else reads either.                      *)
(***************************************************************************)
EXTENDS Scheduling

VARIABLES
    ready,           \* the event loop's queue of callbacks
    todo,            \* callbacks left in this iteration of the loop
    timers,          \* the loops asleep in asyncio.sleep
    mode,            \* "idle", "scheduling" or "gathering"
    phase,           \* [Request -> phase]: where execute_workflow stands
    arrival,         \* [Request -> Nat] request_arrival_times, as a rank
    readyTasks,      \* task_queue and ready_tasks
    group,           \* the group the scheduler loop is assembling
    batchSize,       \* and the batch size it may reach
    results,         \* [from, rest]: the part of a task_complete not handled
    scheduledNodes,  \* [Request -> SUBSET Node]
    completedNodes,  \* [Request -> SUBSET Node]
    tensorMap,       \* [Request -> [Tensor -> SUBSET Worker]]
    refCount,        \* [Request -> [Tensor -> Int]] tensor_reference_count
    freeDict,        \* [Worker -> SUBSET Buffer] free_tensor_dict
    lazyDependents,  \* [Request -> [Tensor -> SUBSET (Node \X Worker)]]
    taskQueue,       \* [Worker -> Seq(message)] task groups sent to a worker
    lazyQueue,       \* [Worker -> set of lazy_arrival messages in flight]
    resultQueue      \* [Worker -> Seq(message)] the worker's result socket

loopVars == <<ready, todo, timers, mode>>
scheduleVars == <<readyTasks, group, batchSize>>
requestVars == <<phase, arrival, scheduledNodes, completedNodes>>
tensorVars == <<tensorMap, refCount, freeDict, lazyDependents>>
channelVars == <<taskQueue, lazyQueue, resultQueue>>
coordinatorVars ==
    <<loopVars, scheduleVars, requestVars, results, tensorVars, channelVars,
      policyVars>>

-----------------------------------------------------------------------------
\* A tensor of a request: the key of the tensor maps and free lists.
Buffer == [req : Request, tensor : Tensor]

Callback ==
    [cb : {"scheduler", "gather"}]
        \cup [cb : {"start", "wake"}, req : Request]
        \cup [cb : {"put", "free"}, task : Task]
        \cup [cb : {"notify"}, req : Request, tensors : SUBSET Tensor,
              src : Worker]
        \cup [cb : {"dispatch"}, group : Seq(Task), dst : Worker]

\* One task of a "task" message: where each eager input is (JSON of
\* node_input_locations), and the lazy inputs not yet available.
Entry == [req : Request, node : Node,
          at : [Tensor -> SUBSET Worker], lazy : SUBSET Tensor]

TaskMessage == [entries : Seq(Entry), free : SUBSET Buffer]

LazyArrival == [req : Request, tensor : Tensor, src : Worker, node : Node]

Response == [req : Request, node : Node, tensors : SUBSET Tensor]

ResultMessage ==
    [type : {"tensor_batch_ready"}, buffers : SUBSET Buffer]
        \cup [type : {"task_complete"}, data : Seq(Response)]

Loops == {"scheduler", "gather"}

NoTensors == [t \in Tensor |-> {}]

LoopTypeOK ==
    /\ ready \in Seq(Callback) /\ todo \in 0 .. Len(ready)
    /\ timers \in SUBSET Loops
    /\ mode \in {"idle", "scheduling", "gathering"}

RequestTypeOK ==
    /\ phase \in [Request -> {"new", "starting", "live", "done"}]
    /\ arrival \in [Request -> Nat]
    /\ scheduledNodes \in [Request -> SUBSET Node]
    /\ completedNodes \in [Request -> SUBSET Node]

ScheduleTypeOK ==
    readyTasks \in Seq(Task) /\ group \in Seq(Task) /\ batchSize \in Nat

ResultsTypeOK == results \in [from : Worker, rest : Seq(Response)]

TensorTypeOK ==
    /\ tensorMap \in [Request -> [Tensor -> SUBSET Worker]]
    /\ refCount \in [Request -> [Tensor -> Int]]
    /\ freeDict \in [Worker -> SUBSET Buffer]
    /\ lazyDependents \in [Request -> [Tensor -> SUBSET (Node \X Worker)]]

ChannelTypeOK ==
    /\ taskQueue \in [Worker -> Seq(TaskMessage)]
    /\ lazyQueue \in [Worker -> SUBSET LazyArrival]
    /\ resultQueue \in [Worker -> Seq(ResultMessage)]

CoordinatorTypeOK ==
    LoopTypeOK /\ RequestTypeOK /\ ScheduleTypeOK /\ ResultsTypeOK
        /\ TensorTypeOK /\ ChannelTypeOK

CoordinatorInit ==
    /\ PolicyInit
    /\ ready = <<[cb |-> "scheduler"], [cb |-> "gather"]>>  \* run_scheduler
    /\ todo = 0 /\ timers = {} /\ mode = "idle"
    /\ phase = [r \in Request |-> "new"]
    /\ arrival = [r \in Request |-> 0]
    /\ readyTasks = <<>> /\ group = <<>> /\ batchSize = 0
    /\ results = [from |-> CHOOSE w \in Worker : TRUE, rest |-> <<>>]
    /\ scheduledNodes = [r \in Request |-> {}]
    /\ completedNodes = [r \in Request |-> {}]
    /\ tensorMap = [r \in Request |-> NoTensors]
    /\ refCount = [r \in Request |-> [t \in Tensor |-> 0]]
    /\ freeDict = [w \in Worker |-> {}]
    /\ lazyDependents = [r \in Request |-> NoTensors]
    /\ taskQueue = [w \in Worker |-> <<>>]
    /\ lazyQueue = [w \in Worker |-> {}]
    /\ resultQueue = [w \in Worker |-> <<>>]

-----------------------------------------------------------------------------
(* The event loop *)

\* The callback kind cb is the next to run.
Runs(cb) == mode = "idle" /\ todo > 0 /\ Head(ready).cb = cb

\* It has run, and created the callbacks of created.
Ran(created) ==
    /\ ready' = Tail(ready) \o created
    /\ todo' = todo - 1

(***************************************************************************)
(* One turn of asyncio's _run_once: completed I/O first (the HTTP handler  *)
(* of a new request, which awaits execute_workflow), then the timers that  *)
(* are due, in any order; what is then in the queue runs in this turn.     *)
(***************************************************************************)
LoopIteration(requests, due) ==
    /\ mode = "idle" /\ todo = 0
    /\ ToSet(due) \subseteq timers
    /\ \A r \in requests : phase[r] = "new"
    /\ \E order \in SetToSeqs(requests) :
         ready' = ready \o
             ([i \in DOMAIN order |-> [cb |-> "start", req |-> order[i]]]
              \o [i \in DOMAIN due |-> [cb |-> due[i]]])
    /\ ready' # <<>>
    /\ todo' = Len(ready')
    /\ timers' = timers \ ToSet(due)
    /\ phase' = [r \in Request |-> IF r \in requests THEN "starting" ELSE phase[r]]
    /\ UNCHANGED <<mode, arrival, scheduledNodes, completedNodes, scheduleVars,
                   results, tensorVars, channelVars, policyVars>>

DueTimers == UNION { SetToSeqs(S) : S \in SUBSET Loops }

-----------------------------------------------------------------------------
(* Requests *)

\* Mutant: the deeper node first, whenever its request arrived.
NotAfter_ByDepth(t1, t2) == Depth[t1.node] >= Depth[t2.node]

\* The order of ready_tasks.sort: by arrival, then the deeper node first.
NotAfter(t1, t2) ==
    \/ arrival[t1.req] < arrival[t2.req]
    \/ /\ arrival[t1.req] = arrival[t2.req]
       /\ Depth[t1.node] >= Depth[t2.node]

\* The list with task added: the sort is stable, so behind its equals.
Enqueued(task) ==
    InsertAt(readyTasks,
             1 + Cardinality({ i \in DOMAIN readyTasks : NotAfter(readyTasks[i], task) }),
             task)

Roots == { n \in Node : NonLazyPrerequisites(n) = {} }

(***************************************************************************)
(* execute_workflow up to its wait: build the graph and put every task     *)
(* without prerequisites.  The request is the last to have arrived, so its *)
(* tasks sort behind all others.                                           *)
(***************************************************************************)
StartRequest ==
    /\ Runs("start") /\ Ran(<<>>)
    /\ LET r == Head(ready).req
       IN  /\ phase' = [phase EXCEPT ![r] = "live"]
           /\ arrival' = [arrival EXCEPT ![r] =
                1 + Cardinality({ q \in Request : phase[q] \in {"live", "done"} })]
           /\ refCount' = [refCount EXCEPT ![r] =
                [t \in Tensor |-> Cardinality(Consumers(t))]]
           /\ scheduledNodes' = [scheduledNodes EXCEPT ![r] = Roots]
           /\ \E order \in SetToSeqs(Roots) :
                /\ \A i, j \in DOMAIN order : i < j => Depth[order[i]] >= Depth[order[j]]
                /\ readyTasks' = readyTasks \o
                     [i \in DOMAIN order |-> [req |-> r, node |-> order[i]]]
    /\ UNCHANGED <<timers, mode, completedNodes, group, batchSize, results,
                   tensorMap, freeDict, lazyDependents, channelVars, policyVars>>

\* task_queue.put of a task that became ready.
PutTask ==
    /\ Runs("put") /\ Ran(<<>>)
    /\ readyTasks' = Enqueued(Head(ready).task)
    /\ UNCHANGED <<timers, mode, requestVars, group, batchSize, results,
                   tensorVars, channelVars, policyVars>>

\* execute_workflow after its wait: return the results and clean up.
FinishRequest ==
    /\ Runs("wake") /\ Ran(<<>>)
    /\ LET r == Head(ready).req
       IN  /\ phase' = [phase EXCEPT ![r] = "done"]
           /\ arrival' = [arrival EXCEPT ![r] = 0]
           /\ scheduledNodes' = [scheduledNodes EXCEPT ![r] = {}]
           /\ completedNodes' = [completedNodes EXCEPT ![r] = {}]
           /\ refCount' = [refCount EXCEPT ![r] = [t \in Tensor |-> 0]]
           /\ lazyDependents' = [lazyDependents EXCEPT ![r] = NoTensors]
           /\ tensorMap' = [tensorMap EXCEPT ![r] = NoTensors]
    /\ UNCHANGED <<timers, mode, scheduleVars, results, freeDict,
                   channelVars, policyVars>>

-----------------------------------------------------------------------------
(* Tensors *)

Available(r, t) == tensorMap[r][t] # {}

\* Mutant: every lazy input is waited for, the available ones too.
LazyAvailable_Ignored(task) == {}

\* The lazy inputs that need not be waited for.
LazyAvailable(task) ==
    { t \in LazyInputs[task.node] : Available(task.req, t) }

LazyMissing(task) == LazyInputs[task.node] \ LazyAvailable(task)

\* One element of the message's data: the locations are those of the moment
\* the message is serialised, since _prepare_task_inputs aliased tensor_map.
EntryFor(task) ==
    [req |-> task.req, node |-> task.node,
     at |-> [t \in Tensor |->
               IF t \in EagerInputs(task.node) \cup LazyAvailable(task)
               THEN tensorMap[task.req][t] ELSE {}],
     lazy |-> LazyMissing(task)]

(***************************************************************************)
(* _schedule_task_group: take the tensors to free on the worker, resolve   *)
(* or register each lazy input, and send the group.                        *)
(***************************************************************************)
ScheduleTaskGroup ==
    /\ Runs("dispatch") /\ Ran(<<>>)
    /\ LET g == Head(ready).group
           w == Head(ready).dst
       IN  /\ taskQueue' = [taskQueue EXCEPT ![w] = Append(@,
                [entries |-> [i \in DOMAIN g |-> EntryFor(g[i])],
                 free |-> freeDict[w]])]
           /\ freeDict' = [freeDict EXCEPT ![w] = {}]
           /\ lazyDependents' = [r \in Request |-> [t \in Tensor |->
                lazyDependents[r][t] \cup
                  { <<g[i].node, w>> : i \in { j \in DOMAIN g :
                       g[j].req = r /\ t \in LazyMissing(g[j]) } }]]
    /\ UNCHANGED <<timers, mode, requestVars, scheduleVars, results, tensorMap,
                   refCount, lazyQueue, resultQueue, policyVars>>

\* The dependents of the tensors in new are forgotten once notified.
DependentsAfter(r, new) ==
    [t \in Tensor |-> IF t \in new THEN {} ELSE lazyDependents[r][t]]

(***************************************************************************)
(* _notify_lazy_input_available, for the tensors of one result: a          *)
(* lazy_arrival to the worker of every registered dependent, which is then *)
(* forgotten.                                                              *)
(***************************************************************************)
NotifyLazyInputAvailable ==
    /\ Runs("notify") /\ Ran(<<>>)
    /\ LET r == Head(ready).req
           new == Head(ready).tensors
       IN  /\ lazyQueue' = [w \in Worker |-> lazyQueue[w] \cup
                UNION { { [req |-> r, tensor |-> t, src |-> Head(ready).src,
                           node |-> d[1]] :
                          d \in { e \in lazyDependents[r][t] : e[2] = w } } :
                        t \in new }]
           /\ lazyDependents' = [lazyDependents EXCEPT ![r] = DependentsAfter(r, new)]
    /\ UNCHANGED <<timers, mode, requestVars, scheduleVars, results, tensorMap,
                   refCount, freeDict, taskQueue, resultQueue, policyVars>>

\* Mutant: freed by the first consumer to complete.
Exhausted_Always(r, n) == Inputs[n]

\* Mutant: what anybody is the last to need is freed.
Exhausted_AnyTensor(r, n) == { t \in Tensor : refCount[r][t] = 1 }

\* The inputs of n that nobody else needs any more.
Exhausted(r, n) == { t \in Inputs[n] : refCount[r][t] = 1 }

(***************************************************************************)
(* _update_free_tensor_dict: a completed node gives up its inputs; a       *)
(* tensor nobody needs any more is to be freed on every worker with a      *)
(* copy, by the next group sent there.                                     *)
(***************************************************************************)
UpdateFreeTensorDict ==
    /\ Runs("free") /\ Ran(<<>>)
    /\ LET r == Head(ready).task.req
           n == Head(ready).task.node
       IN  /\ refCount' = [refCount EXCEPT ![r] =
                [t \in Tensor |-> IF t \in Inputs[n] THEN @[t] - 1 ELSE @[t]]]
           /\ freeDict' = [w \in Worker |-> freeDict[w] \cup
                { [req |-> r, tensor |-> t] :
                    t \in { u \in Exhausted(r, n) : w \in tensorMap[r][u] } }]
    /\ UNCHANGED <<timers, mode, requestVars, scheduleVars, results, tensorMap,
                   lazyDependents, channelVars, policyVars>>

-----------------------------------------------------------------------------
(* The scheduler loop, _process_task_queue_loop *)

SchedulerWake ==
    /\ Runs("scheduler") /\ Ran(<<>>)
    /\ mode' = "scheduling"
    /\ UNCHANGED <<timers, requestVars, scheduleVars, results, tensorVars,
                   channelVars, policyVars>>

CanSchedule == readyTasks # <<>> /\ CheckWorkerAvailability(Head(readyTasks))

\* select_tasks_for_grouping takes the first ready task ...
PickFirstTask ==
    /\ mode = "scheduling" /\ group = <<>> /\ CanSchedule /\ ~GroupingRaises
    /\ group' = <<Head(readyTasks)>>
    /\ readyTasks' = Tail(readyTasks)
    /\ batchSize' = BatchSize(Head(readyTasks), Tail(readyTasks))
    /\ UNCHANGED <<loopVars, requestVars, results, tensorVars, channelVars,
                   policyVars>>

Joins(i) == CanGroup(group[1], readyTasks[i])

GroupComplete == Len(group) >= batchSize \/ \A i \in DOMAIN readyTasks : ~Joins(i)

\* Mutant: a task joins the group and stays in the list.
JoinGroup_KeepsTask ==
    /\ mode = "scheduling" /\ group # <<>> /\ ~GroupComplete
    /\ \E i \in DOMAIN readyTasks :
         Joins(i) /\ group' = Append(group, readyTasks[i])
    /\ UNCHANGED <<loopVars, requestVars, readyTasks, batchSize, results,
                   tensorVars, channelVars, policyVars>>

\* ... and then each task behind it that can join, while the batch has room.
JoinGroup ==
    /\ mode = "scheduling" /\ group # <<>> /\ ~GroupComplete
    /\ \E i \in DOMAIN readyTasks :
         /\ Joins(i) /\ \A j \in 1 .. (i - 1) : ~Joins(j)
         /\ group' = Append(group, readyTasks[i])
         /\ readyTasks' = RemoveAt(readyTasks, i)
    /\ UNCHANGED <<loopVars, requestVars, batchSize, results, tensorVars,
                   channelVars, policyVars>>

AssignGroup ==
    /\ mode = "scheduling" /\ group # <<>> /\ GroupComplete
    /\ \E w \in Worker :
         /\ SelectWorkerForTaskGroup(group[1], w)
         /\ ready' = Append(ready, [cb |-> "dispatch", group |-> group, dst |-> w])
    /\ group' = <<>> /\ batchSize' = 0
    /\ UNCHANGED <<todo, timers, mode, requestVars, readyTasks, results,
                   tensorVars, channelVars>>

\* An exception of select_tasks_for_grouping ends the loop's task for good.
SchedulerSleep ==
    /\ mode = "scheduling" /\ group = <<>> /\ (CanSchedule => GroupingRaises)
    /\ mode' = "idle"
    /\ timers' = IF CanSchedule THEN timers ELSE timers \cup {"scheduler"}
    /\ UNCHANGED <<ready, todo, requestVars, scheduleVars, results, tensorVars,
                   channelVars, policyVars>>

-----------------------------------------------------------------------------
(* The gather loop, _gather_result_loop *)

GatherWake ==
    /\ Runs("gather") /\ Ran(<<>>)
    /\ mode' = "gathering"
    /\ UNCHANGED <<timers, requestVars, scheduleVars, results, tensorVars,
                   channelVars, policyVars>>

Gathers(w, type) ==
    /\ mode = "gathering" /\ results.rest = <<>>
    /\ resultQueue[w] # <<>> /\ Head(resultQueue[w]).type = type
    /\ resultQueue' = [resultQueue EXCEPT ![w] = Tail(@)]

\* tensor_batch_ready: early outputs of a generator, of one or more requests.
GatherTensorBatch(w) ==
    /\ Gathers(w, "tensor_batch_ready")
    /\ LET buffers == Head(resultQueue[w]).buffers
           Of(r) == { b.tensor : b \in { c \in buffers : c.req = r } }
       IN  /\ tensorMap' = [r \in Request |-> [t \in Tensor |->
                IF t \in Of(r) THEN tensorMap[r][t] \cup {w} ELSE tensorMap[r][t]]]
           /\ \E order \in SetToSeqs({ b.req : b \in buffers }) :
                ready' = ready \o [i \in DOMAIN order |->
                    [cb |-> "notify", req |-> order[i], tensors |-> Of(order[i]),
                     src |-> w]]
    /\ UNCHANGED <<todo, timers, mode, requestVars, scheduleVars, results,
                   refCount, freeDict, lazyDependents, taskQueue, lazyQueue,
                   policyVars>>

\* task_complete: the worker's status first ...
GatherTaskComplete(w) ==
    /\ Gathers(w, "task_complete")
    /\ LET data == Head(resultQueue[w]).data
       IN  /\ UpdateWorkerStatusAfterCompletion(w,
                [req |-> data[1].req, node |-> data[1].node])
           /\ results' = [from |-> w, rest |-> data]
    /\ UNCHANGED <<loopVars, requestVars, scheduleVars, tensorVars, taskQueue,
                   lazyQueue>>

\* Mutant: ready after any prerequisite.
NewlyReady_AnyPrerequisite(r, n) == Successors(n) \ scheduledNodes[r]

\* _is_task_ready and not scheduled yet, once n has completed.
NewlyReady(r, n) ==
    { m \in Successors(n) : /\ NonLazyPrerequisites(m) \subseteq completedNodes[r] \cup {n}
                            /\ m \notin scheduledNodes[r] }

\* Mutant: complete when all its nodes have been scheduled.
IsRequestComplete_Scheduled(r, n) == scheduledNodes[r] \cup NewlyReady(r, n) = Node

\* _is_request_complete, n being the node that has just completed.
IsRequestComplete(r, n) == completedNodes[r] \cup {n} = Node

(***************************************************************************)
(* ... then each task of the group: record its tensors, mark the node      *)
(* completed and put the successors that became ready, release its inputs, *)
(* and wake the request when it was the last node.  The puts come in the   *)
(* iteration order of a set of strings, hence any order.                   *)
(***************************************************************************)
GatherTask ==
    /\ mode = "gathering" /\ results.rest # <<>>
    /\ LET res == Head(results.rest)
           r == res.req
           n == res.node
           last == IsRequestComplete(r, n)
           new == NewlyReady(r, n)
       IN  /\ tensorMap' = [tensorMap EXCEPT ![r] =
                [t \in Tensor |-> IF t \in res.tensors THEN @[t] \cup {results.from}
                                                       ELSE @[t]]]
           /\ completedNodes' = [completedNodes EXCEPT ![r] = @ \cup {n}]
           /\ scheduledNodes' = [scheduledNodes EXCEPT ![r] = @ \cup new]
           /\ \E order \in SetToSeqs(new) :
                ready' = ready \o
                    (<<[cb |-> "notify", req |-> r, tensors |-> res.tensors,
                        src |-> results.from]>>
                     \o [i \in DOMAIN order |->
                           [cb |-> "put", task |-> [req |-> r, node |-> order[i]]]]
                     \o <<[cb |-> "free", task |-> [req |-> r, node |-> n]]>>
                     \o (IF last THEN <<[cb |-> "wake", req |-> r]>> ELSE <<>>))
           /\ IF last THEN CleanupRequest(r) ELSE UNCHANGED policyVars
    /\ results' = [results EXCEPT !.rest = Tail(@)]
    /\ UNCHANGED <<todo, timers, mode, phase, arrival, scheduleVars, refCount,
                   freeDict, lazyDependents, channelVars>>

\* poll found nothing: the queues are empty or what is in them is in flight.
GatherSleep ==
    /\ mode = "gathering" /\ results.rest = <<>>
    /\ mode' = "idle" /\ timers' = timers \cup {"gather"}
    /\ UNCHANGED <<ready, todo, requestVars, scheduleVars, results, tensorVars,
                   channelVars, policyVars>>

RunCallback ==
    \/ StartRequest \/ PutTask \/ FinishRequest
    \/ ScheduleTaskGroup \/ NotifyLazyInputAvailable \/ UpdateFreeTensorDict
    \/ SchedulerWake \/ GatherWake

SchedulerStep == PickFirstTask \/ JoinGroup \/ AssignGroup \/ SchedulerSleep

CoordinatorNext ==
    \/ \E requests \in SUBSET Request, due \in DueTimers : LoopIteration(requests, due)
    \/ RunCallback
    \/ SchedulerStep
    \/ \E w \in Worker : GatherTensorBatch(w) \/ GatherTaskComplete(w)
    \/ GatherTask \/ GatherSleep
=============================================================================
