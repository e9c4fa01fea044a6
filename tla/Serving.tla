------------------------------ MODULE Serving ------------------------------
(***************************************************************************)
(* The serving system: the coordinator and its workers, concurrently.      *)
(***************************************************************************)
EXTENDS DiffusionWorker

vars == <<coordinatorVars, workerVars>>

Init == CoordinatorInit /\ WorkerInit

Next ==
    \/ CoordinatorNext /\ UNCHANGED workerVars
    \/ WorkerNext

Spec == Init /\ [][Next]_vars

TypeOK == PolicyTypeOK /\ CoordinatorTypeOK /\ WorkerTypeOK

-----------------------------------------------------------------------------
(* Where a task is, from the moment it is scheduled to its completion *)

TaskOf(x) == [req |-> x.req, node |-> x.node]

\* Every place a scheduled task can be, tagged so that no two coincide.
Occurrences ==
    LET Callbacks(kind) == { i \in DOMAIN ready : ready[i].cb = kind }
    IN  { <<"put", i, ready[i].task>> : i \in Callbacks("put") }
        \cup { <<"ready", i, readyTasks[i]>> : i \in DOMAIN readyTasks }
        \cup { <<"group", i, group[i]>> : i \in DOMAIN group }
        \cup (UNION { { <<"dispatch", i, j, ready[i].group[j]>> :
                          j \in DOMAIN ready[i].group } : i \in Callbacks("dispatch") })
        \cup { <<"gathering", i, TaskOf(results.rest[i])>> : i \in DOMAIN results.rest }
        \cup (UNION { UNION {
                { <<"queued", w, i, j, TaskOf(taskQueue[w][i].entries[j])>> :
                    j \in DOMAIN taskQueue[w][i].entries } :
                i \in DOMAIN taskQueue[w] } : w \in Worker })
        \cup (UNION { { <<"running", w, j, TaskOf(current[w].entries[j])>> :
                          j \in DOMAIN current[w].entries } : w \in Worker })
        \cup (UNION { UNION {
                { <<"reported", w, i, j, TaskOf(resultQueue[w][i].data[j])>> :
                    j \in DOMAIN resultQueue[w][i].data } :
                i \in { k \in DOMAIN resultQueue[w] :
                          resultQueue[w][k].type = "task_complete" } } : w \in Worker })

(***************************************************************************)
(* No task is lost and none runs twice: a scheduled and not yet completed  *)
(* task of a live request is in exactly one place, and no other task is    *)
(* anywhere.  A task in no place hangs its request; one in two places      *)
(* completes twice, and the second completion raises in the gather loop.   *)
(***************************************************************************)
EveryTaskInOnePlace ==
    LET occ == Occurrences
    IN  \A r \in Request, n \in Node :
          Cardinality({ o \in occ : o[Len(o)] = [req |-> r, node |-> n] })
            = IF phase[r] = "live" /\ n \in scheduledNodes[r] \ completedNodes[r]
              THEN 1 ELSE 0

(***************************************************************************)
(* A node is scheduled only when its non-lazy prerequisites are completed, *)
(* and the tensors of a completed node, and its lazy inputs, are known.    *)
(* "Task in queue but missing input" is what the code logs otherwise.      *)
(***************************************************************************)
ScheduledNodesHaveInputs ==
    \A r \in Request : phase[r] = "live" =>
        \A n \in Node :
            /\ n \in scheduledNodes[r] =>
                 \A t \in EagerInputs(n) : Available(r, t)
            /\ n \in completedNodes[r] =>
                 \A t \in Inputs[n] \cup Outputs(n) : Available(r, t)

(***************************************************************************)
(* No dangling location: each copy a queued task may read is still held by *)
(* the worker named and nothing is on its way to free it, although frees   *)
(* travel with other groups and are applied at other times than the reads. *)
(***************************************************************************)
QueuedLocationsHeld ==
    \A w \in Worker : \A i \in DOMAIN taskQueue[w] :
        \A j \in DOMAIN taskQueue[w][i].entries :
            LET e == taskQueue[w][i].entries[j]
            IN  \A t \in Tensor : \A v \in e.at[t] :
                    LET b == [req |-> e.req, tensor |-> t]
                    IN  /\ b \in store[v] /\ b \notin freeDict[v]
                        /\ \A k \in DOMAIN taskQueue[v] : b \notin taskQueue[v][k].free

(***************************************************************************)
(* The copy announced to a lazy waiter is still held by the worker named,  *)
(* for as long as the waiter has not completed.  After that nobody takes   *)
(* what the message brings, and its source may be freed before the fetch.  *)
(***************************************************************************)
ArrivingTensorsHeld ==
    \A w \in Worker : \A m \in lazyQueue[w] :
        phase[m.req] = "live" /\ m.node \notin completedNodes[m.req] =>
            [req |-> m.req, tensor |-> m.tensor] \in store[m.src]

(***************************************************************************)
(* The reference count of a tensor is the number of its consumers that     *)
(* have not given it up yet, so it reaches zero with the last of them.     *)
(***************************************************************************)
RefCountsConsumers ==
    \A r \in Request : phase[r] = "live" =>
        \A t \in Tensor :
            refCount[r][t] = Cardinality({ n \in Consumers(t) :
                \/ n \notin completedNodes[r]
                \/ \E i \in DOMAIN ready :
                     ready[i] = [cb |-> "free", task |-> [req |-> r, node |-> n]] })

\* The groups assigned to w whose completion the coordinator has not seen.
OutstandingGroups(w) ==
    { ready[i].group[1] : i \in { k \in DOMAIN ready :
                            ready[k].cb = "dispatch" /\ ready[k].dst = w } }
    \cup { TaskOf(taskQueue[w][i].entries[1]) : i \in DOMAIN taskQueue[w] }
    \cup (IF current[w].entries = <<>> THEN {} ELSE { TaskOf(current[w].entries[1]) })
    \cup { TaskOf(resultQueue[w][i].data[1]) : i \in { k \in DOMAIN resultQueue[w] :
                            resultQueue[w][k].type = "task_complete" } }

(***************************************************************************)
(* The load the coordinator keeps of a worker is the work really           *)
(* outstanding there: task_group.remove never raises, and no finished      *)
(* group keeps a worker unavailable.                                       *)
(***************************************************************************)
StatusMatchesWork ==
    \A w \in Worker :
        /\ taskGroup[w] = OutstandingGroups(w)
        /\ estimated[w] \subseteq taskGroup[w]

(***************************************************************************)
(* A result never concerns a request that is gone: the gather loop would   *)
(* raise on a completion and leak a tensor_map entry on a notification.    *)
(***************************************************************************)
ResultsOfLiveRequests ==
    /\ \A w \in Worker : \A i \in DOMAIN resultQueue[w] :
         LET m == resultQueue[w][i]
         IN  \A r \in IF m.type = "task_complete"
                      THEN { m.data[j].req : j \in DOMAIN m.data }
                      ELSE { b.req : b \in m.buffers } : phase[r] = "live"
    /\ \A i \in DOMAIN ready :
         ready[i].cb = "free" => phase[ready[i].task.req] = "live"

(***************************************************************************)
(* No lost lazy arrival: a lazy input a queued or running task still lacks *)
(* is registered for it, on its way, or there; and once the tensor is      *)
(* known, a registered waiter has a notification pending.                  *)
(***************************************************************************)
Waits(w) ==
    (UNION { UNION { { <<taskQueue[w][i].entries[j], t>> :
                         t \in taskQueue[w][i].entries[j].lazy } :
                     j \in DOMAIN taskQueue[w][i].entries } :
             i \in DOMAIN taskQueue[w] })
    \cup UNION { { <<current[w].entries[j], b.tensor>> :
                     b \in { c \in current[w].lazy : c.req = current[w].entries[j].req
                               /\ c.tensor \in current[w].entries[j].lazy } } :
                 j \in DOMAIN current[w].entries }

NoLostLazyArrival ==
    /\ \A w \in Worker : \A x \in Waits(w) :
         LET b == [req |-> x[1].req, tensor |-> x[2]]
         IN  \/ <<x[1].node, w>> \in lazyDependents[b.req][b.tensor]
             \/ \E m \in lazyQueue[w] : m.req = b.req /\ m.tensor = b.tensor
             \/ b \in received[w] \cup store[w]
    /\ \A r \in Request, t \in Tensor :
         lazyDependents[r][t] # {} /\ Available(r, t) =>
            \E i \in DOMAIN ready : /\ ready[i].cb = "notify" /\ ready[i].req = r
                                    /\ t \in ready[i].tensors

(***************************************************************************)
(* All steps of a request's denoise scheduler run on one worker: its state *)
(* is worker-local (request_schedulers).                                   *)
(***************************************************************************)
SchedulerAffinity ==
    \A v, w \in Worker : v # w => requestSchedulers[v] \cap requestSchedulers[w] = {}

\* Where a scheduler step may be: with the worker its request is pinned to.
MayBeAt(task, w) == task.node \in SchedulerOp => pinned[task.req] = w

PlacedCallback ==
    { c \in Callback : c.cb = "dispatch" =>
        \A i \in DOMAIN c.group : MayBeAt(c.group[i], c.dst) }

PlacedMessage(w) ==
    { m \in TaskMessage : \A i \in DOMAIN m.entries : MayBeAt(m.entries[i], w) }

(***************************************************************************)
(* Why: a scheduler step is alone in the group the worker is chosen for,   *)
(* and from there to its execution it is with the worker of its request.   *)
(***************************************************************************)
StepsAlone ==
    \A i \in DOMAIN group :
        group[i].node \in SchedulerOp => batchSize = 1 /\ Len(group) = 1

StepsPlaced ==
    /\ ready \in Seq(PlacedCallback)
    /\ \A w \in Worker : taskQueue[w] \in Seq(PlacedMessage(w))
    /\ \A w \in Worker : \A r \in requestSchedulers[w] : pinned[r] = w

AffinityInv == TypeOK /\ StepsAlone /\ StepsPlaced

(***************************************************************************)
(* EXCLUSIVE: a worker only ever holds work of the request it is dedicated *)
(* to, and a request's worker is its own.                                  *)
(***************************************************************************)
DedicatedWorkers ==
    Policy = "EXCLUSIVE" =>
        /\ \A r \in Request, w \in Worker : assigned[r] = w <=> owner[w] = r
        /\ \A w \in Worker : \A id \in taskGroup[w] : owner[w] = id.req

(***************************************************************************)
(* A tensor in a worker's tensor map or received list has memory of its    *)
(* own in the arena: frees and early arrivals never leave an entry behind  *)
(* that points to a released buffer.                                       *)
(***************************************************************************)
Holdings(w, b) ==
    (IF b \in store[w] THEN 1 ELSE 0) + (IF b \in received[w] THEN 1 ELSE 0)

NoDanglingTensor ==
    \A w \in Worker, b \in Buffer : Holdings(w, b) <= arena[w][b]

\* Nothing runs, waits or is in flight, and no request is being served.
Quiet ==
    /\ \A r \in Request : phase[r] \in {"new", "done"}
    /\ \A i \in DOMAIN ready : ready[i].cb \in Loops
    /\ results.rest = <<>>
    /\ \A w \in Worker : /\ taskQueue[w] = <<>> /\ resultQueue[w] = <<>>
                         /\ lazyQueue[w] = {} /\ current[w] = Idle

(***************************************************************************)
(* Once the requests are served, every copy of a tensor that some node     *)
(* consumed has been freed or is listed to be freed, exactly once.         *)
(***************************************************************************)
CopiesReleased ==
    Quiet => \A w \in Worker, b \in Buffer :
        Consumers(b.tensor) # {} =>
            arena[w][b] = IF b \in freeDict[w] THEN 1 ELSE 0

(***************************************************************************)
(* The system implements execute_workflow's promise.                       *)
(***************************************************************************)
Service ==
    INSTANCE WorkflowService WITH
        status <- phase,
        done <- completedNodes,
        known <- [r \in Request |-> { t \in Tensor : Available(r, t) }]

ImplementsService == Service!ServiceSpec

-----------------------------------------------------------------------------
(* Progress *)

Coordinates(A) == A /\ UNCHANGED workerVars

(***************************************************************************)
(* The event loop runs its callbacks and takes the timers that are due; a  *)
(* loop run proceeds; a result that was sent is polled some day; a worker  *)
(* thread that can proceed does.  The deadlines are those of asyncio and   *)
(* the sockets: timers are served at the first turn after 10 us, and a     *)
(* message in a result queue may be in flight while the gather loop polls  *)
(* (hence strong fairness for both).                                       *)
(***************************************************************************)
Turn(loop) ==
    \E requests \in SUBSET Request, due \in DueTimers :
        loop \in ToSet(due) /\ LoopIteration(requests, due)

Fairness ==
    /\ WF_vars(Coordinates(\E due \in DueTimers : LoopIteration({}, due)))
    /\ \A loop \in Loops : SF_vars(Coordinates(Turn(loop)))
    /\ WF_vars(Coordinates(RunCallback \/ SchedulerStep \/ GatherTask \/ GatherSleep))
    /\ \A w \in Worker :
         /\ SF_vars(Coordinates(GatherTensorBatch(w) \/ GatherTaskComplete(w)))
         /\ WF_vars(FetchLazy(w))
         /\ WF_vars(StartGroup(w) \/ AcquireLazy(w) \/ YieldOutput(w) \/ CompleteGroup(w))

FairSpec == Spec /\ Fairness

(***************************************************************************)
(* Every accepted request completes: execute_workflow returns.             *)
(***************************************************************************)
RequestsComplete ==
    \A r \in Request : phase[r] = "starting" ~> phase[r] = "done"
=============================================================================
