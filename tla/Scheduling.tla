----------------------------- MODULE Scheduling -----------------------------
(***************************************************************************)
(* The scheduling policies of the coordinator: the worker status each      *)
(* keeps, which workers it may select, and how completions and the end of  *)
(* a request update it.  DYNAMIC admits a task when some worker has at     *)
(* most worker_latency_threshold of estimated work; EXCLUSIVE dedicates a  *)
(* worker to each request; RANDOM raises when it is first asked to group   *)
(* tasks (GroupingRaises).  All of it runs under worker_status_lock inside *)
(* one callback of the coordinator's event loop.                           *)
(*                                                                         *)
(* A latency is abstracted to whether it exceeds the threshold (Slow); the *)
(* sums of latencies below it are taken to stay below it.  Which of the    *)
(* admissible workers has the least latency depends on model and tensor    *)
(* placement; the model lets the policy take any of them.                  *)
(***************************************************************************)
EXTENDS Workflow, SequencesExt

CONSTANTS
    Request,     \* request ids (fresh for every request)
    Worker,      \* worker ranks
    Policy,      \* "DYNAMIC", "EXCLUSIVE" or "RANDOM"
    LatencyBatch,     \* [Node -> batch size] model_batch_configs, 1 when
    ThroughputBatch,  \* the operator has no entry
    None

ASSUME SchedulingAssumption ==
    /\ IsFiniteSet(Request) /\ IsFiniteSet(Worker) /\ Worker # {}
    /\ Policy \in {"DYNAMIC", "EXCLUSIVE", "RANDOM"}
    /\ LatencyBatch \in [Node -> Nat \ {0}]
    /\ ThroughputBatch \in [Node -> Nat \ {0}]
    /\ \A m, n \in Node : OpId[m] = OpId[n] => LatencyBatch[m] = LatencyBatch[n]
    \* _select_worker_for_task_group asserts that a scheduler step is alone.
    /\ \A n \in SchedulerOp : LatencyBatch[n] = 1 /\ ThroughputBatch[n] = 1
    /\ None \notin Request /\ None \notin Worker

Task == [req : Request, node : Node]

VARIABLES
    taskGroup,   \* [Worker -> SUBSET Task] worker_status[w]["task_group"]
    estimated,   \* [Worker -> SUBSET Task] keys of ["estimated_latency"]
    owner,       \* [Worker -> Request or None] ["request_id"]
    assigned,    \* [Request -> Worker or None] request_worker_map
    pinned       \* [Request -> Worker or None] denoise_scheduler_worker

policyVars == <<taskGroup, estimated, owner, assigned, pinned>>

PolicyTypeOK ==
    /\ taskGroup \in [Worker -> SUBSET Task]
    /\ estimated \in [Worker -> SUBSET Task]
    /\ owner \in [Worker -> Request \cup {None}]
    /\ assigned \in [Request -> Worker \cup {None}]
    /\ pinned \in [Request -> Worker \cup {None}]

PolicyInit ==
    /\ taskGroup = [w \in Worker |-> {}]
    /\ estimated = [w \in Worker |-> {}]
    /\ owner = [w \in Worker |-> None]
    /\ assigned = [r \in Request |-> None]
    /\ pinned = [r \in Request |-> None]

\* The sum of w's estimated latencies is within worker_latency_threshold.
WithinThreshold(w) == \A id \in estimated[w] : id.node \notin Slow

AvailableWorkers == { w \in Worker : WithinThreshold(w) }

FreeWorkers == { w \in Worker : owner[w] = None }

DynamicAvailable == AvailableWorkers # {}

ExclusiveAvailable(task) == assigned[task.req] # None \/ FreeWorkers # {}

\* RANDOM admits any task.
CheckWorkerAvailability(task) ==
    CASE Policy = "DYNAMIC" -> DynamicAvailable
      [] Policy = "EXCLUSIVE" -> ExclusiveAvailable(task)
      [] Policy = "RANDOM" -> TRUE

(***************************************************************************)
(* select_worker_for_task_group.  DYNAMIC falls back on a random worker    *)
(* when none is within the threshold, and when the latency is infinite     *)
(* everywhere, which no comparison with the minimum beats.                 *)
(***************************************************************************)
DynamicSelects(task, w) ==
    /\ w \in IF AvailableWorkers # {} /\ task.node \notin Unprofiled
             THEN AvailableWorkers ELSE Worker
    /\ estimated' = [estimated EXCEPT ![w] = @ \cup {task}]
    /\ UNCHANGED <<owner, assigned>>

\* EXCLUSIVE keeps a request on its worker, or takes a free one for it.
ExclusiveSelects(task, w) ==
    /\ IF assigned[task.req] # None
       THEN w = assigned[task.req] /\ UNCHANGED <<owner, assigned>>
       ELSE /\ w \in FreeWorkers
            /\ assigned' = [assigned EXCEPT ![task.req] = w]
            /\ owner' = [owner EXCEPT ![w] = task.req]
    /\ UNCHANGED estimated

\* RANDOM never gets this far.
PolicySelects(task, w) ==
    IF Policy = "DYNAMIC" THEN DynamicSelects(task, w) ELSE ExclusiveSelects(task, w)

\* Mutant: the scheduler steps go where the policy sends them.
IsPinned_Never(task) == FALSE

IsPinned(task) == task.node \in SchedulerOp /\ pinned[task.req] # None

(***************************************************************************)
(* Coordinator._select_worker_for_task_group: the denoise scheduler of a   *)
(* request keeps the worker of its first step, whatever its load, because  *)
(* the scheduler's state lives there.  task is the first of the group and  *)
(* names it (get_task_id).                                                 *)
(***************************************************************************)
SelectWorkerForTaskGroup(task, w) ==
    /\ IF IsPinned(task)
       THEN w = pinned[task.req] /\ UNCHANGED <<estimated, owner, assigned>>
       ELSE PolicySelects(task, w)
    /\ taskGroup' = [taskGroup EXCEPT ![w] = @ \cup {task}]
    /\ pinned' = IF task.node \in SchedulerOp
                 THEN [pinned EXCEPT ![task.req] = w]
                 ELSE pinned

\* Mutant: the latency stays after the completion.
UpdateWorkerStatus_KeepsEstimate(w, id) ==
    /\ taskGroup' = [taskGroup EXCEPT ![w] = @ \ {id}]
    /\ UNCHANGED <<estimated, owner, assigned, pinned>>

\* update_worker_status_after_completion of the group named id.
UpdateWorkerStatusAfterCompletion(w, id) ==
    /\ taskGroup' = [taskGroup EXCEPT ![w] = @ \ {id}]
    /\ estimated' = [estimated EXCEPT ![w] = @ \ {id}]
    /\ UNCHANGED <<owner, assigned, pinned>>

\* Mutant: the request is forgotten, its worker stays taken.
CleanupRequest_KeepsOwner(r) ==
    /\ assigned' = [assigned EXCEPT ![r] = None]
    /\ UNCHANGED <<owner, taskGroup, estimated, pinned>>

\* cleanup_request: EXCLUSIVE gives the worker of the request back.
CleanupRequest(r) ==
    /\ IF assigned[r] # None
       THEN /\ owner' = [owner EXCEPT ![assigned[r]] = None]
            /\ assigned' = [assigned EXCEPT ![r] = None]
       ELSE UNCHANGED <<owner, assigned>>
    /\ UNCHANGED <<taskGroup, estimated, pinned>>

(***************************************************************************)
(* How many workers the tasks of the list need when each operator runs in  *)
(* batches of its latency_mode size.                                       *)
(***************************************************************************)
WorkersForLatencyMode(tasks) ==
    LET Count(op) == Cardinality({ i \in DOMAIN tasks : OpId[tasks[i].node] = op })
        Batch(op) == LatencyBatch[CHOOSE n \in Node : OpId[n] = op]
    IN  MapThenSumSet(LAMBDA op : (Count(op) + Batch(op) - 1) \div Batch(op),
                      { OpId[tasks[i].node] : i \in DOMAIN tasks })

(***************************************************************************)
(* The batch size select_tasks_for_grouping allows for a group headed by   *)
(* first, rest being the ready tasks behind it.  An IndexedTensor group    *)
(* has no bound.  DYNAMIC prefers latency_mode while the workers suffice.  *)
(***************************************************************************)
DynamicBatchSize(first, rest) ==
    IF WorkersForLatencyMode(rest) <= Cardinality(AvailableWorkers)
    THEN LatencyBatch[first.node]
    ELSE ThroughputBatch[first.node]

ExclusiveBatchSize(first) == ThroughputBatch[first.node]

BatchSize(first, rest) ==
    IF first.node \in IndexedOp THEN Cardinality(Task)
    ELSE IF Policy = "DYNAMIC" THEN DynamicBatchSize(first, rest)
    ELSE ExclusiveBatchSize(first)

(***************************************************************************)
(* can_group_tasks.  IndexedTensor tasks group when they index the same    *)
(* tensor of the same request; other tasks when the operator, mode and     *)
(* patches agree and neither has lazy inputs; EXCLUSIVE never groups two   *)
(* requests.                                                               *)
(***************************************************************************)
DynamicCanGroup(t1, t2) ==
    /\ OpId[t1.node] = OpId[t2.node] /\ Variant[t1.node] = Variant[t2.node]
    /\ IF t1.node \in IndexedOp
       THEN t1.req = t2.req /\ Inputs[t1.node] = Inputs[t2.node]
       ELSE LazyInputs[t1.node] = {} /\ LazyInputs[t2.node] = {}

ExclusiveCanGroup(t1, t2) == t1.req = t2.req /\ DynamicCanGroup(t1, t2)

CanGroup(t1, t2) ==
    IF Policy = "DYNAMIC" THEN DynamicCanGroup(t1, t2) ELSE ExclusiveCanGroup(t1, t2)

(***************************************************************************)
(* RandomScheduler.select_tasks_for_grouping takes two parameters more     *)
(* than the coordinator passes, so the call raises.                        *)
(***************************************************************************)
GroupingRaises == Policy = "RANDOM"
=============================================================================
