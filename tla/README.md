# A TLA+ model of the DiFlow serving system

DiFlow (`src/diffusionflow`) serves diffusion pipelines as graphs of operators.
A *workflow* (text encoders, ControlNets, a diffusion transformer called once
per denoising step, a scheduler, a VAE) is unrolled into a graph of nodes; a
single coordinator dispatches nodes of many requests, grouped in batches, to
GPU workers; workers keep the tensors the nodes produce in a symmetric NVSHMEM
heap and read each other's copies; the coordinator tracks where every tensor is
and tells workers what they may free.  This directory holds TLA+ modules that
model that system, TLC configurations that check them, and TLAPS proofs.

Paths below are relative to `src/diffusionflow/backend` unless they start with
`src/`.

## 1. Inventory

| Component | State | Operations | Interacts with | Hard behaviours | Correct when |
|---|---|---|---|---|---|
| **Workflow graph** (`coordinator.py` 297-421, `interface/workflow_node.py`) | per request: nodes, prerequisites, lazy prerequisites, successors, depth, reference counts | `_build_dependency_graph`, `_get_node_dependencies`, `_get_lazy_input_dependencies`, `_topological_sort` | read by the coordinator | a node with an eager and a lazy input from one producer; depth by breadth-first walk | readiness never precedes the inputs it needs; counts are those of the consumers |
| **Scheduling policies** (`scheduler/`, `coordinator.py` 675-706) | `worker_status` (task groups, latencies, owner), `request_worker_map`, `denoise_scheduler_worker` | `check_worker_availability`, `select_tasks_for_grouping`, `can_group_tasks`, `select_worker_for_task_group`, `update_worker_status_after_completion`, `cleanup_request` | called by the coordinator's two loops | status changed at dispatch and at completion, under the name of the first task of a group; pinned denoise schedulers; dedicated workers given back while another request waits | the recorded load is the outstanding work; a scheduler's steps stay together; EXCLUSIVE workers serve one request |
| **Coordinator** (`coordinator.py`) | `task_queue`, `ready_tasks`, `scheduled_nodes`, `completed_nodes`, `tensor_map`, `tensor_reference_count`, `free_tensor_dict`, `lazy_input_dependents`, arrival times | `execute_workflow`, `_process_task_queue_loop`, `_schedule_task_group`, `_gather_result_loop`, `_mark_node_completed`, `_notify_lazy_input_available`, `_update_free_tensor_dict` | asyncio tasks among themselves; zmq to workers | everything is a callback of one event loop, and each callback creates more; results, notifications, frees and the end of a request interleave | every accepted request completes; no task is lost or repeated; no task reads a freed copy |
| **Worker task execution** (`worker.py` 400-1079) | `tensor_map`, the group in execution, `request_schedulers`, `task_queue` | main loop, `process_task` phases 0-4, lazy acquisition, early results of generators | coordinator (task and result sockets), other workers (NVSHMEM gets) | a blocked lazy acquisition occupies the worker; frees and fetches are applied when a group starts, not when it is sent | every tensor in the map has memory; what is announced is held |
| **Data engine, Python** (`nvshmem_data_engine.py`) | request and free queues, `received_tensors`, arrival events | fetching and freeing threads, `get`, `submit_fetch_task`, `submit_free_task`, `stop` | worker threads | `get` against a concurrent arrival; threads that drain their queue after a stop | an arrival is never lost |
| **Serving system** | the above, concurrently | | | | the promise of `execute_workflow` |
| **Workflow unrolling** (`interface/workflow_unroll.py`) | the unrolled graph | `unroll_workflow`, `run_adapters`, `prepare_model_kwargs` | called by `execute_workflow` for every admitted request | which tensor feeds which step of which branch; one scheduler object that counts its own calls | every call gets its arguments; residuals, predictions and latents belong together; each scheduler call finds its step index |
| **Operators and models** (`src/diffusionflow/operators`) | none, but for the scheduler objects | `setup_io`, `execute` per mode | called by workers; composed by workflows | argument lists in four places that nothing compares | what `execute` needs is declared, and given |
| **Clients and examples** (`src/benchmark/client_utils.py`, `src/examples`) | none | registration, requests | server | inputs written by hand per service | a request carries what its workflow names |
| **Admission and server** (`server.py`, `coordinator.py` 1021-1180) | registered workflows, arrival times | `/register`, `/inference`, `_is_system_overloaded`, answers | coordinator | overload test against a moving state; requests that fail half-way | a rejection has a cause; every request is answered |
| **Startup and shutdown** (`coordinator.py` 230-295, 1182-1267, `worker.py` 46-66, 996-1111, 1399-1432) | sockets, threads, `prefetching_complete_event`, stop flags | readiness handshake, prefetch, preload, stop, join | all processes | blocking receives; an `asyncio.Event` set from another thread; a join on a thread blocked without a timeout | nothing is served before all workers are up; models come before tasks; the system starts, and ends |
| **Model memory** (`worker.py` 1081-1325) | `gpu_models`, `cpu_models`, LRU order, patches | load, evict, preload, patch | the process thread and the main thread | two threads on the same dictionaries | a model in use is on the GPU; memory bounds hold |
| **Allocators** (`src/csrc/data_engine/allocator`) | free lists, ring offsets, pages | allocate (waits), free (wakes one) | data engine, under the interpreter lock or not | waiting with stale offsets; wrap-around; lost wake-ups | live allocations are disjoint; a waiter whose request fits is woken |
| **Native data engine** (`src/csrc/data_engine/engine`) | NVSHMEM heap, streams | create, fetch | allocators | allocation waits inside a binding | as above |
| **Worker selection extension** (`scheduler/worker_selection_exp.cpp`) | none | minimum estimated latency | policies | | the minimum is found |
| **Baselines** (`src/baselines`) | per-worker status and task, waiting futures, pipelines on the GPU | dispatch of whole requests, result timeout, deadlines, Clockwork's offloading | their own workers | a late result after a timeout; deadlines that pass anywhere | no request is lost or answered twice; a worker never stays busy without a reason |
| **Benchmarks, traces, scripts** | | measurement | | | outside the model |

Every hazard found while reading is listed in `PROJECT.json` under `hazards`
with its line and the properties that would show it going wrong, or the module
that will.

## 2. Plan

Done:

1. **Core.** `Workflow`, `Scheduling`, `Coordinator`, `DiffusionWorker`,
   `Serving`, the abstract `WorkflowService`, the instances in `MCServing`; type
   correctness and scheduler affinity proved.
2. **Inside a worker.** `DataEngine` (both threads, `get` and arrival at the
   grain of single dictionary operations, the arena and the interpreter lock),
   `WorkerRuntime` (main loop, process thread, stop and joins), `ModelCache`
   (LRU, eviction, patches, preloading from the main thread; its invariants
   proved).
3. **From a workflow to calls.** `Operators` (what each operator declares and
   needs), `Pipelines` (the registered workflows), `Clients` (what requests
   carry), `Unroll` (`workflow_unroll.py`), `Denoising` (the unrolled graph
   executed in every order its data allows); what the unrolled graph promises
   its execution is proved.
4. **Front.** `Startup` (handshake, prefetch, preload, the event between the
   worker's threads) and `Frontend` (server, admission, answers, shutdown); its
   safety invariants proved.
5. **Baselines.** `BaselineWorker` and `Baseline`; their invariants proved.

Next, in this order:

6. **Proofs.** Every safety property that a run checks is proved but
   `CopiesReleased` and `CallsGetTheirArguments` (section 5), and that `Serving`
   implements `WorkflowService`.  Left: of the release of copies, what holds in
   general.
7. **Allocators.** The page, ring and combined allocators once the backend
   builds them, and several waiters in `BuddyAllocator` once the bindings
   release the interpreter lock; today neither is reachable.

## 3. Modules

```
Workflow <- Scheduling <- Coordinator <- DiffusionWorker <- Serving <- MCServing
Workflow <- WorkflowService  (INSTANCE in Serving)
Serving <- ServingProofs <- ServiceProofs
DataEngine <- WorkerRuntime <- MCWorkerRuntime,  WorkerRuntime <- WorkerRuntimeProofs
ModelCache <- MCModelCache,  ModelCache <- ModelCacheProofs
Operators <- Pipelines <- Unroll <- Denoising <- MCDenoising
                                    Clients   <- MCDenoising
                                    Denoising <- DenoisingProofs
Startup <- Frontend <- MCFrontend,  Frontend <- FrontendProofs
BaselineWorker <- Baseline <- MCBaseline,  Baseline <- BaselineProofs
FiniteSums <- BaselineProofs, ModelCacheProofs, DenoisingProofs
```

* **`Workflow`**: the graph of a request as constants, and what
  `_build_dependency_graph` computes from it.  Non-lazy prerequisites are
  `Prerequisites \ LazyPrerequisites`, sets of *nodes*, as in the code, so a
  node with a lazy and an eager input from one producer waits for neither.
  `Depth` is the breadth-first layer counted from the nodes without successors,
  which are the ones at depth 1 (the comment at `coordinator.py:118` calls
  them root nodes).
* **`Scheduling`**: worker status and the policies DYNAMIC and EXCLUSIVE.
  Latencies are abstracted to whether one exceeds the threshold; among the
  workers a policy may choose by least latency, the model takes any.  The
  definitions are split as the code dispatches: `DynamicAvailable`,
  `ExclusiveAvailable`, ... and the one the coordinator calls.
* **`Coordinator`**: the event loop.  `ready` is asyncio's queue of callbacks,
  `todo` how many of them belong to the present turn; `LoopIteration` is
  `_run_once`: completed I/O first, then due timers.  Each callback is one
  action: `StartRequest` and `FinishRequest` (`execute_workflow` before and
  after its wait), `PutTask`, `ScheduleTaskGroup`, `NotifyLazyInputAvailable`,
  `UpdateFreeTensorDict`, and the two loops.  A loop runs many iterations
  without suspending; `mode` says which is running and its iterations are
  actions of their own (`PickFirstTask`, `JoinGroup`, `AssignGroup`;
  `GatherTensorBatch`, `GatherTaskComplete`, `GatherTask`).  Workers read
  nothing of the coordinator, so splitting an uninterrupted run adds no
  behaviour the code lacks.
* **`DiffusionWorker`**: one worker as the coordinator sees it: `StartGroup`
  (frees, input fetches, scheduler creation), `FetchLazy` (the data engine's
  fetching thread), `AcquireLazy` (the callback an operator uses to get a lazy
  input), `YieldOutput` (a generator announces an output), `CompleteGroup`.
* **`Serving`**: composition, invariants, refinement, fairness.
* **`WorkflowService`**: the abstract promise of `execute_workflow`.
* **`MCServing`**: four workflow graphs; the cfg files choose among them.
* **`ServingProofs`** (types, where tasks are) and **`ServiceProofs`** (tensors:
  known, counted, held, awaited; schedulers, worker load, dedication): the
  theorems.
* **`DataEngine`**: `NvshmemDataEngine` inside one process.  `event` and
  `received` are its two dictionaries, `freeQueue` and `fetchQueue` its queues,
  `freeing` and `fetching` the positions of its threads.  `gil` is the thread
  that waits for room inside the native `allocate` and keeps the interpreter
  lock; every other Python step needs `Interpreter`, that nobody does.
  `allocated` counts the tensors in an arena of `Arena` places.
* **`WorkerRuntime`**: the worker's main loop (`Receive`, `Await`,
  `HandleLazyArrival`, then the stop: `StopEngine`, `ReleaseBackend`,
  `Cleanup`, `FinishCleanup`) and its process thread, which executes a task
  group as a list of data-engine calls (`PutFree`, `PutFetch`, `GetEvent`,
  `WaitArrival`, `PopTensor`, `PopEvent`, `CreateTensor`).
* **`ModelCache`**: `gpu_models`, `cpu_models` and their accounting, one action
  per access the two threads make to a shared dictionary.  `copies` are the
  initialised components, so that a model moved under a running task, or
  patched in one memory and reloaded from another, is visible.
* **`MCWorkerRuntime`**, **`MCModelCache`**: their instances.
* **`Operators`**: for every operator of `src/diffusionflow/operators` and every
  execution mode, the arguments its `execute` cannot run without and the
  outputs it declares.
* **`Pipelines`**: the workflows `src/examples/register_*.py` build: their calls
  in order, what each argument refers to, the denoise node.  **`Clients`**: the
  inputs the benchmark client and the example script send to each.
* **`Unroll`**: `unroll_workflow`, one action per call it makes, with the
  branches of `run_adapters` and `prepare_model_kwargs`.  `nodes` is the list
  of workflow nodes, `pc` the place in the loop, `branch` the prompt the model
  is about to be called for.
* **`Denoising`**: the unrolled graph executed: `Compute(k)` runs any call whose
  arguments are there; `sched` is the scheduler object (timesteps set, index of
  the next step), which each scheduler call moves on.
* **`Startup`**: the coordinator's handshake and preload tasks (`SendPings`,
  `ReceivePong`, `SendModelLoading`, `StartServing`, `StopWorkers`), the main
  thread of a worker (`Receive`, `Handle`, `HandlerWaits`, `HandlerResumes`) and
  its process thread up to its loop.  `asyncio.Event` is taken apart as far as
  two threads meet in it: the look at the flag, the adding of a future, the
  setting, and the iteration over the futures, which a change of the deque
  makes raise.
* **`Frontend`**: the server: `Register`, the inference endpoint (`Refuse`,
  `Reject`, `FailToUnroll`, `Execute`, `Return`), the overload test on the
  coordinator's maps, and a short form of execution in which any worker without
  a task takes the next one of a request.
* **`BaselineWorker`**, **`Baseline`**: the whole-request coordinator and workers
  of `src/baselines`.  A request passes `queue` → `sending` → `inbox`/`sent` →
  `running`/`gather` → `outbox`; a deadline may pass at any moment; `fate` is what
  its processing meets (fine, an exception, more than 300 s).
* **`MCDenoising`**, **`MCFrontend`**, **`MCBaseline`**: the instances.
* **`WorkerRuntimeProofs`**, **`ModelCacheProofs`**, **`FrontendProofs`**,
  **`BaselineProofs`**: their theorems.

### Choices a reader should know

* `task_queue` and `ready_tasks` are one list, kept in the order of the sort:
  the scheduler loop drains the queue before it reads the list and nothing else
  reads either.
* The notifications of one result are created together in the code and run one
  after the other; they are one callback here.
* The worker's main thread only moves a message from a socket to a queue; a
  message stays in `taskQueue` or `lazyQueue` until its consumer takes it.
  Task groups and lazy arrivals share a socket but are served by different
  threads, so no order is kept between them.
* The fetches of a group's inputs are synchronous and their copies cannot be
  freed meanwhile (that is `QueuedLocationsHeld`), so they are one step.
* A buffer is named by request and tensor.  Unrolled nodes get fresh names per
  request, and the tensor names of registered nodes, shared among requests, are
  only fetched synchronously and one at a time, so the data engine's keys never
  collide.
* `arena` counts allocations under each name without bound; waiting for memory
  is `WorkerRuntime`'s.
* Arrival times are ranks: two requests with one `time.time()` value are not
  modelled.  Timers come due in any order, and only between turns, as in
  asyncio.
* Early abort is off in `Serving` (the default); `Frontend` has it.  RANDOM is modelled as far as the code
  gets with it: the coordinator calls `select_tasks_for_grouping` with two
  arguments (`coordinator.py:727`), RANDOM's takes four
  (`random_scheduler.py:86`), and the TypeError ends the scheduler loop at the
  first task (`GroupingRaises`).  No run uses it.
* Exceptions in a worker or in a dispatch are not modelled in `Serving`.
  `WorkerRuntime` and `ModelCache` model the ones of their calls: a thread
  becomes `"dead"`, because `ProcessTaskThread.run` catches only `Empty`.
* `WorkerRuntime` and `ModelCache` are separate: the process thread calls them
  one after the other and they share no state.
* Scheduler components, which the worker also keeps in `cpu_models`, and
  operators without a model path never enter `ModelCache`.
* A registered workflow has at most one denoise node with at most one adapter,
  as every one in the repository; `RequestsAssumption` says so.  The residuals
  of a ControlNet, declared one output per block, are one port that says how
  many it stands for.
* `Frontend` does not notice a client that stops waiting: nor does the server,
  which runs the request to its end.
* In `Startup` a handler may run between any two messages, though the main
  thread's loop only sleeps when it finds the socket empty; messages may arrive
  at any time, so the order in the model is the more general one.
* `Baseline` leaves time abstract: a request whose fate is `"overlong"` ends
  after the 300 s the gathering task waits, so its worker cannot be done while
  that task still waits.

## 4. Runs

| Run | Instance | Checks | Shows |
|---|---|---|---|
| `pipe` | two requests, two workers, DYNAMIC, init → transformer → scheduler step → VAE, latency batch 2 | `EveryTaskInOnePlace`, `StatusMatchesWork`, `ResultsOfLiveRequests`, `SchedulerAffinity`, `CopiesReleased` | batches mix requests, yet no task is lost or repeated, recorded load is real work, schedulers do not move, results never reach a finished request, all copies are freed |
| `cfg` | one request, two workers, DYNAMIC, guidance with ControlNets and lazy samples | `ScheduledNodesHaveInputs`, `QueuedLocationsHeld`, `ArrivingTensorsHeld`, `RefCountsConsumers`, `NoLostLazyArrival`, `NoDanglingTensor` | no read of a freed copy, no lost lazy arrival, exact reference counts, in every interleaving of frees, fetches and announcements |
| `dedicated` | three requests, one worker, EXCLUSIVE, two `IndexedTensor` nodes between scheduler steps, fairness | `DedicatedWorkers`, `ImplementsService`, `RequestsComplete` | up to two requests wait while the worker is dedicated to the third and the loop sleeps; the worker passes from request to request without holding work of two, every request gets its turn, and, with groups of any size, the system does what `WorkflowService` promises |
| `cache` | four task groups of four kinds after two preloads, three models of 3, 2 and 1 units on a device of 5 | `LruOrder`, `CacheConsistent`, `RunsWithItsPatches`, `LoadedModelFits` | eviction, reload, first load and patching keep dictionaries, the order of use, accounting and patch status in agreement |
| `engine` | two tensors; announcements before, between and after two task groups, or followed by a stop; room for five tensors | `ArrivalSeen`, `DrainedAtRelease`, `TasksFinish`, `EngineStops` | an arrival is seen in every order of the two threads, names can be used again, work is done, the engine is drained and ends |
| `unroll` | every registered workflow with the inputs of every client that knows it, one to three iterations; the image-to-image workflow with four strengths; guidance switched off | `CallsGetTheirArguments`, `SamplesMatchTheirCall`, `GuidedStepCombinesItsBranches`, `OnlyFirstIterationOvertakes`, `CallsFindTheirStepIndex`, `RequestComputes` | whatever order the workers run the calls in, each finds its arguments and its step index, and each model call takes the residuals of its own branch and step |
| `frontend` | two workers, one of which prefetches while it is asked to move a model; three requests: one timed, one that may fail to unroll; two workflows under one name, one of them with an operator nobody profiled | `ServesReadyWorkers`, `PreloadsComeFirst`, `ReportedModelsMoved`, `RejectedOnlyWhenBusy`, `PreloadsHandled`, `AlwaysAnswered` | nothing is served too early, models come before tasks, traces of failed requests cause no rejection, and what is started ends, unless the worker's event is missed |
| `baseline` | three requests for two of three pipelines, two workers; Basic and Clockwork; at most one request that raises or takes too long; deadlines for one or two | `WorkerStatusMatches`, `ResultsOfTheirTask`, `EveryRequestInOnePlace`, `PipelinesFit`, `RequestsAnswered` | results are only taken by the task that waits for them, no request is lost or answered twice, and a request is answered unless every worker it could go to is lost |
| `lazy_deadlock` | `cfg` with fairness | `RequestsComplete` **violated** | see findings |
| `ensure_race` | a task for a model whose preload is in progress | `EnsureSucceeds` **violated** | see findings |
| `full_arena` | an output that needs the room of a tensor just freed, arena of 1 | `WaitEnds` **violated** | see findings |
| `sdxl_cfg_step` | SDXL with guidance, one iteration | `StepTakesUnscaledLatents` **violated** | see findings |

**Bounds.**  Two workers are the least with which tensors have remote copies
and workers compete.  Two requests are the least with which batches mix
requests, ready lists interleave arrivals and one request ends while another
runs; `cfg`, about one request's internal races, has one, on a larger graph.
`dedicated` has three requests for one worker: with a worker for each request
none would ever wait, and of three, two wait together for the next turn.
A request is accepted once, so these runs need no other bound, every state
space is explored completely, and none has a deadlock: the two loops always
have a next turn.

`cache` bounds task groups (`TaskBound`, 4) and copies (`CopyBound`, 3): four
groups bring in a model, evict it, bring it back and use it with another patch,
and at most three models exist.  Its device holds the largest model, or the two
others: every load after the first evicts.  `engine` has two keys, so one can be
waited for while the other arrives, and each is used twice.  Both stop at their
bound, as `ensure_race` does at its end, hence no deadlock check there.

`unroll` goes to three iterations: a first, which takes the initial latents, a
last, which rewires the consumers, and one between.  The graph is executed while
and after it is built only where the code does so (after); an execution stops
when everything is computed.

`frontend` fixes which worker has prefetched before it comes up (`Quick`), has
one model to preload and workflows of one task.  Three requests are one more
than there are workers, so a rejection is possible with and without the trace of
a failed request.  `baseline` has more requests than workers, so that tasks
circulate in the queue while a worker is lost, and pipelines two of which fit
the GPU, so that Clockwork offloads.  Both may end: the server is shut down, all
requests are answered.

**An assumption of `cache`.**  `EarlyTasks` is FALSE: task groups come after
the preload.  Nothing in the code waits for it, the coordinator only logs
`model_loading_complete`; it is what an operator gets who starts the clients
late.  With `EarlyTasks = TRUE` the two threads share the dictionaries without
a lock.  `CacheConsistent` is then proved for a device with room for everything
(`RacingThreadsAgree`, section 5); `EnsureSucceeds` fails even there, which is
`ensure_race`; and when a preload may evict, `CacheConsistent` fails as well (see
the notes that follow the findings).

Each property of a passing run is also checked against a mutant: an operator
whose name extends the one it replaces (`NewlyReady_AnyPrerequisite`,
`UpdateWorkerStatus_KeepsEstimate`, ...) and which TLC finds to break the
property.

### Fairness

`FairSpec` assumes that the event loop runs its callbacks (a callback that is
first in the queue runs, a loop run proceeds); that timers of 10 µs are served
at some later turn, which may come after any number of turns, hence strong
fairness; that a message in a result socket is polled some day, though a poll
may miss a message still in flight, hence strong fairness; and that a worker
thread that can proceed does.  Nothing is assumed of the arrival of requests.

`WorkerRuntime`'s `Spec` assumes weak fairness of each thread, the socket, and
nothing else: the interpreter and the operating system run a thread that can
run.  A timeout is a step its thread may take, so `TimesOut` is covered by the
fairness of the thread.

`Frontend` assumes weak fairness of the coordinator's startup and loops, of the
two threads of each worker and of the endpoint's return; not of the starting of
workers, of clients, nor of the shutdown.  `Baseline` assumes it of the queue
loop, of every task of the event loop, of the workers' threads and of the
passing of time; not of clients.  `Denoising` assumes that some call that can
run does, until none can.

### Findings

* **`lazy_deadlock`** (`coordinator.py:456`).  A node is ready when its
  non-lazy prerequisites are completed, and lazy inputs need not be available.
  If a prerequisite of the producers is still missing, all consumers can be
  dispatched, one to each worker, where they block in `data_engine.get`; the
  producers are then sent behind them.  `OnlyFirstIterationOvertakes` shows
  that the unrolled graphs allow this in their first iteration only.
* **`ensure_race`** (`worker.py:1195`).  `prefetching_complete_event` releases
  the preload handler on the main thread and the process thread together.  When
  both bring in the same model, the one that comes second finds its entry of
  `cpu_models` gone; if that is the process thread, it ends, and the worker
  never executes another task.
* **`full_arena`** (`nvshmem_backend.cpp:103`).  `allocate` waits for a free to
  make room, inside a binding that keeps the interpreter lock; the freeing
  thread is Python and cannot run.
* **`sdxl_cfg_step`** (`workflow_unroll.py:342`).  The step without guidance
  takes the latents saved before the scaling; the step with guidance takes the
  scaled ones.  The comment at line 264 ends with words that may be read either
  way for SDXL; that the two steps differ is certain.

Further behaviours the models show, for which no run is kept:

* Two tasks sent to a worker with the same remote input each fetch it
  (`worker.py:513`); the second overwrites the first in `tensor_map`, and the
  coordinator frees once per worker, so one copy stays in the arena for good:
  `CopiesReleased` fails on the `cfg` graph, whose two ControlNets may be grouped.
  In `pipe` no worker fetches a tensor twice.
* A preload that has to make room evicts by least recent use from the main thread,
  whatever the process thread is running (`worker.py:1081`): the components of a
  running model may be moved to host memory.  Main may also evict a model between
  the steps in which the process thread enters it in `gpu_models` and removes it
  from `cpu_models`, after which it is in neither, and `CacheConsistent` fails.
* A task's peak is compared with the whole device (`worker.py:1218`), and a hit
  makes no room (`worker.py:1239`): a larger batch of a resident model runs with
  more than the other models leave.  `LoadedModelFits` therefore speaks of models
  just moved in or loaded.
* The process thread waits for a task without a timeout (`worker.py:62`),
  nothing is put in its queue at shutdown, and `cleanup` joins it: a worker that
  is idle at the stop does not end (`StopEnds` fails in `WorkerRuntime`).
* `prefetching_complete_event` is an `asyncio.Event` set from another thread
  (`worker.py:55`).  A handler that has just found it unset adds its future
  after the others were woken and waits for ever; one that adds it during the
  wake-up makes the iteration raise, and the process thread ends before its
  first task.  `PreloadsHandled` and `AlwaysAnswered` name the two cases, and
  without them (`Missed`, `"dead"`) they fail.
* The 60 s of the readiness handshake (`coordinator.py:233`) are compared
  between blocking receives: a worker that never answers is never reported,
  and the server never serves.
* A request whose unrolling raises stays in `request_arrival_times`; it weighs
  nothing in the overload test, as it has no task graph.
* `server.py:59` keeps the first workflow registered under a name and reports
  success for the second.  `register_sd3_txt2img_lora_cfg_workflow.py` registers
  under the name of `sd3_txt2img_cfg_workflow`.
* In a baseline, a request that took longer than 300 s or raised keeps its
  worker busy for good (`src/baselines/coordinator.py:329`), and without a
  deadline it is never answered: the exceptions in `RequestsAnswered`.
* A worker may be told of the arrival of a tensor it has: one it produced
  itself, or that another of its tasks has fetched.  `_notify_lazy_input_available`
  (`coordinator.py:506`) notifies every dependent, wherever it is, while the
  consumer takes the tensor from `tensor_map` without waiting for the message
  (`worker.py:1050`).  The message then outlives its waiter: the fetching thread
  reads a copy that may be freed by then, and nobody takes or frees what it
  fetched.  `ArrivingTensorsHeld` therefore speaks of waiters that have not
  completed, and `CopiesReleased` fails on the `cfg` graph in this way as well when
  its transformer calls start together (`Slow = {}`).
* Nothing compares the peak of a preload with
  the device (`_validate_memory_availability` is called for tasks), which is a
  hypothesis of the theorem about it.
* A task that submits a fetch across a stop may queue it behind the end of the
  fetching thread, as the check of `running` and the put are two steps
  (`nvshmem_data_engine.py:154-159`): `DrainedAtRelease` fails when the stop
  overtakes a task group that fetches.  The stop in `engine` overtakes a group
  that waits and creates only.

## 5. Proofs

All theorems hold for every value of the constants that satisfies the
assumptions of the modules, which TLC evaluates on every instance: every
workflow graph, number of requests and workers, batch configuration and both
policies for `Serving`; every number of workers, models, requests and workflows
for `Frontend`; every placement, size, failure and set of deadlines for
`Baseline`; every set of models, sizes, patches, prefetched models, preload
list and device for `ModelCache`; every workflow of the shape the examples give
one, number of iterations and strength for `Denoising`; every set of messages the coordinator may
send to a worker, of tensors and every arena for `WorkerRuntime`.

* `ServingProofs!TypeCorrect`: `Spec => []TypeOK`; no run repeats it.  `TypeOK` is inductive: it
  includes that the number of callbacks left in a turn never exceeds the queue,
  without which `Head(ready)` would not be a callback.  One lemma per action;
  three lemmas say which callbacks an action creates and are used again below.
* `ServiceProofs!SchedulersStay`: `Spec => []SchedulerAffinity`: all steps of
  a request's denoise scheduler execute on one worker.  `SchedulerAffinity`
  speaks only of workers and is not inductive: a scheduler step still in a
  queue could break it later.  The inductive invariant `AffinityInv` follows
  the step from the group being assembled through the dispatch callback and the
  worker's queue: wherever it is, the request is pinned to that worker, and it
  is alone in its group, because the coordinator chooses the worker for the
  first task of a group only.  A pin, once made, never changes.
* `ServingProofs!EveryTaskHasOnePlace`: `Spec => []EveryTaskInOnePlace`: no task
  is lost and none is in two places.  Every task is carried by a list (a
  callback, the ready list, the group, a message, a result), and the lists form
  lanes: one for each kind of list of the coordinator and three for each worker.
  `InPlace` says that no two positions of the lanes hold one task and that the
  tasks in them are the pending ones, scheduled, uncompleted and of a live
  request.  A step moves one list from a lane to another (`Moves`), brings new
  tasks in, or takes completed ones out.  This is not inductive alone:
  `CallsOnce` says that a request has at most one start or wake callback, so
  that it neither begins twice nor ends while it runs, and `NodesOfRequests`
  that only scheduled nodes complete and that a request is clean before and
  after it runs, so that a node is scheduled once.  The last step counts:
  a place that the property names is one position of one lane.
* `ServiceProofs!ScheduledInputsKnown`: `Spec => []ScheduledNodesHaveInputs`, and
  `ServiceImplemented`: `Spec => ImplementsService`.  That an input is known
  when its producer has completed is not enough: a worker works with tensors it
  has not announced, and its completions and early outputs wait in a queue.
  `FlowInv` orders them: `Ahead(w, i)` is what the coordinator will know once it
  has handled the first `i - 1` results of worker `w`, and each result may
  presuppose only that and its own outputs (`ResultsTold`); tensors in a store
  and groups in execution may presuppose the whole queue (`StoresTold`,
  `GroupsTold`); of a scheduled node the prerequisites have completed, of a
  completed one the inputs and outputs are known (`NodesFed`), and a task sent
  to a worker has locations for all but its missing lazy inputs (`EntriesFed`).  For the refinement every action is matched with a step of the
  service: `StartRequest`, `GatherTask` and `FinishRequest` with `Start`,
  `Complete` and `Return`, all others with a stutter.
* `ServiceProofs!ResultsFindTheirRequest` and `ReferencesCounted`:
  `ResultsOfLiveRequests` and `RefCountsConsumers`.  `ReleaseInv` adds to
  `FlowInv` that the callbacks that release inputs precede the one that ends their
  request (`FreesInOrder`), one for each completed node that still counts, and
  that a node counts until its callback has run (`RefsCounted`).
* `ServiceProofs!TensorsHaveMemory`: `NoDanglingTensor`, inductive with the types.
* `ServiceProofs!LocationsStay`: `QueuedLocationsHeld`.  `HeldInv` says of every
  location anywhere (`tensor_map`, results on their way, tasks in queues and
  groups) that the worker named has the copy, or every consumer has given the
  tensor up (`GivenUp`), and that only tensors given up are on a free list or on
  their way in a task message (`FreesReleased`).  A queued task has not given up
  its inputs, so its copies are there and stay.
* `ServiceProofs!LazyArrivalsReach`: `NoLostLazyArrival`.  `LazyInv` follows the
  wait from the dispatch callback, where the dependent is registered, to the
  operator's call (`WaitersServed`), and has a notification in the event loop
  for each known tensor that has dependents (`WaitersTold`).
* `ServiceProofs!ArrivalsFindTheirSource`: `ArrivingTensorsHeld`, from `HeldInv`
  and `ArrivalInv`: the source named by a notification or an arrival has the
  copy or it is given up, and the waiter still counts as its consumer.
* `ServiceProofs!LoadIsOutstandingWork` and `WorkersStayDedicated`:
  `StatusMatchesWork` and `DedicatedWorkers`.  `LoadInv` names every group by
  its first task (`GroupsNamed`), under which the status is entered at dispatch
  and removed at completion, and counts it in one place (`StatusKept`, which
  needs `TaskInv`: a task starts one group).  Under EXCLUSIVE it adds that a
  pinned scheduler is on the worker of its request (`PinsDedicated`): the
  coordinator prefers the pin to the policy, and only so do the two agree.
* `FrontendProofs`: `AlwaysServesReady`, `PreloadsAlwaysFirst` and
  `ReportsAlwaysMoved`.  None of the three properties is inductive.  The
  invariant has one part each: `Handshake` says where the one ping or pong of
  every worker is, counted against the rank the coordinator waits for;
  `Order` says that a worker's socket never has a task ahead of a preload
  message, and none at all while a preload task waits to run; `AllMemories`
  follows a model from the prefetch to the report, with the handlers that may
  only move it once the event is set, whichever way the event is observed.
* `BaselineProofs`: `StatusAlwaysMatches`, `ResultsAreTheirs` and
  `RequestsInOnePlace`.  The invariant says of every
  worker that it carries at most one request, in exactly one of the places the
  request passes, in step with the place of the coordinator's task that deals
  with it (`WorkersCarry`), and of every request that it is in the queue once
  or with one worker, or in neither when it is not waiting.  A result may be
  taken by the next request's task only if an earlier one was still in the
  socket, which `WorkersCarry` excludes because a task that was given up keeps
  its worker busy.
* `BaselineProofs!PipelinesAlwaysFit`: `Spec => []PipelinesFit`, of the pipelines
  cached at the start, one after the other as long as they fit, and of every move.
  Memory is a sum over a finite set, which the library defines by taking one
  element out after the other; `FiniteSums` shows what such a sum is, by induction
  over the subsets of a finite set.  The library's induction theorems take an
  operator for parameter and cannot be used; a set of counterexamples does as
  well, as a set of natural numbers that is not empty has a least element.
* `ModelCacheProofs`: `TasksRunPatched`, `CacheStaysConsistent` and
  `EnsureAlwaysSucceeds`, all under `~EarlyTasks`: no task is executed before the
  preload is over, of which `PreloadsAlwaysFirst` shows only that the messages come
  in that order.  Run `ensure_race` shows that the last one fails without it.
  Under it one thread is under way at a time (`Alone`),
  and the invariant follows that thread: `Entries` and `OneCopy` say that each
  copy is an entry of a dictionary, except the one about to be entered, and that
  a model has one copy, with the patches its status names; `Places` says which
  entry is momentarily in both dictionaries, on the other device or not yet
  accounted; `Wanted` and `Held` say what the thread may rely on at its next
  step.  `CacheConsistent` speaks of threads that are idle or dead and says nothing
  of the steps in between, so all of these are needed.
* `ModelCacheProofs!RacingThreadsAgree`: `RoomForAll` implies
  `Spec => []CacheConsistent`, whatever `EarlyTasks` is.  Both threads may be under
  way at any steps, may move the same components at once, and either may find an
  entry gone and raise.  `RoomForAll` says that all models, what a running task
  adds, and the peak of one more task or preload fit the device; copies of
  different models never take more (`DistinctSum`), so nobody evicts (`RaceRoom`),
  and models only go from host memory to the device.  The invariant `RaceInv` does
  not order the threads.  `RacePlace` names, for each model, the step at which some
  thread must be while the model is in both dictionaries, on the device of the other
  one, or not yet accounted; `RaceHeld` says what a thread may still rely on after
  steps of the other; `RaceEntries` that a copy that is in no dictionary is the one
  the process thread is about to enter.  `RaceKept` is the frame argument every step
  uses.  Without `RoomForAll` the property fails (see the notes after the findings).
* `ModelCacheProofs!ModelInUseIsLast`: `~EarlyTasks` implies `Spec => []LruOrder`.
  That the order names the models on the device, each once (`Order`), is inductive
  by itself and kept by every step of either thread, whatever the preload
  (`OrderKept`); it rests on what removing an entry does to a sequence
  (`Unlinked`).  That its last entry is the model in use (`Recent`) holds because
  main is idle while a task is under way.
* `ModelCacheProofs!ModelsFitWhenLoaded`: `LoadedModelFits`, under `~EarlyTasks`
  and with no single preload larger than the device.  `RoomInv` carries, from look
  to look and from eviction to eviction, that `need` is what the copies on the
  device still leave too little; the code computes it once (`_evict_models_for_memory`)
  and subtracts each victim, and a loop that stops early or counts a victim twice
  breaks it.  The copies are summed with `FiniteSums`; as every one of them is live
  while only one thread is under way, the sum is what is allocated.
* `DenoisingProofs!UnrolledInOrder`, and from it `StepIndexFound`
  (`CallsFindTheirStepIndex`), `SamplesMatch` (`SamplesMatchTheirCall`),
  `BranchesCombine` (`GuidedStepCombinesItsBranches`) and `OvertakesOnce`
  (`OnlyFirstIterationOvertakes`).  The graph is only ever added to, but for the
  calls of the workflow that name the denoised latents (`Kept`), so what is known
  of an added call (`CallInv`) stays known, and each step of `unroll_workflow` has
  to establish it for one call.  That a call depends on another is said with the
  sets of calls that are closed under sources (`Reaches`), which needs no
  recursion, and the set of computed calls is one of them.  `Chained` says that a
  call of the scheduler depends on all earlier ones and is for the iteration the
  last of them has left; `IndexInv` and `Foremost` say so of the call to come and
  of the latents it will take, whichever variable holds them at that moment.
  `OrderInv` then relates the index the scheduler object has counted to the latest
  of its calls that has run.  The assumption is `ShapeAssumption` in `Unroll`:
  a workflow's calls are of no scheduler and on inputs, earlier calls or the
  denoised latents, its denoise node is on them, and a guidance scale comes with
  negative embeddings; TLC evaluates it on every registered workflow.

* `WorkerRuntimeProofs!ArrivalAlwaysSeen`: `Spec => []ArrivalSeen`.  The event and
  the tensor of one name are two dictionary entries, set in one order by the
  fetching thread and removed in the same by the getter.  A second arrival under
  the name between the getter's two steps would lose its event; `OnePlace` says
  that a name is in one place only, from its announcement or fetch to the getter's
  last step, and `FetchesFollow` that what is still to be fetched is not on its
  way.  `EventsRight` relates event and tensor at each position of both threads.
  The assumption is `AnnouncedOnce` in `WorkerRuntime`: a tensor is announced to a
  worker once, and not also fetched.  `_schedule_task_group` does one or the other
  for a task, and a sample of a ControlNet has one consumer.
* `WorkerRuntimeProofs!DrainedWhenReleased`: `QuietStops /\ Spec => []DrainedAtRelease`.
  `QuietStops` is a hypothesis, as the property fails without it (see the notes
  after the findings): tasks sent to a worker that is stopped submit nothing.
  `OneCallLeft` says what holds without: at most one call is left.

The proofs about `Serving` rest on one assumption, `EagerInputsAwaited` in
`Workflow`: the
producer of an eager input is a prerequisite that is awaited.  The code subtracts
*nodes*, so a node with an eager and a lazy input from one producer would be
scheduled before the eager one is there and fail in `_prepare_task_inputs`.  The
lazy inputs of the repository's workflows are the samples of ControlNets, whose
outputs are all taken lazily, so the assumption holds of what `workflow_unroll.py`
builds, and TLC evaluates it on the graphs of `MCServing`.

Model-checked only: `CopiesReleased`, which the findings show not to hold of
every workflow; and `CallsGetTheirArguments`, which compares argument lists
written out in `Operators`, `Pipelines` and `Clients`: `unroll` checks the
finite list of registered workflows completely.  Liveness under fairness stays
with TLC: it is beyond the prover.

## 6. Not modelled

The latency minimisation of the worker selection extension, abstracted to any
admissible worker.  Benchmarks, traces and scripts: sequential programs beside
the system.  The tensor computation of the operators.  Of the allocators only
the buddy allocator's waiting is modelled: its heap is vendored, and the backend
builds no other (`nvshmem_backend.cpp:202` is commented out).  Of startup, the
NVSHMEM bootstrap and the launching of processes.  Of the baselines, the
readiness handshake, the shutdown and `_load_model`, which nothing calls.
