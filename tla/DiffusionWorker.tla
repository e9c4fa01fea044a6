-------------------------- MODULE DiffusionWorker --------------------------
(***************************************************************************)
(* The workers.  On each, the task thread takes the task groups sent to it *)
(* one at a time, in order: it frees what the coordinator asked to free,   *)
(* collects the inputs, executes the operator, which may call for lazy     *)
(* inputs and, when it is a generator, announces outputs early, stores the *)
(* outputs and reports.  Beside it the fetching thread of the data engine  *)
(* serves lazy arrivals.                                                   *)
(*                                                                         *)
(* The main thread only moves a message to the queue of the thread that    *)
(* serves it, so a message stays in taskQueue or lazyQueue until then.     *)
(* Copies are never told apart by content: a buffer is named by request    *)
(* and tensor, and arena counts the allocations under each name.           *)
(***************************************************************************)
EXTENDS Coordinator

VARIABLES
    current,    \* [Worker -> [entries, lazy, yields]] the group in execution
    store,      \* [Worker -> SUBSET Buffer] tensor_map
    received,   \* [Worker -> SUBSET Buffer] data_engine.received_tensors
    arena,      \* [Worker -> [Buffer -> Nat]] allocated and not freed
    requestSchedulers  \* [Worker -> SUBSET Request]: the denoise schedulers

workerVars == <<current, store, received, arena, requestSchedulers>>

\* Everything of the coordinator but the two queues a worker step may change.
coordinatorSide ==
    <<loopVars, scheduleVars, requestVars, results, tensorVars, policyVars>>

WorkerTypeOK ==
    /\ current \in [Worker -> [entries : Seq(Entry), lazy : SUBSET Buffer,
                               yields : SUBSET Buffer]]
    /\ store \in [Worker -> SUBSET Buffer]
    /\ received \in [Worker -> SUBSET Buffer]
    /\ arena \in [Worker -> [Buffer -> Int]]
    /\ requestSchedulers \in [Worker -> SUBSET Request]

Idle == [entries |-> <<>>, lazy |-> {}, yields |-> {}]

WorkerInit ==
    /\ current = [w \in Worker |-> Idle]
    /\ store = [w \in Worker |-> {}]
    /\ received = [w \in Worker |-> {}]
    /\ arena = [w \in Worker |-> [b \in Buffer |-> 0]]
    /\ requestSchedulers = [w \in Worker |-> {}]

BuffersOf(e, tensors) == { [req |-> e.req, tensor |-> t] : t \in tensors }

\* The inputs of e that are only on other workers.
Remote(e, w) == { t \in Tensor : e.at[t] # {} /\ w \notin e.at[t] }

\* What one group asks of the arena of w for b: a fetch per task that needs it.
Fetches(entries, w, b) ==
    Cardinality({ i \in DOMAIN entries :
                    b \in BuffersOf(entries[i], Remote(entries[i], w)) })

\* _load_scheduler makes the denoise scheduler of each request that has none yet.
LoadedSchedulers(entries) ==
    { entries[i].req : i \in { j \in DOMAIN entries : entries[j].node \in SchedulerOp } }

OverEntries(entries, F(_)) == UNION { F(entries[i]) : i \in DOMAIN entries }

\* Mutant: the memory is freed, the tensor map still has the tensor.
StoreAfterFree_Kept(w, freed) == store[w]

\* Phase 0 drops the tensors it frees from the tensor map.
StoreAfterFree(w, freed) == store[w] \ freed

(***************************************************************************)
(* process_task up to the execution: free the listed tensors this worker   *)
(* has, fetch every remote input, each into a buffer of its own, and make  *)
(* the request's denoise scheduler, unless it exists, for a scheduler      *)
(* step.  A fetch is synchronous; all of it is one step here.              *)
(***************************************************************************)
StartGroup(w) ==
    /\ current[w].entries = <<>> /\ taskQueue[w] # <<>>
    /\ LET entries == Head(taskQueue[w]).entries
           freed == Head(taskQueue[w]).free \cap store[w]
           fetched == OverEntries(entries, LAMBDA e : BuffersOf(e, Remote(e, w)))
       IN  /\ store' = [store EXCEPT ![w] = StoreAfterFree(w, freed) \cup fetched]
           /\ arena' = [arena EXCEPT ![w] = [b \in Buffer |->
                @[b] - (IF b \in freed THEN 1 ELSE 0) + Fetches(entries, w, b)]]
           /\ current' = [current EXCEPT ![w] =
                [entries |-> entries,
                 lazy |-> OverEntries(entries, LAMBDA e : BuffersOf(e, e.lazy)),
                 yields |-> OverEntries(entries, LAMBDA e :
                    IF e.node \in Generator THEN BuffersOf(e, Outputs(e.node)) ELSE {})]]
           /\ requestSchedulers' =
                [requestSchedulers EXCEPT ![w] = @ \cup LoadedSchedulers(entries)]
    /\ taskQueue' = [taskQueue EXCEPT ![w] = Tail(@)]
    /\ UNCHANGED <<coordinatorSide, lazyQueue, resultQueue, received>>

\* FetchingThread on a lazy arrival: copy it in, keep it under its name.
FetchLazy(w) ==
    \E m \in lazyQueue[w] :
        LET b == [req |-> m.req, tensor |-> m.tensor]
        IN  /\ lazyQueue' = [lazyQueue EXCEPT ![w] = @ \ {m}]
            /\ received' = [received EXCEPT ![w] = @ \cup {b}]
            /\ arena' = [arena EXCEPT ![w][b] = @ + 1]
            /\ UNCHANGED <<coordinatorSide, taskQueue, resultQueue, current, store,
                           requestSchedulers>>

(***************************************************************************)
(* lazy_acquisition_func: the operator calls for a lazy input.  It is in   *)
(* the tensor map already, or it is taken from the data engine, whose get  *)
(* blocks until the tensor has arrived.                                    *)
(***************************************************************************)
AcquireLazy(w) ==
    \E b \in current[w].lazy :
        /\ b \in store[w] \/ b \in received[w]
        /\ current' = [current EXCEPT ![w].lazy = @ \ {b}]
        /\ received' = IF b \in store[w] THEN received
                       ELSE [received EXCEPT ![w] = @ \ {b}]
        /\ store' = [store EXCEPT ![w] = @ \cup {b}]
        /\ UNCHANGED <<coordinatorSide, channelVars, arena, requestSchedulers>>

Allocated(w, buffers) ==
    [arena EXCEPT ![w] = [b \in Buffer |-> IF b \in buffers THEN @[b] + 1 ELSE @[b]]]

\* A generator yields one more output of every task of the group: store it
\* and send tensor_batch_ready.
YieldOutput(w) ==
    \E buffers \in SUBSET current[w].yields :
        /\ \A i \in DOMAIN current[w].entries :
             \E b \in buffers : buffers \cap BuffersOf(current[w].entries[i],
                                  Outputs(current[w].entries[i].node)) = {b}
        /\ current[w].entries # <<>>
        /\ current' = [current EXCEPT ![w].yields = @ \ buffers]
        /\ store' = [store EXCEPT ![w] = @ \cup buffers]
        /\ arena' = Allocated(w, buffers)
        /\ resultQueue' = [resultQueue EXCEPT ![w] = Append(@,
             [type |-> "tensor_batch_ready", buffers |-> buffers])]
        /\ UNCHANGED <<coordinatorSide, taskQueue, lazyQueue, received,
                       requestSchedulers>>

\* Outputs stored in phase 3: those the generator has not announced.
LateOutputs(e) == IF e.node \in Generator THEN {} ELSE Outputs(e.node)

\* Mutant: the copies it fetched are not reported.
Reported_OwnOutputs(e, w) == LateOutputs(e)

\* tensor_infos: the tensors w now holds because of e.
Reported(e, w) == Remote(e, w) \cup e.lazy \cup LateOutputs(e)

(***************************************************************************)
(* Phases 3 and 4: store the outputs and send task_complete with the       *)
(* tensors this worker now holds because of the group: what it fetched,    *)
(* the lazy inputs it acquired and the outputs not yet announced.          *)
(***************************************************************************)
CompleteGroup(w) ==
    /\ current[w].entries # <<>>
    /\ current[w].lazy = {} /\ current[w].yields = {}
    /\ LET entries == current[w].entries
           new == OverEntries(entries, LAMBDA e : BuffersOf(e, LateOutputs(e)))
       IN  /\ store' = [store EXCEPT ![w] = @ \cup new]
           /\ arena' = Allocated(w, new)
           /\ resultQueue' = [resultQueue EXCEPT ![w] = Append(@,
                [type |-> "task_complete",
                 data |-> [i \in DOMAIN entries |->
                    [req |-> entries[i].req, node |-> entries[i].node,
                     tensors |-> Reported(entries[i], w)]]])]
    /\ current' = [current EXCEPT ![w] = Idle]
    /\ UNCHANGED <<coordinatorSide, taskQueue, lazyQueue, received,
                       requestSchedulers>>

WorkerNext ==
    \E w \in Worker :
        StartGroup(w) \/ FetchLazy(w) \/ AcquireLazy(w) \/ YieldOutput(w)
            \/ CompleteGroup(w)
=============================================================================
