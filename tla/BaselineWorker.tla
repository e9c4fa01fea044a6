--------------------------- MODULE BaselineWorker ---------------------------
(***************************************************************************)
(* A worker of the baseline systems (src/baselines/worker.py): one thread  *)
(* that runs whole pipelines, one request after the other. Under Clockwork *)
(* it keeps the pipelines placed on it in host memory and those that fit   *)
(* on the GPU, and offloads the least recently used ones for the next.     *)
(***************************************************************************)
EXTENDS Integers, Sequences, SequencesExt, FiniteSetsExt

CONSTANTS
    Request, Pipeline,
    Worker,      \* the global ranks of the workers
    PipelineOf,  \* [Request -> Pipeline], pipeline_name
    Placed,      \* [Worker -> Seq(Pipeline)], its pipelines in the order of the config
    Size,        \* [Pipeline -> Nat], PIPELINE_GPU_MEMORY_SIZE
    Memory,      \* gpu_memory_size
    Fates,       \* what the processing of the requests may meet, among
                 \* [Request -> {"fine", "raises", "overlong"}]
    None

ASSUME BaselineWorkerAssumption ==
    /\ Worker \subseteq Nat
    /\ PipelineOf \in [Request -> Pipeline]
    /\ Placed \in [Worker -> Seq(Pipeline)]
    /\ Size \in [Pipeline -> Nat] /\ Memory \in Nat
    /\ Fates \subseteq [Request -> {"fine", "raises", "overlong"}]
    /\ None \notin Request

VARIABLES
    baseline,  \* baseline_name: "basic", as "shepherd" is to a worker, or "clockwork"
    fate,      \* what the processing of each request meets, one of Fates
    onGpu,     \* [Worker -> SUBSET Pipeline]
    age,       \* [Worker -> Seq(Pipeline)] by pipeline_reference_timestamp
    inbox,     \* [Worker -> Seq(Request)] its task socket
    running,   \* [Worker -> Request \cup {None}] the request in _process_task
    outbox     \* [Worker -> Seq(Request)] its result socket

workerVars == <<baseline, fate, onGpu, age, inbox, running, outbox>>

Usage(pipelines) == MapThenSumSet(LAMBDA p : Size[p], pipelines)

\* Mutant: the new pipeline is not counted.
Fits_WithoutIt(pipelines, p) == Usage(pipelines) <= Memory

Fits(pipelines, p) == Usage(pipelines) + Size[p] <= Memory

\* __init__ moves one pipeline after the other to the GPU while there is room.
Cached(w) ==
    FoldLeft(LAMBDA cached, p : IF Fits(cached, p) THEN cached \cup {p} ELSE cached,
             {}, Placed[w])

WorkerInit ==
    /\ baseline \in {"basic", "clockwork"}
    /\ fate \in Fates
    /\ onGpu = [w \in Worker |-> IF baseline = "clockwork" THEN Cached(w)
                                 ELSE ToSet(Placed[w])]
    /\ age = Placed
    /\ inbox = [w \in Worker |-> <<>>]
    /\ running = [w \in Worker |-> None]
    /\ outbox = [w \in Worker |-> <<>>]

\* The pipelines that make room for p: the shortest run of the least recently
\* used ones that is enough, or all of them.
Offloaded(w, p) ==
    LET byAge == SelectSeq(age[w], LAMBDA q : q \in onGpu[w])
        Oldest(k) == ToSet(SubSeq(byAge, 1, k))
        enough == { k \in 0..Len(byAge) : Fits(onGpu[w] \ Oldest(k), p) }
    IN  Oldest(IF enough # {} THEN Min(enough) ELSE Len(byAge))

OnGpuFor(w, p) ==
    IF baseline # "clockwork" \/ p \in onGpu[w] THEN onGpu[w]
    ELSE IF Fits(onGpu[w] \ Offloaded(w, p), p)
         THEN (onGpu[w] \ Offloaded(w, p)) \cup {p} ELSE onGpu[w] \ Offloaded(w, p)

\* _process_task up to the call of the pipeline. An exception is caught by the
\* loop of the worker, and then nothing is sent back.
StartTask(w) ==
    /\ running[w] = None /\ inbox[w] # <<>>
    /\ inbox' = [inbox EXCEPT ![w] = Tail(@)]
    /\ LET r == Head(inbox[w])
           p == PipelineOf[r]
           loaded == p \in OnGpuFor(w, p)
       IN  /\ onGpu' = [onGpu EXCEPT ![w] = OnGpuFor(w, p)]
           /\ age' = IF baseline = "clockwork" /\ loaded
                     THEN [age EXCEPT ![w] = Append(Remove(@, p), p)] ELSE age
           /\ running' = IF loaded /\ fate[r] # "raises"
                         THEN [running EXCEPT ![w] = r] ELSE running
    /\ UNCHANGED <<baseline, fate, outbox>>

\* The images are serialised and sent.
CompleteTask(w) ==
    /\ running[w] # None
    /\ outbox' = [outbox EXCEPT ![w] = Append(@, running[w])]
    /\ running' = [running EXCEPT ![w] = None]
    /\ UNCHANGED <<baseline, fate, onGpu, age, inbox>>
=============================================================================
