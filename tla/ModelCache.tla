----------------------------- MODULE ModelCache -----------------------------
(***************************************************************************)
(* The models of one worker: gpu_models, an LRU-ordered dictionary of the  *)
(* models on the device, cpu_models, the ones in host memory, and the      *)
(* patches applied to them.  Two threads change them without a lock: the   *)
(* process thread, which ensures the model of each task group is on the    *)
(* device and runs it, and the main thread, which serves the coordinator's *)
(* model_loading messages.  A step is one access to a shared dictionary,   *)
(* or one move of a model between the memories.                            *)
(*                                                                         *)
(* The state begins where prefetching_complete_event is set: main waits    *)
(* for it, and the process thread then takes its first task.  Tasks of     *)
(* schedulers and of operators without a model path do not come here.      *)
(***************************************************************************)
EXTENDS Integers, Sequences, FiniteSets, SequencesExt, FiniteSetsExt

CONSTANTS
    Model,       \* model ids
    Patch,       \* patch ids
    Base,        \* [Model -> Nat] gpu_memory_required: the parameters
    PreloadPeak, \* [Model -> Nat] gpu_memory_used of a model_loading message
    Task,        \* task groups: [model, peak (gpu_memory_used), patches]
    Prefetched,  \* models of the prefetch config
    Preload,     \* models of the coordinator's preload config, in order
    Capacity,    \* available_gpu_memory
    EarlyTasks,  \* whether task groups may come before the preload is over
    TaskBound,   \* bound: task groups processed
    CopyBound    \* bound: copies of models ever initialised

Thread == {"main", "process"}

ASSUME ModelCacheAssumption ==
    /\ Base \in [Model -> Nat \ {0}] /\ PreloadPeak \in [Model -> Nat]
    /\ Task \subseteq [model : Model, peak : Nat, patches : SUBSET Patch]
    /\ \A t \in Task : t.peak >= Base[t.model]
    /\ Prefetched \subseteq Model /\ IsFiniteSet(Prefetched) /\ Preload \in Seq(Model)
    /\ EarlyTasks \in BOOLEAN
    /\ Capacity \in Nat /\ TaskBound \in Nat /\ CopyBound \in Nat

VARIABLES
    copies,      \* the initialised components: [model, device, patches]
    cpuModels,   \* [SUBSET Model -> copy] cpu_models
    gpuModels,   \* [SUBSET Model -> copy] gpu_models
    lru,         \* the keys of gpu_models, least recently used first
    usage,       \* [Model -> Nat] model_memory_usage, 0 without an entry
    patchStatus, \* [Model -> SUBSET Patch] model_patch_status
    pc, frame,   \* per thread: the next step and its local variables
    preload,     \* model_loading messages not yet handled
    tasksLeft

vars == <<copies, cpuModels, gpuModels, lru, usage, patchStatus, pc, frame,
          preload, tasksLeft>>

dicts == <<cpuModels, gpuModels, lru, usage, patchStatus>>

-----------------------------------------------------------------------------
NoFrame == [task |-> CHOOSE t \in Task : TRUE, need |-> 0, then |-> "move",
            victim |-> CHOOSE m \in Model : TRUE, copy |-> 0]

Without(f, m) == [n \in DOMAIN f \ {m} |-> f[n]]

With(f, m, c) == [n \in DOMAIN f \cup {m} |-> IF n = m THEN c ELSE f[n]]

\* Mutant: a hit leaves the model at its place, so the oldest one is evicted.
MoveToEnd_Stays(m) == IF m \in ToSet(lru) THEN lru ELSE Append(lru, m)

MoveToEnd(m) == Append(RemoveFirst(lru, m), m)

\* A copy nobody refers to is garbage, and its memory is free.
Live(c) ==
    \/ \E m \in DOMAIN gpuModels : gpuModels[m] = c
    \/ \E m \in DOMAIN cpuModels : cpuModels[m] = c
    \/ \E t \in Thread : frame[t].copy = c /\ pc[t] # "idle"

Activations ==
    IF pc["process"] = "execute"
    THEN frame["process"].task.peak - Base[frame["process"].task.model]
    ELSE 0

\* torch.cuda.memory_allocated: live parameters, and what a running model adds.
Allocated ==
    MapThenSumSet(LAMBDA c : Base[copies[c].model],
                  { c \in DOMAIN copies : Live(c) /\ copies[c].device = "gpu" })
    + Activations

(***************************************************************************)
(* An exception: main logs it and answers all the same; nothing catches it *)
(* in ProcessTaskThread.run, whose thread ends.                            *)
(***************************************************************************)
Raises(t) == pc' = [pc EXCEPT ![t] = IF t = "main" THEN "respond" ELSE "dead"]

Goto(t, step) == pc' = [pc EXCEPT ![t] = step]

ModelOf(t) == frame[t].task.model

-----------------------------------------------------------------------------
\* Prefetched models are in host memory; nothing is on the device.
Init ==
    /\ copies = SetToSeq([model : Prefetched, device : {"cpu"}, patches : {{}}])
    /\ cpuModels = [m \in Prefetched |->
                      CHOOSE c \in DOMAIN copies : copies[c].model = m]
    /\ gpuModels = [m \in {} |-> 0]
    /\ lru = <<>>
    /\ usage = [m \in Model |-> 0]
    /\ patchStatus = [m \in Model |-> {}]
    /\ pc = [t \in Thread |-> "idle"]
    /\ frame = [t \in Thread |-> NoFrame]
    /\ preload = Preload
    /\ tasksLeft = TaskBound

\* _handle_model_loading calls _move_model_to_gpu.
HandleModelLoading ==
    /\ pc["main"] = "idle" /\ preload # <<>>
    /\ frame' = [frame EXCEPT !["main"] =
                   [NoFrame EXCEPT !.task = [model |-> Head(preload),
                      peak |-> PreloadPeak[Head(preload)], patches |-> {}]]]
    /\ preload' = Tail(preload)
    /\ Goto("main", "check")
    /\ UNCHANGED <<copies, dicts, tasksLeft>>

RespondModelLoading ==
    /\ pc["main"] = "respond"
    /\ Goto("main", "idle")
    /\ UNCHANGED <<copies, dicts, frame, preload, tasksLeft>>

\* _validate_memory_availability
IsValid(task) == task.peak <= Capacity

\* What an operator waits for who starts the clients late enough.
PreloadOver == preload = <<>> /\ pc["main"] = "idle"

\* process_task reaches _ensure_model_in_gpu.
EnsureModel(task) ==
    /\ pc["process"] = "idle" /\ tasksLeft > 0
    /\ EarlyTasks \/ PreloadOver
    /\ tasksLeft' = tasksLeft - 1
    /\ frame' = [frame EXCEPT !["process"] = [NoFrame EXCEPT !.task = task]]
    /\ IF ~IsValid(task) THEN Raises("process")
       ELSE IF task.model \in DOMAIN gpuModels THEN Goto("process", "touch")
       ELSE Goto("process", "findCpu")
    /\ UNCHANGED <<copies, dicts, preload>>

FindOnCpu ==
    /\ pc["process"] = "findCpu"
    /\ IF ModelOf("process") \in DOMAIN cpuModels
       THEN Goto("process", "check") /\ UNCHANGED frame
       ELSE /\ Goto("process", "room")
            /\ frame' = [frame EXCEPT !["process"].then = "load"]
    /\ UNCHANGED <<copies, dicts, preload, tasksLeft>>

\* A hit: gpu_models.move_to_end, which raises for a key that is gone.
Touch ==
    /\ pc["process"] = "touch"
    /\ IF ModelOf("process") \in DOMAIN gpuModels
       THEN lru' = MoveToEnd(ModelOf("process")) /\ Goto("process", "use")
       ELSE Raises("process") /\ UNCHANGED lru
    /\ UNCHANGED <<copies, cpuModels, gpuModels, usage, patchStatus, frame,
                   preload, tasksLeft>>

-----------------------------------------------------------------------------
\* _move_model_to_gpu, up to the eviction
CheckOnCpu(t) ==
    /\ pc[t] = "check"
    /\ IF ModelOf(t) \in DOMAIN cpuModels THEN Goto(t, "room") ELSE Raises(t)
    /\ UNCHANGED <<copies, dicts, frame, preload, tasksLeft>>

\* Mutant: room is made for the parameters only.
Shortage_BaseOnly(task) == Base[task.model] - (Capacity - Allocated)

\* What the eviction must free for the task's peak to fit.
Shortage(task) == task.peak - (Capacity - Allocated)

MeasureRoom(t) ==
    /\ pc[t] = "room"
    /\ frame' = [frame EXCEPT ![t].need = Shortage(frame[t].task)]
    /\ Goto(t, IF Shortage(frame[t].task) > 0 THEN "evict" ELSE frame[t].then)
    /\ UNCHANGED <<copies, dicts, preload, tasksLeft>>

\* The loop of _evict_models_for_memory.
EvictNext(t) ==
    /\ pc[t] = "evict"
    /\ IF frame[t].need > 0 /\ lru # <<>>
       THEN /\ frame' = [frame EXCEPT ![t].victim = Head(lru),
                                      ![t].need = @ - usage[Head(lru)]]
            /\ Goto(t, "demote")
       ELSE Goto(t, frame[t].then) /\ UNCHANGED frame
    /\ UNCHANGED <<copies, dicts, preload, tasksLeft>>

\* _move_model_to_cpu: nothing when the victim is gone, else the transfer.
Demote(t) ==
    /\ pc[t] = "demote"
    /\ LET v == frame[t].victim IN
       IF v \in DOMAIN gpuModels
       THEN /\ frame' = [frame EXCEPT ![t].copy = gpuModels[v]]
            /\ copies' = [copies EXCEPT ![gpuModels[v]].device = "cpu"]
            /\ Goto(t, "store")
       ELSE Goto(t, "evict") /\ UNCHANGED <<frame, copies>>
    /\ UNCHANGED <<dicts, preload, tasksLeft>>

\* Mutant: the evicted model is not kept in host memory.
Stored_Dropped(t) == cpuModels

Stored(t) == With(cpuModels, frame[t].victim, frame[t].copy)

StoreOnCpu(t) ==
    /\ pc[t] = "store"
    /\ cpuModels' = Stored(t)
    /\ Goto(t, "drop")
    /\ UNCHANGED <<copies, gpuModels, lru, usage, patchStatus, frame, preload,
                   tasksLeft>>

DropFromGpu(t) ==
    /\ pc[t] = "drop"
    /\ LET v == frame[t].victim IN
       IF v \in DOMAIN gpuModels
       THEN /\ gpuModels' = Without(gpuModels, v)
            /\ lru' = RemoveFirst(lru, v)
            /\ usage' = [usage EXCEPT ![v] = 0]
            /\ Goto(t, "evict")
       ELSE Raises(t) /\ UNCHANGED <<gpuModels, lru, usage>>
    /\ UNCHANGED <<copies, cpuModels, patchStatus, frame, preload, tasksLeft>>

-----------------------------------------------------------------------------
\* _move_model_to_gpu, after the eviction: the transfer ...
Transfer(t) ==
    /\ pc[t] = "move"
    /\ LET m == ModelOf(t) IN
       IF m \in DOMAIN cpuModels
       THEN /\ frame' = [frame EXCEPT ![t].copy = cpuModels[m]]
            /\ copies' = [copies EXCEPT ![cpuModels[m]].device = "gpu"]
            /\ Goto(t, "publish")
       ELSE Raises(t) /\ UNCHANGED <<frame, copies>>
    /\ UNCHANGED <<dicts, preload, tasksLeft>>

\* ... the entry in gpu_models, as the most recently used ...
Publish(t) ==
    /\ pc[t] = "publish"
    /\ gpuModels' = With(gpuModels, ModelOf(t), frame[t].copy)
    /\ lru' = MoveToEnd(ModelOf(t))
    /\ Goto(t, "retire")
    /\ UNCHANGED <<copies, cpuModels, usage, patchStatus, frame, preload,
                   tasksLeft>>

\* ... the end of the one in cpu_models ...
Retire(t) ==
    /\ pc[t] = "retire"
    /\ IF ModelOf(t) \in DOMAIN cpuModels
       THEN cpuModels' = Without(cpuModels, ModelOf(t)) /\ Goto(t, "account")
       ELSE Raises(t) /\ UNCHANGED cpuModels
    /\ UNCHANGED <<copies, gpuModels, lru, usage, patchStatus, frame, preload,
                   tasksLeft>>

\* ... and the bookkeeping.
Account(t) ==
    /\ pc[t] = "account"
    /\ usage' = [usage EXCEPT ![ModelOf(t)] = Base[ModelOf(t)]]
    /\ Goto(t, IF t = "main" THEN "respond" ELSE "use")
    /\ UNCHANGED <<copies, cpuModels, gpuModels, lru, patchStatus, frame,
                   preload, tasksLeft>>

-----------------------------------------------------------------------------
\* The fallback of _ensure_model_in_gpu: _load_model onto the device, or only
\* a hit when the model came back during the eviction.
LoadModel ==
    /\ pc["process"] = "load"
    /\ LET m == ModelOf("process") IN
       IF m \in DOMAIN gpuModels
       THEN lru' = MoveToEnd(m) /\ Goto("process", "account") /\ UNCHANGED <<copies, frame>>
       ELSE /\ Len(copies) < CopyBound
            /\ copies' = Append(copies, [model |-> m, device |-> "gpu",
                                         patches |-> {}])
            /\ frame' = [frame EXCEPT !["process"].copy = Len(copies) + 1]
            /\ Goto("process", "enter")
            /\ UNCHANGED lru
    /\ UNCHANGED <<cpuModels, gpuModels, usage, patchStatus, preload, tasksLeft>>

EnterLoaded ==
    /\ pc["process"] = "enter"
    /\ LET m == ModelOf("process") IN
       gpuModels' = With(gpuModels, m, frame["process"].copy) /\ lru' = MoveToEnd(m)
    /\ Goto("process", "account")
    /\ UNCHANGED <<copies, cpuModels, usage, patchStatus, frame, preload,
                   tasksLeft>>

\* process_task reads gpu_models[model_id].
UseModel ==
    /\ pc["process"] = "use"
    /\ LET m == ModelOf("process") IN
       IF m \in DOMAIN gpuModels
       THEN /\ frame' = [frame EXCEPT !["process"].copy = gpuModels[m]]
            /\ Goto("process", "patch")
       ELSE Raises("process") /\ UNCHANGED frame
    /\ UNCHANGED <<copies, dicts, preload, tasksLeft>>

\* Mutant: patches of earlier tasks stay on the model.
Unneeded_None(m, needed) == {}

\* The patches _remove_unnecessary_patches turns off.
Unneeded(m, needed) == patchStatus[m] \ needed

\* The patches _apply_necessary_patches turns on.
Missing(m, needed) == needed \ patchStatus[m]

\* _remove_unnecessary_patches, _apply_necessary_patches: this thread only.
ApplyPatches ==
    /\ pc["process"] = "patch"
    /\ LET m == ModelOf("process")
           needed == frame["process"].task.patches
           Patched(S) == (S \ Unneeded(m, needed)) \cup Missing(m, needed)
       IN  /\ copies' = [copies EXCEPT ![frame["process"].copy].patches = Patched(@)]
           /\ patchStatus' = [patchStatus EXCEPT ![m] = Patched(@)]
    /\ Goto("process", "execute")
    /\ UNCHANGED <<cpuModels, gpuModels, lru, usage, frame, preload, tasksLeft>>

\* model.execute returns.
FinishTask ==
    /\ pc["process"] = "execute"
    /\ Goto("process", "idle")
    /\ UNCHANGED <<copies, dicts, frame, preload, tasksLeft>>

-----------------------------------------------------------------------------
MoveToGpu(t) ==
    \/ CheckOnCpu(t) \/ MeasureRoom(t)
    \/ EvictNext(t) \/ Demote(t) \/ StoreOnCpu(t) \/ DropFromGpu(t)
    \/ Transfer(t) \/ Publish(t) \/ Retire(t) \/ Account(t)

MainStep == HandleModelLoading \/ MoveToGpu("main") \/ RespondModelLoading

ProcessStep ==
    \/ \E task \in Task : EnsureModel(task)
    \/ FindOnCpu \/ Touch \/ MoveToGpu("process")
    \/ LoadModel \/ EnterLoaded
    \/ UseModel \/ ApplyPatches \/ FinishTask

Next == MainStep \/ ProcessStep

Spec == Init /\ [][Next]_vars

-----------------------------------------------------------------------------
(***************************************************************************)
(* The order of use names exactly the models on the device, each once, and *)
(* the model of the running task is the most recently used one, whether it *)
(* was hit, moved there or initialised: an eviction for the next task      *)
(* comes to it last (_ensure_model_in_gpu, _evict_models_for_memory).      *)
(***************************************************************************)
LruOrder ==
    /\ ToSet(lru) = DOMAIN gpuModels /\ IsInjective(lru)
    /\ pc["process"] \in {"use", "patch", "execute"} => Last(lru) = ModelOf("process")

(***************************************************************************)
(* A task runs with exactly the patches of its node, though the status is  *)
(* kept per model id and the patches live in the components, which move    *)
(* between the memories as models are evicted and come back.               *)
(***************************************************************************)
RunsWithItsPatches ==
    pc["process"] = "execute" =>
        copies[frame["process"].copy].patches = frame["process"].task.patches

(***************************************************************************)
(* When a model has just been moved in or loaded for a task, the working   *)
(* set of the task fits the memory left to models                          *)
(* (_evict_models_for_memory).                                             *)
(***************************************************************************)
LoadedModelFits ==
    \A t \in Thread : pc[t] \in {"publish", "enter"} =>
        Allocated - Base[ModelOf(t)] + frame[t].task.peak <= Capacity

(***************************************************************************)
(* Between tasks the dictionaries agree: a model is in one of them, on the *)
(* device that one is for, is accounted for exactly when on the device,    *)
(* and is never initialised twice; and so an exception that ends the       *)
(* process thread leaves them.                                             *)
(***************************************************************************)
CacheConsistent ==
    (\A t \in Thread : pc[t] \in {"idle", "dead"}) =>
        /\ DOMAIN cpuModels \cap DOMAIN gpuModels = {}
        /\ Prefetched \subseteq DOMAIN cpuModels \cup DOMAIN gpuModels
        /\ \A m \in DOMAIN cpuModels : copies[cpuModels[m]].device = "cpu"
        /\ \A m \in DOMAIN gpuModels : copies[gpuModels[m]].device = "gpu"
        /\ \A m \in Model :
             usage[m] = IF m \in DOMAIN gpuModels THEN Base[m] ELSE 0
        /\ \A c, d \in DOMAIN copies : copies[c].model = copies[d].model => c = d

(***************************************************************************)
(* _ensure_model_in_gpu succeeds for a model that fits the device: no      *)
(* exception ends the process thread.                                      *)
(***************************************************************************)
EnsureSucceeds == IsValid(frame["process"].task) => pc["process"] # "dead"
=============================================================================
