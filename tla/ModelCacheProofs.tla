-------------------------- MODULE ModelCacheProofs --------------------------
(***************************************************************************)
(* Theorems about ModelCache, for any models, tasks, patches, preloads and *)
(* memory.  The first part is about tasks that come after the preload:     *)
(* ~EarlyTasks.  Only one of the two threads is then ever under way, and   *)
(* the inductive invariant follows it: which model it wants, which it      *)
(* evicts, and which entry of the dictionaries is for the moment in        *)
(* neither or both of them.  The last part, from RaceInv on, lets both     *)
(* threads be under way, where all models have room.                       *)
(***************************************************************************)
EXTENDS ModelCache, FiniteSums

ProcessSteps == {"findCpu", "touch", "load", "enter", "use", "patch", "execute", "dead"}

SharedSteps == {"check", "room", "evict", "demote", "store", "drop", "move",
                "publish", "retire", "account"}

Steps == ProcessSteps \cup SharedSteps \cup {"idle", "respond"}

Copy == [model : Model, device : {"cpu", "gpu"}, patches : SUBSET Patch]

Fields == {"task", "need", "then", "victim", "copy"}

\* The thread that is under way, its step, its frame and the model it wants.
busy == IF pc["main"] # "idle" THEN "main" ELSE "process"
step == pc[busy]
fr == frame[busy]
wanted == fr.task.model

-----------------------------------------------------------------------------
Typed ==
    /\ copies \in Seq(Copy)
    /\ usage \in [Model -> Int] /\ patchStatus \in [Model -> SUBSET Patch]
    /\ pc \in [Thread -> Steps] /\ preload \in Seq(Model)
    /\ DOMAIN frame = Thread /\ \A t \in Thread : DOMAIN frame[t] = Fields
    /\ step # "idle" => wanted \in Model /\ fr.task.patches \subseteq Patch

\* A task is under way only when the preload is over.
Alone == pc["process"] # "idle" => pc["main"] = "idle" /\ preload = <<>>

\* The entries of the two dictionaries, and the copies that are in neither.
Entries ==
    /\ DOMAIN cpuModels \subseteq Model /\ DOMAIN gpuModels \subseteq Model
    /\ \A m \in DOMAIN cpuModels :
         cpuModels[m] \in DOMAIN copies /\ copies[cpuModels[m]].model = m
    /\ \A m \in DOMAIN gpuModels :
         gpuModels[m] \in DOMAIN copies /\ copies[gpuModels[m]].model = m
    /\ \A c \in DOMAIN copies :
         \/ copies[c].model \in DOMAIN cpuModels \cup DOMAIN gpuModels
         \/ step = "enter" /\ fr.copy = c
    /\ Prefetched \subseteq DOMAIN cpuModels \cup DOMAIN gpuModels

\* A model has one copy, which carries the patches that its status names.
OneCopy ==
    /\ \A c, d \in DOMAIN copies : copies[c].model = copies[d].model => c = d
    /\ \A c \in DOMAIN copies : copies[c].patches = patchStatus[copies[c].model]
    /\ \A m \in Model : m \notin DOMAIN cpuModels \cup DOMAIN gpuModels => patchStatus[m] = {}

\* Where the copies are, and what is accounted, while a model is moved.
Places ==
    /\ \A m \in DOMAIN gpuModels :
         copies[gpuModels[m]].device = "gpu" \/ (step \in {"store", "drop"} /\ m = fr.victim)
    /\ \A m \in DOMAIN cpuModels :
         copies[cpuModels[m]].device = "cpu" \/ (step \in {"publish", "retire"} /\ m = wanted)
    /\ \A m \in DOMAIN cpuModels \cap DOMAIN gpuModels :
         (step = "drop" /\ m = fr.victim) \/ (step = "retire" /\ m = wanted)
    /\ \A m \in Model :
         \/ usage[m] = IF m \in DOMAIN gpuModels THEN Base[m] ELSE 0
         \/ step \in {"retire", "account"} /\ m = wanted

\* What a thread may rely on at its next step: where the model it wants is,
Wanted ==
    /\ step \in {"findCpu", "room", "evict", "demote", "store", "drop", "move", "load",
                 "publish", "enter"} => wanted \notin DOMAIN gpuModels
    /\ step \in {"check", "findCpu"} => fr.then = "move"
    /\ step = "check" /\ busy = "process" => wanted \in DOMAIN cpuModels
    /\ step \in {"room", "evict", "demote", "store", "drop"} =>
         \/ fr.then = "move" /\ wanted \in DOMAIN cpuModels
         \/ fr.then = "load" /\ wanted \notin DOMAIN cpuModels /\ busy = "process"
    /\ step \in {"load", "enter"} => wanted \notin DOMAIN cpuModels
    /\ step \in {"move", "publish", "retire"} => wanted \in DOMAIN cpuModels
    /\ step \in {"retire", "account", "touch", "use", "patch", "execute"} =>
         wanted \in DOMAIN gpuModels
    /\ step \in ProcessSteps => busy = "process"
    /\ step = "dead" => ~IsValid(fr.task)

\* ... and which copy it holds.
Held ==
    /\ step \in {"store", "drop"} =>
         /\ fr.victim \in DOMAIN gpuModels /\ fr.copy = gpuModels[fr.victim]
         /\ copies[fr.copy].device = "cpu"
    /\ step = "drop" => fr.victim \in DOMAIN cpuModels /\ cpuModels[fr.victim] = fr.copy
    /\ step \in {"publish", "retire"} =>
         fr.copy = cpuModels[wanted] /\ copies[fr.copy].device = "gpu"
    /\ step = "retire" => gpuModels[wanted] = fr.copy
    /\ step = "enter" => /\ fr.copy \in DOMAIN copies
                         /\ copies[fr.copy] = [model |-> wanted, device |-> "gpu",
                                               patches |-> {}]
    /\ step \in {"patch", "execute"} => fr.copy = gpuModels[wanted]
    /\ step = "execute" => copies[fr.copy].patches = fr.task.patches

IInv == Typed /\ Alone /\ Entries /\ OneCopy /\ Places /\ Wanted /\ Held

-----------------------------------------------------------------------------
\* A step of the thread under way, to another step of its own.
LEMMA View ==
    ASSUME Typed, Alone, NEW t \in Thread, pc[t] # "idle",
           NEW s, s # "idle", pc' = [pc EXCEPT ![t] = s], preload' = preload
    PROVE  /\ busy = t /\ step = pc[t] /\ fr = frame[t] /\ wanted = ModelOf(t)
           /\ busy' = t /\ step' = s /\ fr' = frame'[t] /\ wanted' = frame'[t].task.model
           /\ Alone'
<1>1. /\ pc \in [Thread -> Steps] /\ pc' \in [Thread -> Steps \cup {s}] /\ pc'[t] = s
      /\ \A u \in Thread \ {t} : pc'[u] = pc[u] /\ pc[u] = "idle"
  BY DEF Typed, Alone, Thread
<1>2. busy = t /\ busy' = t
  BY <1>1 DEF busy, Thread
<1>3. Alone'
  BY <1>1 DEF Alone, Thread
<1> QED
  BY <1>1, <1>2, <1>3 DEF step, fr, wanted, ModelOf

\* A step that leaves the dictionaries and copies alone.
LEMMA Quiet ==
    ASSUME Entries, OneCopy, Places,
           UNCHANGED <<copies, cpuModels, gpuModels, usage, patchStatus>>,
           step \notin {"enter", "store", "drop", "publish", "retire", "account"}
    PROVE  Entries' /\ OneCopy' /\ Places'
<1>1. Entries'
  <2>1. \A c \in DOMAIN copies : copies[c].model \in DOMAIN cpuModels \cup DOMAIN gpuModels
    BY DEF Entries
  <2> QED
    BY <2>1 DEF Entries
<1>2. OneCopy'
  BY DEF OneCopy
<1>3. Places'
  BY DEF Places
<1> QED
  BY <1>1, <1>2, <1>3

-----------------------------------------------------------------------------
\* The actions of the main thread only.
LEMMA HandleStep ==
    ASSUME IInv, HandleModelLoading
    PROVE  IInv'
<1> DEFINE task == [model |-> Head(preload), peak |-> PreloadPeak[Head(preload)],
  patches |-> {}]
           new == [NoFrame EXCEPT !.task = task]
<1>1. /\ pc \in [Thread -> Steps] /\ pc["main"] = "idle" /\ pc["process"] = "idle"
      /\ pc' = [pc EXCEPT !["main"] = "check"]
  BY DEF IInv, Typed, Alone, HandleModelLoading, Goto
<1>2. step = "idle" /\ step' = "check" /\ busy' = "main"
  BY <1>1 DEF step, busy, Thread
<1>3. Head(preload) \in Model /\ preload' \in Seq(Model)
  BY DEF IInv, Typed, HandleModelLoading
<1>4. new.task = task /\ new.then = "move" /\ DOMAIN new = Fields
  BY DEF NoFrame, Fields
<1>5. DOMAIN frame = Thread /\ frame' = [frame EXCEPT !["main"] = new]
  BY DEF IInv, Typed, HandleModelLoading
<1>6. /\ DOMAIN frame' = Thread /\ frame'["main"] = new
      /\ frame'["process"] = frame["process"]
  BY <1>5 DEF Thread
<1>7. fr'.then = "move" /\ wanted' = Head(preload) /\ fr'.task.patches = {}
  BY <1>2, <1>4, <1>6 DEF fr, wanted
<1>8. Typed'
  <2>1. pc' \in [Thread -> Steps]
    BY <1>1 DEF Steps, SharedSteps, Thread
  <2>2. \A t \in Thread : DOMAIN frame'[t] = Fields
    BY <1>4, <1>6 DEF IInv, Typed, Thread
  <2> QED
    BY <1>3, <1>6, <1>7, <2>1, <2>2 DEF IInv, Typed, HandleModelLoading, dicts
<1>9. Alone'
  BY <1>1 DEF Alone, Thread
<1>10. Entries' /\ OneCopy' /\ Places'
  BY <1>2, Quiet DEF IInv, HandleModelLoading, dicts
<1>11. Wanted' /\ Held'
  BY <1>2, <1>7 DEF Wanted, Held, ProcessSteps
<1> QED
  BY <1>8, <1>9, <1>10, <1>11 DEF IInv

\* An answer or the end of a task: nobody is under way afterwards.
LEMMA IdleStep ==
    ASSUME IInv, NEW t \in Thread, pc[t] \in {"respond", "execute"},
           pc' = [pc EXCEPT ![t] = "idle"], UNCHANGED <<copies, dicts, frame, preload>>
    PROVE  IInv'
<1>1. /\ pc \in [Thread -> Steps]
      /\ \A u \in Thread \ {t} : pc[u] = "idle"
  BY DEF IInv, Typed, Alone, Thread
<1>2. step = pc[t] /\ step' = "idle"
  BY <1>1 DEF step, busy, Thread
<1>3. Typed' /\ Alone'
  <2>1. pc' \in [Thread -> Steps] /\ pc'["process"] = "idle"
    BY <1>1 DEF Steps, Thread
  <2> QED
    BY <1>2, <2>1 DEF IInv, Typed, Alone, dicts
<1>4. Entries' /\ OneCopy' /\ Places'
  BY <1>2, Quiet DEF IInv, dicts
<1>5. Wanted' /\ Held'
  BY <1>2 DEF Wanted, Held, ProcessSteps
<1> QED
  BY <1>3, <1>4, <1>5 DEF IInv

-----------------------------------------------------------------------------
\* The actions of the process thread only.
LEMMA EnsureStep ==
    ASSUME IInv, ~EarlyTasks, NEW task \in Task, EnsureModel(task)
    PROVE  IInv'
<1> DEFINE new == [NoFrame EXCEPT !.task = task]
           next == IF ~IsValid(task) THEN "dead"
                   ELSE IF task.model \in DOMAIN gpuModels THEN "touch" ELSE "findCpu"
<1>1. /\ pc \in [Thread -> Steps] /\ pc["main"] = "idle" /\ pc["process"] = "idle"
      /\ preload = <<>> /\ pc' = [pc EXCEPT !["process"] = next]
  BY DEF IInv, Typed, EnsureModel, PreloadOver, Goto, Raises
<1>2. step = "idle" /\ step' = next /\ busy' = "process"
  BY <1>1 DEF step, busy, Thread
<1>3. task.model \in Model /\ task.patches \subseteq Patch
  BY ModelCacheAssumption
<1>4. new.task = task /\ new.then = "move" /\ DOMAIN new = Fields
  BY DEF NoFrame, Fields
<1>5. DOMAIN frame = Thread /\ frame' = [frame EXCEPT !["process"] = new]
  BY DEF IInv, Typed, EnsureModel
<1>6. /\ DOMAIN frame' = Thread /\ frame'["process"] = new /\ frame'["main"] = frame["main"]
  BY <1>5 DEF Thread
<1>7. fr'.then = "move" /\ fr'.task = task /\ wanted' = task.model
  BY <1>2, <1>4, <1>6 DEF fr, wanted
<1>8. Typed'
  <2>1. pc' \in [Thread -> Steps]
    BY <1>1 DEF Steps, ProcessSteps, Thread
  <2>2. \A t \in Thread : DOMAIN frame'[t] = Fields
    BY <1>4, <1>6 DEF IInv, Typed, Thread
  <2> QED
    BY <1>3, <1>6, <1>7, <2>1, <2>2 DEF IInv, Typed, EnsureModel, dicts
<1>9. Alone'
  BY <1>1 DEF Alone, Thread, EnsureModel
<1>10. Entries' /\ OneCopy' /\ Places'
  BY <1>2, Quiet DEF IInv, EnsureModel, dicts
<1>11. Wanted' /\ Held'
  <2>1. gpuModels' = gpuModels
    BY DEF EnsureModel, dicts
  <2> QED
    BY <1>2, <1>7, <2>1 DEF Wanted, Held, ProcessSteps
<1> QED
  BY <1>8, <1>9, <1>10, <1>11 DEF IInv

\* What a step of the thread under way keeps, whatever it does to the models.
LEMMA Moved ==
    ASSUME Typed, Alone, NEW t \in Thread, pc[t] # "idle",
           NEW s \in Steps \ {"idle"}, pc' = [pc EXCEPT ![t] = s], preload' = preload,
           DOMAIN frame' = Thread, \A u \in Thread : DOMAIN frame'[u] = Fields,
           frame'[t].task = frame[t].task,
           copies' \in Seq(Copy), usage' \in [Model -> Int],
           patchStatus' \in [Model -> SUBSET Patch]
    PROVE  /\ Typed' /\ Alone'
           /\ busy = t /\ step = pc[t] /\ fr = frame[t] /\ wanted = ModelOf(t)
           /\ busy' = t /\ step' = s /\ fr' = frame'[t] /\ wanted' = wanted /\ wanted \in Model
<1>1. /\ busy = t /\ step = pc[t] /\ fr = frame[t] /\ wanted = ModelOf(t)
      /\ busy' = t /\ step' = s /\ fr' = frame'[t] /\ wanted' = frame'[t].task.model
      /\ Alone'
  BY View
<1>2. pc' \in [Thread -> Steps]
  BY DEF Typed
<1>3. wanted' = wanted /\ fr'.task = fr.task /\ wanted \in Model
      /\ fr.task.patches \subseteq Patch
  BY <1>1 DEF Typed, ModelOf
<1> QED
  BY <1>1, <1>2, <1>3 DEF Typed

\* The same for a step that changes neither frames nor models.
LEMMA MovedOn ==
    ASSUME Typed, Alone, NEW t \in Thread, pc[t] # "idle",
           NEW s \in Steps \ {"idle"}, pc' = [pc EXCEPT ![t] = s], preload' = preload,
           UNCHANGED <<frame, copies, usage, patchStatus>>
    PROVE  /\ Typed' /\ Alone'
           /\ busy = t /\ step = pc[t] /\ fr = frame[t] /\ wanted = ModelOf(t)
           /\ busy' = t /\ step' = s /\ fr' = fr /\ wanted' = wanted /\ wanted \in Model
<1>1. /\ DOMAIN frame' = Thread /\ \A u \in Thread : DOMAIN frame'[u] = Fields
      /\ copies' \in Seq(Copy) /\ usage' \in [Model -> Int]
      /\ patchStatus' \in [Model -> SUBSET Patch]
  BY DEF Typed
<1>2. frame' = frame
  OBVIOUS
<1>3. frame'[t].task = frame[t].task /\ frame'[t] = frame[t]
  BY <1>2
<1>4. /\ Typed' /\ Alone'
      /\ busy = t /\ step = pc[t] /\ fr = frame[t] /\ wanted = ModelOf(t)
      /\ busy' = t /\ step' = s /\ fr' = frame'[t] /\ wanted' = wanted /\ wanted \in Model
  BY <1>1, <1>3, Moved
<1> QED
  BY <1>3, <1>4

\* A transfer changes the device of one copy and nothing else.
LEMMA Relocated ==
    ASSUME copies \in Seq(Copy), NEW c \in DOMAIN copies, NEW d \in {"cpu", "gpu"},
           copies' = [copies EXCEPT ![c].device = d]
    PROVE  /\ copies' \in Seq(Copy) /\ DOMAIN copies' = DOMAIN copies
           /\ \A k \in DOMAIN copies : /\ copies'[k].model = copies[k].model
                                       /\ copies'[k].patches = copies[k].patches
                                       /\ k # c => copies'[k].device = copies[k].device
           /\ copies'[c].device = d
<1> DEFINE moved == [copies[c] EXCEPT !.device = d]
<1>1. copies[c] \in Copy
  OBVIOUS
<1>2. /\ moved \in Copy /\ moved.device = d
      /\ moved.model = copies[c].model /\ moved.patches = copies[c].patches
  BY <1>1 DEF Copy
<1>3. copies' = [copies EXCEPT ![c] = moved]
  OBVIOUS
<1> HIDE DEF moved
<1>4. /\ copies' \in Seq(Copy) /\ DOMAIN copies' = DOMAIN copies
      /\ copies'[c] = moved /\ \A k \in DOMAIN copies \ {c} : copies'[k] = copies[k]
  BY <1>2, <1>3
<1> QED
  BY <1>2, <1>4

\* A miss: the model is in host memory, or must be loaded.
LEMMA FindStep ==
    ASSUME IInv, FindOnCpu
    PROVE  IInv'
<1> DEFINE next == IF ModelOf("process") \in DOMAIN cpuModels THEN "check" ELSE "room"
<1>1. /\ pc["process"] = "findCpu" /\ pc' = [pc EXCEPT !["process"] = next]
      /\ next \in Steps \ {"idle"} /\ preload' = preload
  BY DEF FindOnCpu, Goto, Steps, SharedSteps
<1>2. /\ DOMAIN frame' = Thread /\ \A u \in Thread : DOMAIN frame'[u] = Fields
      /\ frame'["process"].task = frame["process"].task
      /\ next = "check" => frame'["process"].then = frame["process"].then
      /\ next = "room" => frame'["process"].then = "load"
  <2>1. CASE ModelOf("process") \in DOMAIN cpuModels
    BY <2>1 DEF FindOnCpu, IInv, Typed
  <2>2. CASE ModelOf("process") \notin DOMAIN cpuModels
    BY <2>2, ZenonT(60) DEF FindOnCpu, IInv, Typed, Thread, Fields
  <2> QED
    BY <2>1, <2>2
<1>3. UNCHANGED <<copies, cpuModels, gpuModels, usage, patchStatus>>
  BY DEF FindOnCpu, dicts
<1> HIDE DEF next
<1>4. /\ Typed' /\ Alone' /\ busy = "process" /\ step = "findCpu" /\ fr = frame["process"]
      /\ wanted = ModelOf("process") /\ busy' = "process" /\ step' = next
      /\ fr' = frame'["process"] /\ wanted' = wanted
  <2>1. copies' \in Seq(Copy) /\ usage' \in [Model -> Int]
        /\ patchStatus' \in [Model -> SUBSET Patch]
    BY <1>3 DEF IInv, Typed
  <2> QED
    BY <1>1, <1>2, <2>1, Moved DEF IInv, Thread
<1>5. Entries' /\ OneCopy' /\ Places'
  BY <1>3, <1>4, Quiet DEF IInv
<1>6. Wanted' /\ Held'
  BY <1>2, <1>3, <1>4 DEF IInv, Wanted, Held, ProcessSteps, next
<1> QED
  BY <1>4, <1>5, <1>6 DEF IInv

\* A hit: nothing can have evicted the model since the look.
LEMMA TouchStep ==
    ASSUME IInv, Touch
    PROVE  IInv'
<1>1. pc["process"] = "touch" /\ preload' = preload
  BY DEF Touch
<1>2. ModelOf("process") \in DOMAIN gpuModels
  BY <1>1, View DEF IInv, Wanted, Alone, busy, step, fr, wanted, ModelOf
<1>3. pc' = [pc EXCEPT !["process"] = "use"]
  BY <1>2 DEF Touch, Goto
<1>4. UNCHANGED <<frame, copies, cpuModels, gpuModels, usage, patchStatus>>
  BY DEF Touch
<1>5. /\ Typed' /\ Alone' /\ busy = "process" /\ step = "touch" /\ fr = frame["process"]
      /\ wanted = ModelOf("process") /\ busy' = "process" /\ step' = "use"
      /\ fr' = fr /\ wanted' = wanted
  BY <1>1, <1>3, <1>4, MovedOn DEF IInv, Thread, Steps, ProcessSteps
<1>6. Entries' /\ OneCopy' /\ Places'
  BY <1>4, <1>5, Quiet DEF IInv
<1>7. Wanted' /\ Held'
  BY <1>2, <1>4, <1>5 DEF Wanted, Held, ProcessSteps
<1> QED
  BY <1>5, <1>6, <1>7 DEF IInv

\* A hit or a new entry, read by process_task.
LEMMA UseStep ==
    ASSUME IInv, UseModel
    PROVE  IInv'
<1>1. pc["process"] = "use" /\ preload' = preload
  BY DEF UseModel
<1>2. ModelOf("process") \in DOMAIN gpuModels
  BY <1>1 DEF IInv, Wanted, Alone, busy, step, fr, wanted, ModelOf
<1>3. /\ pc' = [pc EXCEPT !["process"] = "patch"]
      /\ frame' = [frame EXCEPT !["process"].copy = gpuModels[ModelOf("process")]]
  BY <1>2 DEF UseModel, Goto
<1>4. UNCHANGED <<copies, cpuModels, gpuModels, usage, patchStatus>>
  BY DEF UseModel, dicts
<1>5. /\ DOMAIN frame' = Thread /\ \A u \in Thread : DOMAIN frame'[u] = Fields
      /\ frame'["process"].task = frame["process"].task
      /\ frame'["process"].copy = gpuModels[ModelOf("process")]
  BY <1>3 DEF IInv, Typed, Thread, Fields
<1>6. /\ Typed' /\ Alone' /\ busy = "process" /\ step = "use" /\ fr = frame["process"]
      /\ wanted = ModelOf("process") /\ busy' = "process" /\ step' = "patch"
      /\ fr' = frame'["process"] /\ wanted' = wanted
  <2>1. copies' \in Seq(Copy) /\ usage' \in [Model -> Int]
        /\ patchStatus' \in [Model -> SUBSET Patch]
    BY <1>4 DEF IInv, Typed
  <2> QED
    BY <1>1, <1>3, <1>5, <2>1, Moved DEF IInv, Thread, Steps, ProcessSteps
<1>7. Entries' /\ OneCopy' /\ Places'
  BY <1>4, <1>6, Quiet DEF IInv
<1>8. Wanted' /\ Held'
  BY <1>2, <1>4, <1>5, <1>6 DEF Wanted, Held, ProcessSteps
<1> QED
  BY <1>6, <1>7, <1>8 DEF IInv

\* _load_model: nothing of the model is in memory, so its copy is a new one.
LEMMA LoadStep ==
    ASSUME IInv, LoadModel
    PROVE  IInv'
<1> DEFINE m == ModelOf("process")
           new == [model |-> m, device |-> "gpu", patches |-> {}]
<1>1. pc["process"] = "load" /\ preload' = preload
  BY DEF LoadModel
<1>2. busy = "process" /\ step = "load" /\ fr = frame["process"] /\ wanted = m
  BY <1>1 DEF IInv, Alone, busy, step, fr, wanted, ModelOf
<1>3. m \notin DOMAIN gpuModels /\ m \notin DOMAIN cpuModels /\ m \in Model
  BY <1>2 DEF IInv, Wanted, Typed
<1>4. /\ copies' = Append(copies, new)
      /\ frame' = [frame EXCEPT !["process"].copy = Len(copies) + 1]
      /\ pc' = [pc EXCEPT !["process"] = "enter"]
      /\ UNCHANGED <<cpuModels, gpuModels, usage, patchStatus>>
  BY <1>3 DEF LoadModel, Goto
<1>5. /\ DOMAIN frame' = Thread /\ \A u \in Thread : DOMAIN frame'[u] = Fields
      /\ frame'["process"].task = frame["process"].task
      /\ frame'["process"].copy = Len(copies) + 1
  BY <1>4 DEF IInv, Typed, Thread, Fields
<1>6. copies \in Seq(Copy) /\ new \in Copy
  BY <1>3 DEF IInv, Typed, Copy
<1>7. /\ DOMAIN copies' = DOMAIN copies \cup {Len(copies) + 1}
      /\ Len(copies) + 1 \notin DOMAIN copies
      /\ \A c \in DOMAIN copies : copies'[c] = copies[c]
      /\ copies'[Len(copies) + 1] = new /\ copies' \in Seq(Copy)
  BY <1>4, <1>6
<1>8. /\ Typed' /\ Alone' /\ busy' = "process" /\ step' = "enter"
      /\ fr' = frame'["process"] /\ wanted' = wanted
  <2>1. usage' \in [Model -> Int] /\ patchStatus' \in [Model -> SUBSET Patch]
    BY <1>4 DEF IInv, Typed
  <2> QED
    BY <1>1, <1>4, <1>5, <1>7, <2>1, Moved DEF IInv, Thread, Steps, ProcessSteps
<1>9. \A c \in DOMAIN copies : /\ copies[c].model \in DOMAIN cpuModels \cup DOMAIN gpuModels
                               /\ copies[c].model # m
  BY <1>2, <1>3 DEF IInv, Entries
<1>10. Entries'
  <2>1. \A n \in DOMAIN cpuModels : cpuModels[n] \in DOMAIN copies' /\ copies'[cpuModels[n]].model = n
    BY <1>7 DEF IInv, Entries
  <2>2. \A n \in DOMAIN gpuModels : gpuModels[n] \in DOMAIN copies' /\ copies'[gpuModels[n]].model = n
    BY <1>7 DEF IInv, Entries
  <2>3. \A c \in DOMAIN copies' : \/ copies'[c].model \in DOMAIN cpuModels \cup DOMAIN gpuModels
                                  \/ c = Len(copies) + 1
    BY <1>7, <1>9
  <2> QED
    BY <1>4, <1>5, <1>8, <2>1, <2>2, <2>3 DEF IInv, Entries
<1>11. OneCopy'
  <2>1. \A c, d \in DOMAIN copies' : copies'[c].model = copies'[d].model => c = d
    BY <1>7, <1>9 DEF IInv, OneCopy
  <2>2. \A c \in DOMAIN copies' : copies'[c].patches = patchStatus[copies'[c].model]
    <3>1. patchStatus[m] = {}
      BY <1>3 DEF IInv, OneCopy
    <3>2. \A c \in DOMAIN copies : copies[c].patches = patchStatus[copies[c].model]
      BY DEF IInv, OneCopy
    <3>3. new.model = m /\ new.patches = {}
      OBVIOUS
    <3> HIDE DEF new, m
    <3> QED
      BY <1>7, <3>1, <3>2, <3>3
  <2> QED
    BY <1>4, <2>1, <2>2 DEF IInv, OneCopy
<1>12. Places'
  <2>1. /\ \A n \in DOMAIN gpuModels : copies'[gpuModels[n]] = copies[gpuModels[n]]
        /\ \A n \in DOMAIN cpuModels : copies'[cpuModels[n]] = copies[cpuModels[n]]
    BY <1>7 DEF IInv, Entries
  <2> QED
    BY <1>2, <1>4, <2>1 DEF IInv, Places
<1>13. Wanted' /\ Held'
  BY <1>2, <1>3, <1>4, <1>5, <1>7, <1>8 DEF Wanted, Held, ProcessSteps
<1> QED
  BY <1>8, <1>10, <1>11, <1>12, <1>13 DEF IInv

\* The new copy becomes an entry.
LEMMA EnterStep ==
    ASSUME IInv, EnterLoaded
    PROVE  IInv'
<1> DEFINE m == ModelOf("process")
           c == frame["process"].copy
<1>1. pc["process"] = "enter" /\ preload' = preload
  BY DEF EnterLoaded
<1>2. pc' = [pc EXCEPT !["process"] = "account"]
      /\ UNCHANGED <<copies, cpuModels, usage, patchStatus, frame>>
  BY DEF EnterLoaded, Goto
<1>3. /\ Typed' /\ Alone' /\ busy = "process" /\ step = "enter" /\ fr = frame["process"]
      /\ wanted = m /\ busy' = "process" /\ step' = "account" /\ fr' = fr /\ wanted' = m
      /\ m \in Model
  BY <1>1, <1>2, MovedOn DEF IInv, Thread, Steps, SharedSteps
<1>4. m \notin DOMAIN gpuModels /\ m \notin DOMAIN cpuModels
  BY <1>3 DEF IInv, Wanted
<1>5. /\ c \in DOMAIN copies
      /\ copies[c] = [model |-> m, device |-> "gpu", patches |-> {}]
  BY <1>3 DEF IInv, Held
<1>6. /\ DOMAIN gpuModels' = DOMAIN gpuModels \cup {m} /\ gpuModels'[m] = c
      /\ \A n \in DOMAIN gpuModels : gpuModels'[n] = gpuModels[n]
  BY <1>4 DEF EnterLoaded, With
<1> HIDE DEF m, c
<1>7. Entries'
  BY <1>2, <1>3, <1>4, <1>5, <1>6 DEF IInv, Entries, c
<1>8. OneCopy'
  BY <1>2, <1>6 DEF IInv, OneCopy
<1>9. Places'
  BY <1>2, <1>3, <1>4, <1>5, <1>6 DEF IInv, Places
<1>10. Wanted' /\ Held'
  BY <1>2, <1>3, <1>6 DEF Wanted, Held, ProcessSteps
<1> QED
  BY <1>3, <1>7, <1>8, <1>9, <1>10 DEF IInv

\* Exactly the patches that the task asks for are on the copy afterwards.
LEMMA PatchStep ==
    ASSUME IInv, ApplyPatches
    PROVE  IInv'
<1> DEFINE m == ModelOf("process")
           c == frame["process"].copy
           needed == frame["process"].task.patches
<1>1. pc["process"] = "patch" /\ preload' = preload
  BY DEF ApplyPatches
<1>2. /\ pc' = [pc EXCEPT !["process"] = "execute"]
      /\ UNCHANGED <<cpuModels, gpuModels, usage, frame>>
  BY DEF ApplyPatches, Goto
<1>3. busy = "process" /\ step = "patch" /\ fr = frame["process"] /\ wanted = m
  BY <1>1 DEF IInv, Alone, busy, step, fr, wanted, ModelOf
<1>4. m \in DOMAIN gpuModels /\ c = gpuModels[m] /\ c \in DOMAIN copies /\ copies[c].model = m
  BY <1>3 DEF IInv, Wanted, Held, Entries
<1>5. m \in Model /\ needed \subseteq Patch /\ copies \in Seq(Copy)
      /\ patchStatus \in [Model -> SUBSET Patch]
  BY <1>3 DEF IInv, Typed
<1>6. copies[c].patches = patchStatus[m]
  BY <1>4 DEF IInv, OneCopy
<1>7. (patchStatus[m] \ Unneeded(m, needed)) \cup Missing(m, needed) = needed
  BY DEF Unneeded, Missing
<1>8. /\ copies' = [copies EXCEPT ![c].patches = needed]
      /\ patchStatus' = [patchStatus EXCEPT ![m] = needed]
  BY <1>4, <1>5, <1>6, <1>7 DEF ApplyPatches
<1>9. /\ copies' \in Seq(Copy) /\ DOMAIN copies' = DOMAIN copies
      /\ copies'[c] = [copies[c] EXCEPT !.patches = needed]
      /\ \A d \in DOMAIN copies \ {c} : copies'[d] = copies[d]
  <2>1. \A d \in DOMAIN copies : copies[d] \in Copy
    BY <1>5
  <2>2. [copies[c] EXCEPT !.patches = needed] \in Copy
    BY <1>4, <1>5, <2>1 DEF Copy
  <2>3. copies' = [copies EXCEPT ![c] = [copies[c] EXCEPT !.patches = needed]]
    BY <1>8
  <2> HIDE DEF c, needed
  <2> QED
    BY <1>4, <1>5, <2>2, <2>3
<1>10. /\ \A d \in DOMAIN copies : copies'[d].model = copies[d].model
                                   /\ copies'[d].device = copies[d].device
       /\ copies'[c].patches = needed
  <2>1. copies[c] \in Copy
    BY <1>4, <1>5
  <2>2. /\ copies'[c].model = copies[c].model /\ copies'[c].device = copies[c].device
        /\ copies'[c].patches = needed
    BY <1>9, <2>1 DEF Copy
  <2> HIDE DEF c, needed
  <2> QED
    BY <1>9, <2>2
<1>11. /\ Typed' /\ Alone' /\ busy' = "process" /\ step' = "execute" /\ fr' = fr
       /\ wanted' = m
  <2>1. /\ DOMAIN frame' = Thread /\ \A u \in Thread : DOMAIN frame'[u] = Fields
        /\ usage' \in [Model -> Int] /\ patchStatus' \in [Model -> SUBSET Patch]
    BY <1>2, <1>5, <1>8 DEF IInv, Typed
  <2>2. frame'["process"].task = frame["process"].task /\ frame'["process"] = frame["process"]
    BY <1>2
  <2>3. "execute" \in Steps \ {"idle"} /\ "process" \in Thread
    BY DEF Steps, ProcessSteps, Thread
  <2> QED
    BY <1>1, <1>2, <1>3, <1>9, <2>1, <2>2, <2>3, Moved DEF IInv
<1> HIDE DEF m, c, needed
<1>12. Entries'
  BY <1>2, <1>3, <1>9, <1>10 DEF IInv, Entries
<1>13. OneCopy'
  <2>1. \A d \in DOMAIN copies : copies[d].model = m => d = c
    BY <1>4 DEF IInv, OneCopy
  <2>2. \A n \in Model : patchStatus'[n] = IF n = m THEN needed ELSE patchStatus[n]
    BY <1>5, <1>8
  <2>3. \A d \in DOMAIN copies : copies[d].model \in Model
    <3>1. \A d \in DOMAIN copies : copies[d] \in Copy
      BY <1>5
    <3> QED
      BY <3>1 DEF Copy
  <2>4. \A d \in DOMAIN copies' : copies'[d].patches = patchStatus'[copies'[d].model]
    <3>1. \A d \in DOMAIN copies : copies[d].patches = patchStatus[copies[d].model]
      BY DEF IInv, OneCopy
    <3>2. \A d \in DOMAIN copies' :
            copies'[d].model = copies[d].model /\ copies[d].model \in Model
      BY <1>9, <1>10, <2>3
    <3>3. \A d \in DOMAIN copies' : d # c => copies'[d].patches = patchStatus'[copies'[d].model]
      BY <1>9, <2>1, <2>2, <3>1, <3>2
    <3> QED
      BY <1>4, <1>9, <1>10, <2>2, <3>2, <3>3, ZenonT(60)
  <2> QED
    BY <1>2, <1>4, <1>9, <1>10, <2>2, <2>4 DEF IInv, OneCopy
<1>14. Places'
  BY <1>2, <1>3, <1>9, <1>10 DEF IInv, Places, Entries
<1>15. Wanted' /\ Held'
  BY <1>2, <1>3, <1>4, <1>10, <1>11 DEF Wanted, Held, ProcessSteps, c, needed
<1> QED
  BY <1>11, <1>12, <1>13, <1>14, <1>15 DEF IInv

-----------------------------------------------------------------------------
\* The actions of either thread.
LEMMA CheckStep ==
    ASSUME IInv, NEW t \in Thread, CheckOnCpu(t)
    PROVE  IInv'
<1> DEFINE next == IF ModelOf(t) \in DOMAIN cpuModels THEN "room"
                   ELSE IF t = "main" THEN "respond" ELSE "dead"
<1>1. /\ pc[t] = "check" /\ preload' = preload /\ pc' = [pc EXCEPT ![t] = next]
      /\ UNCHANGED <<frame, copies, cpuModels, gpuModels, usage, patchStatus>>
  BY DEF CheckOnCpu, Goto, Raises, dicts
<1>2. next \in Steps \ {"idle"}
  BY DEF Steps, SharedSteps, ProcessSteps
<1> HIDE DEF next
<1>3. /\ Typed' /\ Alone' /\ busy = t /\ step = "check" /\ fr = frame[t]
      /\ wanted = ModelOf(t) /\ busy' = t /\ step' = next /\ fr' = fr /\ wanted' = wanted
      /\ wanted \in Model
  BY <1>1, <1>2, MovedOn DEF IInv
<1>4. Entries' /\ OneCopy' /\ Places'
  BY <1>1, <1>3, Quiet DEF IInv
<1>5. wanted \in DOMAIN cpuModels => wanted \notin DOMAIN gpuModels
  BY <1>3 DEF IInv, Places
<1>6. Wanted' /\ Held'
  <2>1. CASE wanted \in DOMAIN cpuModels
    BY <1>1, <1>3, <1>5, <2>1 DEF IInv, Wanted, Held, ProcessSteps, next
  <2>2. CASE wanted \notin DOMAIN cpuModels
    <3>1. t = "main" /\ next = "respond"
      BY <1>3, <2>2 DEF IInv, Wanted, Thread, next
    <3> QED
      BY <1>1, <1>3, <3>1 DEF Wanted, Held, ProcessSteps
  <2> QED
    BY <2>1, <2>2
<1> QED
  BY <1>3, <1>4, <1>6 DEF IInv

\* A step of the eviction that only looks: where the model is stays known.
LEMMA LookStep ==
    ASSUME IInv, NEW t \in Thread, pc[t] \in {"room", "evict"},
           NEW s \in {"evict", "demote", frame[t].then}, pc' = [pc EXCEPT ![t] = s],
           DOMAIN frame' = Thread, \A u \in Thread : DOMAIN frame'[u] = Fields,
           frame'[t].task = frame[t].task, frame'[t].then = frame[t].then,
           UNCHANGED <<copies, cpuModels, gpuModels, usage, patchStatus, preload>>
    PROVE  IInv'
<1>1. busy = t /\ step = pc[t] /\ fr = frame[t] /\ wanted = ModelOf(t)
  BY DEF IInv, Alone, Thread, busy, step, fr, wanted, ModelOf
<1>2. /\ wanted \notin DOMAIN gpuModels
      /\ \/ fr.then = "move" /\ wanted \in DOMAIN cpuModels
         \/ fr.then = "load" /\ wanted \notin DOMAIN cpuModels /\ busy = "process"
  BY <1>1 DEF IInv, Wanted
<1>3. s \in {"evict", "demote", "move", "load"} /\ s \in Steps \ {"idle"}
  BY <1>1, <1>2 DEF Steps, SharedSteps, ProcessSteps
<1>4. /\ Typed' /\ Alone' /\ busy' = t /\ step' = s /\ fr' = frame'[t] /\ wanted' = wanted
  <2>1. copies' \in Seq(Copy) /\ usage' \in [Model -> Int]
        /\ patchStatus' \in [Model -> SUBSET Patch]
    BY DEF IInv, Typed
  <2>2. Typed /\ Alone /\ pc[t] # "idle" /\ preload' = preload
    BY DEF IInv
  <2> QED
    BY <1>3, <2>1, <2>2, Moved
<1>5. Entries' /\ OneCopy' /\ Places'
  BY <1>1, Quiet DEF IInv
<1>6. fr'.then = fr.then
  BY <1>1, <1>4
<1>7. (s = "move" \/ s = "load") => s = fr.then \/ s \in {"evict", "demote"}
  BY <1>1
<1>8. Wanted' /\ Held'
  BY <1>1, <1>2, <1>3, <1>4, <1>6, <1>7 DEF Wanted, Held, ProcessSteps
<1> QED
  BY <1>4, <1>5, <1>8 DEF IInv

\* What must be freed is measured ...
LEMMA RoomStep ==
    ASSUME IInv, NEW t \in Thread, MeasureRoom(t)
    PROVE  IInv'
<1> DEFINE next == IF Shortage(frame[t].task) > 0 THEN "evict" ELSE frame[t].then
<1>1. /\ pc[t] = "room" /\ pc' = [pc EXCEPT ![t] = next]
      /\ frame' = [frame EXCEPT ![t].need = Shortage(frame[t].task)]
      /\ UNCHANGED <<copies, cpuModels, gpuModels, usage, patchStatus, preload>>
  BY DEF MeasureRoom, Goto, dicts
<1>2. next \in {"evict", "demote", frame[t].then}
  OBVIOUS
<1>3. /\ DOMAIN frame' = Thread /\ \A u \in Thread : DOMAIN frame'[u] = Fields
      /\ frame'[t].task = frame[t].task /\ frame'[t].then = frame[t].then
  BY <1>1 DEF IInv, Typed, Fields
<1> HIDE DEF next
<1> QED
  BY <1>1, <1>2, <1>3, LookStep

\* ... and the next victim chosen, of which nothing but its name is known.
LEMMA EvictStep ==
    ASSUME IInv, NEW t \in Thread, EvictNext(t)
    PROVE  IInv'
<1>1. /\ pc[t] = "evict"
      /\ UNCHANGED <<copies, cpuModels, gpuModels, usage, patchStatus, preload>>
  BY DEF EvictNext, dicts
<1>2. DOMAIN frame = Thread /\ \A u \in Thread : DOMAIN frame[u] = Fields
  BY DEF IInv, Typed
<1>3. CASE frame[t].need > 0 /\ lru # <<>>
  <2>1. /\ pc' = [pc EXCEPT ![t] = "demote"]
        /\ frame' = [frame EXCEPT ![t].victim = Head(lru),
                                  ![t].need = @ - usage[Head(lru)]]
    BY <1>3 DEF EvictNext, Goto
  <2>2. /\ DOMAIN frame' = Thread /\ \A u \in Thread : DOMAIN frame'[u] = Fields
        /\ frame'[t].task = frame[t].task /\ frame'[t].then = frame[t].then
    BY <1>2, <2>1 DEF Fields
  <2> QED
    BY <1>1, <2>1, <2>2, LookStep
<1>4. CASE ~(frame[t].need > 0 /\ lru # <<>>)
  <2>1. pc' = [pc EXCEPT ![t] = frame[t].then] /\ frame' = frame
    BY <1>4 DEF EvictNext, Goto
  <2> QED
    BY <1>1, <1>2, <2>1, LookStep
<1> QED
  BY <1>3, <1>4

\* The transfer to host memory, of a model that is not the wanted one.
LEMMA DemoteStep ==
    ASSUME IInv, NEW t \in Thread, Demote(t)
    PROVE  IInv'
<1> DEFINE v == frame[t].victim
           c == gpuModels[v]
<1>1. /\ pc[t] = "demote"
      /\ UNCHANGED <<cpuModels, gpuModels, usage, patchStatus, preload>>
  BY DEF Demote, dicts
<1>2. DOMAIN frame = Thread /\ \A u \in Thread : DOMAIN frame[u] = Fields
  BY DEF IInv, Typed
<1>3. busy = t /\ step = "demote" /\ fr = frame[t] /\ wanted = ModelOf(t)
  BY <1>1 DEF IInv, Alone, Thread, busy, step, fr, wanted, ModelOf
<1>4. /\ wanted \notin DOMAIN gpuModels
      /\ \/ fr.then = "move" /\ wanted \in DOMAIN cpuModels
         \/ fr.then = "load" /\ wanted \notin DOMAIN cpuModels /\ busy = "process"
  BY <1>3 DEF IInv, Wanted
<1>5. CASE v \notin DOMAIN gpuModels
  <2>1. pc' = [pc EXCEPT ![t] = "evict"] /\ UNCHANGED <<frame, copies>>
    BY <1>5 DEF Demote, Goto
  <2>2. /\ Typed' /\ Alone' /\ step' = "evict" /\ busy' = busy /\ fr' = fr /\ wanted' = wanted
    BY <1>1, <1>3, <2>1, MovedOn DEF IInv, Steps, SharedSteps
  <2>3. Entries' /\ OneCopy' /\ Places'
    BY <1>1, <1>3, <2>1, Quiet DEF IInv
  <2>4. Wanted' /\ Held'
    BY <1>1, <1>4, <2>2 DEF Wanted, Held, ProcessSteps
  <2> QED
    BY <2>2, <2>3, <2>4 DEF IInv
<1>6. CASE v \in DOMAIN gpuModels
  <2>1. /\ pc' = [pc EXCEPT ![t] = "store"] /\ frame' = [frame EXCEPT ![t].copy = c]
        /\ copies' = [copies EXCEPT ![c].device = "cpu"]
    BY <1>6 DEF Demote, Goto
  <2>2. c \in DOMAIN copies /\ copies[c].model = v /\ copies \in Seq(Copy)
    BY <1>6 DEF IInv, Entries, Typed
  <2>3. /\ copies' \in Seq(Copy) /\ DOMAIN copies' = DOMAIN copies
        /\ \A d \in DOMAIN copies : /\ copies'[d].model = copies[d].model
                                    /\ copies'[d].patches = copies[d].patches
                                    /\ d # c => copies'[d].device = copies[d].device
        /\ copies'[c].device = "cpu"
    BY <2>1, <2>2, Relocated
  <2>4. /\ DOMAIN frame' = Thread /\ \A u \in Thread : DOMAIN frame'[u] = Fields
        /\ frame'[t].task = frame[t].task /\ frame'[t].then = frame[t].then
        /\ frame'[t].victim = v /\ frame'[t].copy = c
    BY <1>2, <2>1 DEF Fields
  <2> HIDE DEF c, v
  <2>5. /\ Typed' /\ Alone' /\ step' = "store" /\ busy' = t /\ fr' = frame'[t] /\ wanted' = wanted
    <3>1. usage' \in [Model -> Int] /\ patchStatus' \in [Model -> SUBSET Patch]
      BY <1>1 DEF IInv, Typed
    <3>2. Typed /\ Alone /\ pc[t] # "idle" /\ preload' = preload /\ "store" \in Steps \ {"idle"}
      BY <1>1 DEF IInv, Steps, SharedSteps
    <3> QED
      BY <2>1, <2>3, <2>4, <3>1, <3>2, Moved
  <2>6. Entries'
    BY <1>1, <1>3, <2>3 DEF IInv, Entries
  <2>7. OneCopy'
    BY <1>1, <2>3 DEF IInv, OneCopy
  <2>8. Places'
    <3>1. \A n \in DOMAIN gpuModels : n # v => gpuModels[n] # c
      BY <1>6, <2>2 DEF IInv, Entries
    <3>2. \A n \in DOMAIN cpuModels : n # v /\ cpuModels[n] # c
      BY <1>3, <1>6, <2>2 DEF IInv, Entries, Places
    <3>3. \A n \in DOMAIN gpuModels : gpuModels[n] \in DOMAIN copies
      BY DEF IInv, Entries
    <3>4. \A n \in DOMAIN cpuModels : cpuModels[n] \in DOMAIN copies
      BY DEF IInv, Entries
    <3>5. fr'.victim = v
      BY <2>4, <2>5
    <3>6. \A n \in DOMAIN gpuModels : n # v => copies'[gpuModels[n]].device = "gpu"
      BY <1>3, <2>3, <3>1, <3>3 DEF IInv, Places
    <3>7. \A n \in DOMAIN cpuModels : copies'[cpuModels[n]].device = "cpu"
      BY <1>3, <2>3, <3>2, <3>4 DEF IInv, Places
    <3>8. DOMAIN cpuModels \cap DOMAIN gpuModels = {}
      BY <1>3 DEF IInv, Places
    <3>9. \A n \in Model : usage[n] = IF n \in DOMAIN gpuModels THEN Base[n] ELSE 0
      BY <1>3 DEF IInv, Places
    <3> QED
      BY <1>1, <2>5, <3>5, <3>6, <3>7, <3>8, <3>9 DEF Places
  <2>9. Wanted' /\ Held'
    BY <1>1, <1>3, <1>4, <1>6, <2>3, <2>4, <2>5 DEF Wanted, Held, ProcessSteps, c, v
  <2> QED
    BY <2>5, <2>6, <2>7, <2>8, <2>9 DEF IInv
<1> QED
  BY <1>5, <1>6

\* The victim is in both dictionaries from here ...
LEMMA StoreStep ==
    ASSUME IInv, NEW t \in Thread, StoreOnCpu(t)
    PROVE  IInv'
<1> DEFINE v == frame[t].victim
           c == frame[t].copy
<1>1. /\ pc[t] = "store" /\ pc' = [pc EXCEPT ![t] = "drop"]
      /\ UNCHANGED <<copies, gpuModels, usage, patchStatus, frame, preload>>
  BY DEF StoreOnCpu, Goto
<1>2. /\ Typed' /\ Alone' /\ busy = t /\ step = "store" /\ fr = frame[t] /\ wanted = ModelOf(t)
      /\ busy' = t /\ step' = "drop" /\ fr' = fr /\ wanted' = wanted
  <2>1. Typed /\ Alone /\ pc[t] # "idle" /\ "drop" \in Steps \ {"idle"}
    BY <1>1 DEF IInv, Steps, SharedSteps
  <2>2. UNCHANGED <<frame, copies, usage, patchStatus>> /\ preload' = preload
    BY <1>1
  <2> QED
    BY <1>1, <2>1, <2>2, MovedOn
<1>3. /\ v \in DOMAIN gpuModels /\ c = gpuModels[v] /\ copies[c].device = "cpu"
      /\ wanted \notin DOMAIN gpuModels /\ v # wanted
      /\ v \in Model /\ c \in DOMAIN copies /\ copies[c].model = v
  BY <1>2 DEF IInv, Wanted, Held, Entries
<1>4. /\ DOMAIN cpuModels' = DOMAIN cpuModels \cup {v} /\ cpuModels'[v] = c
      /\ \A n \in DOMAIN cpuModels \ {v} : cpuModels'[n] = cpuModels[n]
  BY DEF StoreOnCpu, Stored, With
<1>5. fr'.victim = v /\ fr'.copy = c /\ fr.victim = v
  BY <1>2
<1> HIDE DEF v, c
<1>6. Entries'
  BY <1>1, <1>2, <1>3, <1>4 DEF IInv, Entries
<1>7. OneCopy'
  BY <1>1, <1>3, <1>4 DEF IInv, OneCopy
<1>8. Places'
  BY <1>1, <1>2, <1>3, <1>4, <1>5 DEF IInv, Places
<1>9. Wanted' /\ Held'
  <2>1. Wanted'
    BY <1>1, <1>2, <1>3, <1>4 DEF IInv, Wanted, ProcessSteps
  <2>2. Held'
    BY <1>1, <1>2, <1>3, <1>4, <1>5 DEF Held
  <2> QED
    BY <2>1, <2>2
<1> QED
  BY <1>2, <1>6, <1>7, <1>8, <1>9 DEF IInv

\* ... to here, where the accounting forgets it.
LEMMA DropStep ==
    ASSUME IInv, NEW t \in Thread, DropFromGpu(t)
    PROVE  IInv'
<1> DEFINE v == frame[t].victim
<1>1. pc[t] = "drop" /\ UNCHANGED <<copies, cpuModels, patchStatus, frame, preload>>
  BY DEF DropFromGpu
<1>2. busy = t /\ step = "drop" /\ fr = frame[t] /\ wanted = ModelOf(t)
  BY <1>1 DEF IInv, Alone, Thread, busy, step, fr, wanted, ModelOf
<1>3. /\ v \in DOMAIN gpuModels /\ v \in DOMAIN cpuModels /\ cpuModels[v] = gpuModels[v]
      /\ copies[cpuModels[v]].device = "cpu" /\ v # wanted /\ v \in Model
      /\ wanted \notin DOMAIN gpuModels
  BY <1>2 DEF IInv, Wanted, Held, Entries
<1>4. /\ pc' = [pc EXCEPT ![t] = "evict"] /\ gpuModels' = Without(gpuModels, v)
      /\ usage' = [usage EXCEPT ![v] = 0]
  BY <1>3 DEF DropFromGpu, Goto
<1>5. /\ DOMAIN gpuModels' = DOMAIN gpuModels \ {v}
      /\ \A n \in DOMAIN gpuModels' : gpuModels'[n] = gpuModels[n]
  BY <1>4 DEF Without
<1>6. /\ usage' \in [Model -> Int] /\ usage'[v] = 0
      /\ \A n \in Model \ {v} : usage'[n] = usage[n]
  BY <1>3, <1>4 DEF IInv, Typed
<1>7. /\ Typed' /\ Alone' /\ busy' = t /\ step' = "evict" /\ fr' = fr /\ wanted' = wanted
  <2>1. /\ DOMAIN frame' = Thread /\ \A u \in Thread : DOMAIN frame'[u] = Fields
        /\ copies' \in Seq(Copy) /\ patchStatus' \in [Model -> SUBSET Patch]
    BY <1>1 DEF IInv, Typed
  <2>2. frame'[t].task = frame[t].task /\ frame'[t] = frame[t]
    BY <1>1
  <2>3. Typed /\ Alone /\ pc[t] # "idle" /\ preload' = preload /\ "evict" \in Steps \ {"idle"}
    BY <1>1 DEF IInv, Steps, SharedSteps
  <2> QED
    BY <1>2, <1>4, <1>6, <2>1, <2>2, <2>3, Moved
<1>8. fr.victim = v
  BY <1>2
<1> HIDE DEF v
<1>9. Entries'
  BY <1>1, <1>2, <1>3, <1>5 DEF IInv, Entries
<1>10. OneCopy'
  BY <1>1, <1>3, <1>5 DEF IInv, OneCopy
<1>11. Places'
  BY <1>1, <1>2, <1>3, <1>5, <1>6, <1>7, <1>8 DEF IInv, Places
<1>12. Wanted' /\ Held'
  BY <1>1, <1>2, <1>3, <1>5, <1>7 DEF IInv, Wanted, Held, ProcessSteps
<1> QED
  BY <1>7, <1>9, <1>10, <1>11, <1>12 DEF IInv

\* The transfer to the device ...
LEMMA TransferStep ==
    ASSUME IInv, NEW t \in Thread, Transfer(t)
    PROVE  IInv'
<1> DEFINE m == ModelOf(t)
           c == cpuModels[m]
<1>1. /\ pc[t] = "move"
      /\ UNCHANGED <<cpuModels, gpuModels, usage, patchStatus, preload>>
  BY DEF Transfer, dicts
<1>2. busy = t /\ step = "move" /\ fr = frame[t] /\ wanted = m
  BY <1>1 DEF IInv, Alone, Thread, busy, step, fr, wanted, ModelOf
<1>3. m \in DOMAIN cpuModels /\ m \notin DOMAIN gpuModels
  BY <1>2 DEF IInv, Wanted
<1>4. /\ pc' = [pc EXCEPT ![t] = "publish"] /\ frame' = [frame EXCEPT ![t].copy = c]
      /\ copies' = [copies EXCEPT ![c].device = "gpu"]
  BY <1>3 DEF Transfer, Goto
<1>5. c \in DOMAIN copies /\ copies[c].model = m /\ copies \in Seq(Copy)
  BY <1>3 DEF IInv, Entries, Typed
<1>6. /\ copies' \in Seq(Copy) /\ DOMAIN copies' = DOMAIN copies
      /\ \A d \in DOMAIN copies : /\ copies'[d].model = copies[d].model
                                  /\ copies'[d].patches = copies[d].patches
                                  /\ d # c => copies'[d].device = copies[d].device
      /\ copies'[c].device = "gpu"
  BY <1>4, <1>5, Relocated
<1>7. /\ DOMAIN frame' = Thread /\ \A u \in Thread : DOMAIN frame'[u] = Fields
      /\ frame'[t].task = frame[t].task /\ frame'[t].copy = c
  BY <1>4 DEF IInv, Typed, Fields
<1>8. /\ Typed' /\ Alone' /\ busy' = t /\ step' = "publish" /\ fr' = frame'[t] /\ wanted' = wanted
  <2>1. usage' \in [Model -> Int] /\ patchStatus' \in [Model -> SUBSET Patch]
    BY <1>1 DEF IInv, Typed
  <2>2. Typed /\ Alone /\ pc[t] # "idle" /\ preload' = preload /\ "publish" \in Steps \ {"idle"}
    BY <1>1 DEF IInv, Steps, SharedSteps
  <2> QED
    BY <1>4, <1>6, <1>7, <2>1, <2>2, Moved
<1>9. fr'.copy = cpuModels[wanted]
  BY <1>2, <1>7, <1>8
<1> HIDE DEF m, c
<1>10. Entries'
  BY <1>1, <1>2, <1>6 DEF IInv, Entries
<1>11. OneCopy'
  BY <1>1, <1>6 DEF IInv, OneCopy
<1>12. Places'
  <2>1. \A n \in DOMAIN cpuModels : n # m => cpuModels[n] # c /\ cpuModels[n] \in DOMAIN copies
    BY <1>5 DEF IInv, Entries
  <2>2. \A n \in DOMAIN gpuModels : gpuModels[n] # c /\ gpuModels[n] \in DOMAIN copies
    BY <1>3, <1>5 DEF IInv, Entries
  <2> QED
    BY <1>1, <1>2, <1>6, <1>8, <2>1, <2>2 DEF IInv, Places
<1>13. Wanted' /\ Held'
  BY <1>1, <1>2, <1>3, <1>6, <1>7, <1>8, <1>9 DEF Wanted, Held, ProcessSteps, c
<1> QED
  BY <1>8, <1>10, <1>11, <1>12, <1>13 DEF IInv

\* ... the entry of the device's dictionary ...
LEMMA PublishStep ==
    ASSUME IInv, NEW t \in Thread, Publish(t)
    PROVE  IInv'
<1> DEFINE m == ModelOf(t)
           c == frame[t].copy
<1>1. /\ pc[t] = "publish" /\ pc' = [pc EXCEPT ![t] = "retire"]
      /\ UNCHANGED <<copies, cpuModels, usage, patchStatus, frame, preload>>
  BY DEF Publish, Goto
<1>2. /\ Typed' /\ Alone' /\ busy = t /\ step = "publish" /\ fr = frame[t] /\ wanted = m
      /\ busy' = t /\ step' = "retire" /\ fr' = fr /\ wanted' = m
  <2>1. Typed /\ Alone /\ pc[t] # "idle" /\ "retire" \in Steps \ {"idle"}
    BY <1>1 DEF IInv, Steps, SharedSteps
  <2>2. UNCHANGED <<frame, copies, usage, patchStatus>> /\ preload' = preload
    BY <1>1
  <2> QED
    BY <1>1, <2>1, <2>2, MovedOn
<1>3. /\ m \in DOMAIN cpuModels /\ m \notin DOMAIN gpuModels
      /\ c = cpuModels[m] /\ copies[c].device = "gpu"
      /\ m \in Model /\ c \in DOMAIN copies /\ copies[c].model = m
  BY <1>2 DEF IInv, Wanted, Held, Entries
<1>4. /\ DOMAIN gpuModels' = DOMAIN gpuModels \cup {m} /\ gpuModels'[m] = c
      /\ \A n \in DOMAIN gpuModels \ {m} : gpuModels'[n] = gpuModels[n]
  BY DEF Publish, With
<1>5. fr'.copy = c
  BY <1>2
<1> HIDE DEF m, c
<1>6. Entries'
  BY <1>1, <1>2, <1>3, <1>4 DEF IInv, Entries
<1>7. OneCopy'
  BY <1>1, <1>3, <1>4 DEF IInv, OneCopy
<1>8. Places'
  BY <1>1, <1>2, <1>3, <1>4 DEF IInv, Places
<1>9. Wanted' /\ Held'
  BY <1>1, <1>2, <1>3, <1>4, <1>5 DEF Wanted, Held, ProcessSteps
<1> QED
  BY <1>2, <1>6, <1>7, <1>8, <1>9 DEF IInv

\* ... the end of the one in host memory, which is there ...
LEMMA RetireStep ==
    ASSUME IInv, NEW t \in Thread, Retire(t)
    PROVE  IInv'
<1> DEFINE m == ModelOf(t)
<1>1. pc[t] = "retire" /\ UNCHANGED <<copies, gpuModels, usage, patchStatus, frame, preload>>
  BY DEF Retire
<1>2. busy = t /\ step = "retire" /\ fr = frame[t] /\ wanted = m
  BY <1>1 DEF IInv, Alone, Thread, busy, step, fr, wanted, ModelOf
<1>3. /\ m \in DOMAIN cpuModels /\ m \in DOMAIN gpuModels
      /\ cpuModels[m] = gpuModels[m] /\ copies[gpuModels[m]].device = "gpu"
  BY <1>2 DEF IInv, Wanted, Held
<1>4. pc' = [pc EXCEPT ![t] = "account"] /\ cpuModels' = Without(cpuModels, m)
  BY <1>3 DEF Retire, Goto
<1>5. /\ DOMAIN cpuModels' = DOMAIN cpuModels \ {m}
      /\ \A n \in DOMAIN cpuModels' : cpuModels'[n] = cpuModels[n]
  BY <1>4 DEF Without
<1>6. Typed' /\ Alone' /\ busy' = t /\ step' = "account" /\ fr' = fr /\ wanted' = m
  BY <1>1, <1>2, <1>4, MovedOn DEF IInv, Steps, SharedSteps
<1> HIDE DEF m
<1>7. Entries'
  BY <1>1, <1>2, <1>3, <1>5 DEF IInv, Entries
<1>8. OneCopy'
  BY <1>1, <1>3, <1>5 DEF IInv, OneCopy
<1>9. Places'
  BY <1>1, <1>2, <1>3, <1>5, <1>6 DEF IInv, Places
<1>10. Wanted' /\ Held'
  BY <1>1, <1>3, <1>6 DEF Wanted, Held, ProcessSteps
<1> QED
  BY <1>6, <1>7, <1>8, <1>9, <1>10 DEF IInv

\* ... and the accounting, which is then exact again.
LEMMA AccountStep ==
    ASSUME IInv, NEW t \in Thread, Account(t)
    PROVE  IInv'
<1> DEFINE m == ModelOf(t)
           next == IF t = "main" THEN "respond" ELSE "use"
<1>1. /\ pc[t] = "account" /\ pc' = [pc EXCEPT ![t] = next]
      /\ usage' = [usage EXCEPT ![m] = Base[m]]
      /\ UNCHANGED <<copies, cpuModels, gpuModels, patchStatus, frame, preload>>
  BY DEF Account, Goto
<1>2. next \in Steps \ {"idle"}
  BY DEF Steps, ProcessSteps
<1>3. busy = t /\ step = "account" /\ fr = frame[t] /\ wanted = m
  BY <1>1 DEF IInv, Alone, Thread, busy, step, fr, wanted, ModelOf
<1>4. m \in DOMAIN gpuModels /\ m \in Model
  BY <1>3 DEF IInv, Wanted, Typed
<1>5. /\ usage' \in [Model -> Int] /\ usage'[m] = Base[m]
      /\ \A n \in Model \ {m} : usage'[n] = usage[n]
  <2>1. Base[m] \in Int
    BY <1>4, ModelCacheAssumption
  <2> QED
    BY <1>1, <1>4, <2>1 DEF IInv, Typed
<1>6. Typed' /\ Alone' /\ busy' = t /\ step' = next /\ fr' = fr /\ wanted' = m
  <2>1. /\ DOMAIN frame' = Thread /\ \A u \in Thread : DOMAIN frame'[u] = Fields
        /\ copies' \in Seq(Copy) /\ patchStatus' \in [Model -> SUBSET Patch]
    BY <1>1 DEF IInv, Typed
  <2>2. frame'[t].task = frame[t].task /\ frame'[t] = frame[t]
    BY <1>1
  <2>3. Typed /\ Alone /\ pc[t] # "idle" /\ preload' = preload
    BY <1>1 DEF IInv
  <2> HIDE DEF next
  <2> QED
    BY <1>1, <1>2, <1>3, <1>5, <2>1, <2>2, <2>3, Moved
<1>7. (next = "use" /\ t = "process") \/ next = "respond"
  BY DEF Thread
<1> HIDE DEF m, next
<1>8. Entries'
  BY <1>1, <1>3 DEF IInv, Entries
<1>9. OneCopy'
  BY <1>1 DEF IInv, OneCopy
<1>10. Places'
  BY <1>1, <1>3, <1>4, <1>5 DEF IInv, Places
<1>11. Wanted' /\ Held'
  BY <1>1, <1>4, <1>6, <1>7 DEF Wanted, Held, ProcessSteps
<1> QED
  BY <1>6, <1>8, <1>9, <1>10, <1>11 DEF IInv

-----------------------------------------------------------------------------
\* The prefetched models have one copy each, in host memory.
LEMMA InitIInv == Init => IInv
<1> SUFFICES ASSUME Init PROVE IInv
    OBVIOUS
<1> DEFINE R == [model : Prefetched, device : {"cpu"}, patches : {{}}]
           n == Cardinality(R)
           record == [m \in Prefetched |-> [model |-> m, device |-> "cpu", patches |-> {}]]
<1>1. IsFiniteSet(R)
  <2>1. record \in Bijection(Prefetched, R)
    <3>1. \A m \in Prefetched : record[m] \in R /\ record[m].model = m
      OBVIOUS
    <3>2. \A r \in R : r.model \in Prefetched /\ record[r.model] = r
      OBVIOUS
    <3>3. record \in [Prefetched -> R]
      BY <3>1
    <3> HIDE DEF record, R
    <3> QED
      BY <3>1, <3>2, <3>3 DEF Bijection, Injection, Surjection, IsInjective
  <2> HIDE DEF record, R
  <2> QED
    BY <2>1, ModelCacheAssumption, FS_Bijection DEF ExistsBijection
<1>2. n \in Nat /\ copies \in [1 .. n -> R] /\ IsInjective(copies)
  <2> HIDE DEF R
  <2>1. n \in Nat /\ ExistsBijection(1 .. n, R)
    BY <1>1, FS_CardinalityType
  <2>2. \E f \in [1 .. n -> R] : IsInjective(f)
    BY <2>1 DEF ExistsBijection, Bijection, Injection
  <2>3. copies = CHOOSE f \in [1 .. n -> R] : IsInjective(f)
    BY DEF Init, SetToSeq, R
  <2> QED
    BY <2>1, <2>2, <2>3
<1>3. \A r \in R : \E c \in 1 .. n : copies[c] = r
  <2> HIDE DEF R
  <2>1. copies \in Injection(1 .. n, R)
    BY <1>2 DEF Injection
  <2>2. IsFiniteSet(1 .. n) /\ Cardinality(1 .. n) = n
    BY <1>2, FS_Interval
  <2>3. copies \in Surjection(1 .. n, R)
    BY <1>1, <2>1, <2>2, FS_Injection
  <2> QED
    BY <2>3 DEF Surjection
<1>4. \A c \in 1 .. n : /\ copies[c].model \in Prefetched /\ copies[c].device = "cpu"
                        /\ copies[c].patches = {} /\ copies[c] \in R
  BY <1>2
<1>5. copies \in Seq(Copy) /\ DOMAIN copies = 1 .. n
  <2>1. R \subseteq Copy
    BY ModelCacheAssumption DEF Copy
  <2> HIDE DEF R
  <2>2. copies \in [1 .. n -> Copy]
    BY <1>2, <2>1
  <2> QED
    BY <1>2, <2>2
<1>6. \A m \in Prefetched : \E c \in DOMAIN copies : copies[c].model = m
  <2> SUFFICES ASSUME NEW m \in Prefetched PROVE \E c \in DOMAIN copies : copies[c].model = m
    OBVIOUS
  <2>1. record[m] \in R /\ record[m].model = m
    OBVIOUS
  <2> HIDE DEF record, R
  <2> QED
    BY <1>3, <1>5, <2>1
<1>7. \A c, d \in DOMAIN copies : copies[c].model = copies[d].model => c = d
  <2> SUFFICES ASSUME NEW c \in DOMAIN copies, NEW d \in DOMAIN copies,
                      copies[c].model = copies[d].model
               PROVE  c = d
    OBVIOUS
  <2>1. copies[c] \in R /\ copies[d] \in R
    BY <1>4, <1>5
  <2>2. copies[c] = copies[d]
    BY <2>1
  <2> QED
    BY <1>2, <1>5, <2>2 DEF IsInjective
<1> HIDE DEF R, n, record
<1>8. step = "idle"
  BY DEF Init, Thread, step, busy
<1>9. /\ DOMAIN cpuModels = Prefetched /\ DOMAIN gpuModels = {}
      /\ \A m \in Prefetched : cpuModels[m] \in DOMAIN copies /\ copies[cpuModels[m]].model = m
  BY <1>6 DEF Init
<1>10. Typed /\ Alone
  <2>1. \A t \in Thread : DOMAIN frame[t] = Fields
    BY DEF Init, NoFrame, Fields
  <2> QED
    BY <1>5, <1>8, <2>1, ModelCacheAssumption DEF Init, Typed, Alone, Steps, Thread
<1>11. Entries
  BY <1>4, <1>5, <1>9, ModelCacheAssumption DEF Entries
<1>12. OneCopy
  BY <1>4, <1>5, <1>7, ModelCacheAssumption DEF Init, OneCopy
<1>13. Places
  BY <1>4, <1>5, <1>9 DEF Init, Places
<1>14. Wanted /\ Held
  BY <1>8 DEF Wanted, Held, ProcessSteps
<1> QED
  BY <1>10, <1>11, <1>12, <1>13, <1>14 DEF IInv

\* Every step of either thread keeps the invariant.
LEMMA NextIInv ==
    ASSUME IInv, ~EarlyTasks, [Next]_vars
    PROVE  IInv'
<1>1. CASE UNCHANGED vars
  <2>1. IInv' <=> IInv
    BY <1>1 DEF vars, IInv, Typed, Alone, Entries, OneCopy, Places, Wanted, Held,
                busy, step, fr, wanted
  <2> QED
    BY <2>1
<1>2. ASSUME NEW t \in Thread, MoveToGpu(t)
      PROVE  IInv'
  BY <1>2, CheckStep, RoomStep, EvictStep, DemoteStep, StoreStep, DropStep, TransferStep,
     PublishStep, RetireStep, AccountStep DEF MoveToGpu
<1>3. CASE RespondModelLoading
  BY <1>3, IdleStep DEF RespondModelLoading, Goto, Thread
<1>4. CASE FinishTask
  BY <1>4, IdleStep DEF FinishTask, Goto, Thread
<1>5. CASE MainStep
  BY <1>2, <1>3, <1>5, HandleStep DEF MainStep, Thread
<1>6. CASE ProcessStep
  BY <1>2, <1>4, <1>6, EnsureStep, FindStep, TouchStep, LoadStep, EnterStep, UseStep,
     PatchStep DEF ProcessStep, Thread
<1> QED
  BY <1>1, <1>5, <1>6 DEF Next

\* The invariant holds in every state.
LEMMA Invariant ==
    ASSUME ~EarlyTasks
    PROVE  Spec => []IInv
<1>1. IInv /\ [Next]_vars => IInv'
  BY NextIInv
<1> QED
  BY <1>1, InitIInv, PTL DEF Spec

\* What the invariant says of a task that runs.
LEMMA Running ==
    ASSUME IInv, pc["process"] = "execute"
    PROVE  /\ step = "execute" /\ fr = frame["process"]
           /\ wanted \in DOMAIN gpuModels /\ fr.copy = gpuModels[wanted]
<1>1. step = "execute" /\ fr = frame["process"]
  BY DEF IInv, Alone, busy, step, fr
<1> QED
  BY <1>1 DEF IInv, Wanted, Held

-----------------------------------------------------------------------------
\* A task runs with exactly its patches, whatever ran on the model before
\* (_remove_unnecessary_patches, _apply_necessary_patches).
THEOREM TasksRunPatched == ASSUME ~EarlyTasks PROVE Spec => []RunsWithItsPatches
<1>1. IInv => RunsWithItsPatches
  BY Running DEF IInv, Held, RunsWithItsPatches
<1> QED
  BY <1>1, Invariant, PTL

\* Between tasks and after them, dictionaries, devices and accounting agree
\* (_move_model_to_gpu, _move_model_to_cpu, _load_model).
THEOREM CacheStaysConsistent == ASSUME ~EarlyTasks PROVE Spec => []CacheConsistent
<1>1. IInv => CacheConsistent
  <2> SUFFICES ASSUME IInv, \A t \in Thread : pc[t] \in {"idle", "dead"}
               PROVE  CacheConsistent
    BY DEF CacheConsistent
  <2>1. step \in {"idle", "dead"}
    BY DEF busy, step, Thread
  <2>2. /\ DOMAIN cpuModels \cap DOMAIN gpuModels = {}
        /\ \A m \in DOMAIN cpuModels : copies[cpuModels[m]].device = "cpu"
        /\ \A m \in DOMAIN gpuModels : copies[gpuModels[m]].device = "gpu"
        /\ \A m \in Model : usage[m] = IF m \in DOMAIN gpuModels THEN Base[m] ELSE 0
    BY <2>1 DEF IInv, Places
  <2>3. /\ Prefetched \subseteq DOMAIN cpuModels \cup DOMAIN gpuModels
        /\ \A c, d \in DOMAIN copies : copies[c].model = copies[d].model => c = d
    BY DEF IInv, Entries, OneCopy
  <2> QED
    BY <2>2, <2>3 DEF CacheConsistent
<1> QED
  BY <1>1, Invariant, PTL

\* The process thread never ends by an exception of _ensure_model_in_gpu, for
\* a model that fits the device, when the tasks come after the preload.
THEOREM EnsureAlwaysSucceeds == ASSUME ~EarlyTasks PROVE Spec => []EnsureSucceeds
<1>1. IInv => EnsureSucceeds
  BY DEF IInv, Alone, Wanted, busy, step, fr, EnsureSucceeds
<1> QED
  BY <1>1, Invariant, PTL

-----------------------------------------------------------------------------
(***************************************************************************)
(* The order of use.  Its structure is kept by every step of either thread *)
(* (Order); that the model of the running task is its last element rests   *)
(* on main being idle meanwhile (Recent).                                  *)
(***************************************************************************)
Order == lru \in Seq(DOMAIN gpuModels) /\ ToSet(lru) = DOMAIN gpuModels /\ IsInjective(lru)

Recent ==
    pc["process"] \in {"retire", "account", "use", "patch", "execute"} =>
        Last(lru) = ModelOf("process")

\* An entry that leaves the order was at one place, and the others close up.
LEMMA Unlinked ==
    ASSUME NEW S, NEW s \in Seq(S), IsInjective(s), NEW m
    PROVE  LET r == RemoveFirst(s, m) IN
           r \in Seq(S \ {m}) /\ ToSet(r) = ToSet(s) \ {m} /\ IsInjective(r)
<1> DEFINE r == RemoveFirst(s, m)
<1>1. CASE \E i \in 1..Len(s) : s[i] = m
  <2> DEFINE I == { i \in 1..Len(s) : s[i] = m }
  <2>1. PICK k \in 1..Len(s) : s[k] = m
    BY <1>1
  <2>2. I = {k}
    BY <2>1 DEF IsInjective
  <2>3. Min(I) = k
    BY <2>2 DEF Min
  <2>4. r = SubSeq(s, 1, k - 1) \o SubSeq(s, k + 1, Len(s))
    BY <1>1, <2>2, <2>3 DEF RemoveFirst, RemoveAt, SelectInSeq
  <2>5. /\ r \in Seq(S) /\ Len(r) = Len(s) - 1
        /\ \A i \in 1..Len(r) : r[i] = IF i < k THEN s[i] ELSE s[i + 1]
    <3> DEFINE a == SubSeq(s, 1, k - 1)
               b == SubSeq(s, k + 1, Len(s))
    <3>1. Len(s) \in Nat /\ k \in 1..Len(s)
      BY <2>1
    <3>2. a \in Seq(S) /\ Len(a) = k - 1 /\ \A i \in 1..(k - 1) : a[i] = s[i]
      BY <3>1
    <3>3. b \in Seq(S) /\ Len(b) = Len(s) - k /\ \A i \in 1..(Len(s) - k) : b[i] = s[k + i]
      BY <3>1
    <3>4. r = a \o b
      BY <2>4
    <3> HIDE DEF a, b, r
    <3>5. r \in Seq(S) /\ Len(r) = Len(s) - 1
      BY <3>1, <3>2, <3>3, <3>4
    <3>6. ASSUME NEW i \in 1..Len(r) PROVE r[i] = IF i < k THEN s[i] ELSE s[i + 1]
      <4>1. CASE i < k
        BY <3>1, <3>2, <3>3, <3>4, <4>1
      <4>2. CASE ~(i < k)
        <5>1. i - (k - 1) \in 1..(Len(s) - k) /\ k + (i - (k - 1)) = i + 1
          BY <3>1, <3>5, <4>2
        <5>2. r[i] = b[i - (k - 1)]
          BY <3>1, <3>2, <3>3, <3>4, <3>5, <4>2
        <5> QED
          BY <3>3, <4>2, <5>1, <5>2
      <4> QED
        BY <4>1, <4>2
    <3> QED
      BY <3>5, <3>6
  <2>6. \A i \in 1..Len(r) : r[i] # m
    BY <2>1, <2>5 DEF IsInjective
  <2>7. r \in Seq(S \ {m})
    BY <2>5, <2>6
  <2>8. ToSet(r) = ToSet(s) \ {m}
    <3>1. ASSUME NEW i \in 1..Len(s), i # k
          PROVE  \E j \in 1..Len(r) : r[j] = s[i]
      <4>1. CASE i < k
        BY <4>1, <2>5
      <4>2. CASE i > k
        <5>1. i - 1 \in 1..Len(r) /\ ~(i - 1 < k) /\ (i - 1) + 1 = i
          BY <4>2, <2>5
        <5> QED
          BY <5>1, <2>5
      <4> QED
        BY <3>1, <4>1, <4>2
    <3>2. ToSet(s) \ {m} \subseteq ToSet(r)
      <4> DOMAIN s = 1..Len(s) /\ DOMAIN r = 1..Len(r)
        BY <2>5
      <4> HIDE DEF r
      <4> SUFFICES ASSUME NEW i \in 1..Len(s), s[i] # m PROVE s[i] \in ToSet(r)
        BY DEF ToSet
      <4> QED
        BY <2>1, <3>1 DEF ToSet
    <3>3. ToSet(r) \subseteq ToSet(s) \ {m}
      BY <2>5, <2>6 DEF ToSet
    <3> QED
      BY <3>2, <3>3
  <2>9. IsInjective(r)
    BY <2>1, <2>5 DEF IsInjective
  <2> QED
    BY <2>7, <2>8, <2>9
<1>2. CASE ~\E i \in 1..Len(s) : s[i] = m
  <2>1. r = s
    BY <1>2 DEF RemoveFirst
  <2>2. s \in Seq(S \ {m}) /\ ToSet(s) = ToSet(s) \ {m}
    BY <1>2 DEF ToSet
  <2> QED
    BY <2>1, <2>2
<1> QED
  BY <1>1, <1>2

\* A model that moves to the end of the order, or enters it there.
LEMMA MovedToEnd ==
    ASSUME Order, NEW m,
           \/ gpuModels' = gpuModels /\ m \in DOMAIN gpuModels
           \/ \E c : gpuModels' = With(gpuModels, m, c),
           lru' = MoveToEnd(m)
    PROVE  Order' /\ Last(lru') = m
<1> DEFINE r == RemoveFirst(lru, m)
<1>1. DOMAIN gpuModels' = DOMAIN gpuModels \cup {m}
  BY DEF With
<1>2. r \in Seq(DOMAIN gpuModels \ {m}) /\ ToSet(r) = ToSet(lru) \ {m} /\ IsInjective(r)
  BY Unlinked DEF Order
<1>3. lru' = Append(r, m)
  BY DEF MoveToEnd
<1> HIDE DEF r
<1>4. /\ lru' \in Seq(DOMAIN gpuModels') /\ Len(lru') = Len(r) + 1 /\ lru'[Len(r) + 1] = m
      /\ \A i \in 1..Len(r) : lru'[i] = r[i] /\ r[i] # m
      /\ Len(r) \in Nat /\ DOMAIN r = 1..Len(r) /\ DOMAIN lru' = 1..(Len(r) + 1)
  <2>1. r \in Seq(DOMAIN gpuModels') /\ m \in DOMAIN gpuModels'
    BY <1>1, <1>2
  <2>2. \A i \in 1..Len(r) : r[i] # m
    BY <1>2
  <2> QED
    BY <1>3, <2>1, <2>2
<1>5. ToSet(lru') = ToSet(r) \cup {m}
  <2>1. \A i \in DOMAIN lru' : i \in DOMAIN r \/ i = Len(r) + 1
    BY <1>4
  <2>2. \A i \in DOMAIN r : i \in DOMAIN lru'
    BY <1>4
  <2>3. Len(r) + 1 \in DOMAIN lru'
    BY <1>4
  <2> QED
    BY <1>4, <2>1, <2>2, <2>3 DEF ToSet
<1>6. IsInjective(lru')
  BY <1>2, <1>4 DEF IsInjective
<1>7. ToSet(lru') = DOMAIN gpuModels'
  BY <1>1, <1>2, <1>5 DEF Order
<1> QED
  BY <1>4, <1>6, <1>7 DEF Order, Last

\* Every step of either thread keeps the structure of the order.
LEMMA OrderKept == ASSUME Order, [Next]_vars PROVE Order'
<1>0. ASSUME UNCHANGED <<gpuModels, lru>> PROVE Order'
  BY <1>0 DEF Order
<1>1. ASSUME NEW t \in Thread, MoveToGpu(t) PROVE Order'
  <2>1. CASE DropFromGpu(t)
    <3>1. CASE UNCHANGED <<gpuModels, lru>>
      BY <3>1, <1>0
    <3>2. ASSUME gpuModels' = Without(gpuModels, frame[t].victim),
                 lru' = RemoveFirst(lru, frame[t].victim)
          PROVE  Order'
      BY <3>2, Unlinked DEF Order, Without
    <3> QED
      BY <2>1, <3>1, <3>2 DEF DropFromGpu
  <2>2. CASE Publish(t)
    BY <2>2, MovedToEnd DEF Publish
  <2>3. CASE ~DropFromGpu(t) /\ ~Publish(t)
    BY <1>1, <2>3, <1>0 DEF MoveToGpu, CheckOnCpu, MeasureRoom, EvictNext, Demote, StoreOnCpu,
                       Transfer, Retire, Account, dicts
  <2> QED
    BY <2>1, <2>2, <2>3
<1>2. CASE MainStep
  BY <1>2, <1>0, <1>1 DEF MainStep, HandleModelLoading, RespondModelLoading, dicts, Thread
<1>3. CASE Touch
  BY <1>3, <1>0, MovedToEnd DEF Touch
<1>4. CASE LoadModel
  BY <1>4, <1>0, MovedToEnd DEF LoadModel
<1>5. CASE EnterLoaded
  BY <1>5, MovedToEnd DEF EnterLoaded
<1>6. CASE (\E task \in Task : EnsureModel(task)) \/ FindOnCpu \/ UseModel \/ ApplyPatches
           \/ FinishTask
  BY <1>6, <1>0 DEF EnsureModel, FindOnCpu, UseModel, ApplyPatches, FinishTask, dicts
<1>7. CASE UNCHANGED vars
  BY <1>7, <1>0 DEF vars
<1> QED
  BY <1>1, <1>2, <1>3, <1>4, <1>5, <1>6, <1>7 DEF Next, ProcessStep, Thread

\* The model that is wanted stays the last one until its task is over.
LEMMA RecentKept == ASSUME Order, IInv, Recent, [Next]_vars PROVE Recent'
<1> DEFINE held == {"retire", "account", "use", "patch", "execute"}
<1> USE DEF Goto, Raises, ModelOf
<1>0. pc \in [Thread -> Steps] /\ DOMAIN frame = Thread
      /\ \A t \in Thread : DOMAIN frame[t] = Fields
  BY DEF IInv, Typed
<1>1. CASE MainStep
  <2>1. pc["main"] # "idle" \/ preload # <<>>
    BY <1>1 DEF MainStep, HandleModelLoading, RespondModelLoading, MoveToGpu, CheckOnCpu, MeasureRoom,
                EvictNext, Demote, StoreOnCpu, DropFromGpu, Transfer, Publish, Retire, Account
  <2>2. pc["process"] = "idle"
    BY <2>1 DEF IInv, Alone
  <2>3. pc'["process"] = pc["process"]
    BY <1>0, <1>1 DEF MainStep, HandleModelLoading, RespondModelLoading, MoveToGpu, CheckOnCpu,
                 MeasureRoom, EvictNext, Demote, StoreOnCpu, DropFromGpu, Transfer, Publish, Retire,
                 Account, Thread
  <2> QED
    BY <2>2, <2>3 DEF Recent
<1>2. CASE Publish("process")
  <2>1. Last(lru') = ModelOf("process")
    BY <1>2, MovedToEnd DEF Publish
  <2> QED
    BY <1>2, <2>1 DEF Publish, Recent
<1>3. CASE Touch
  <2>1. CASE ModelOf("process") \in DOMAIN gpuModels
    <3>1. Last(lru') = ModelOf("process")
      BY <1>3, <2>1, MovedToEnd DEF Touch
    <3> QED
      BY <1>3, <3>1 DEF Touch, Recent
  <2>2. CASE ModelOf("process") \notin DOMAIN gpuModels
    BY <1>0, <1>3, <2>2 DEF Touch, Recent, Thread
  <2> QED
    BY <2>1, <2>2
<1>4. CASE LoadModel
  <2>1. CASE ModelOf("process") \in DOMAIN gpuModels
    <3>1. Last(lru') = ModelOf("process")
      BY <1>4, <2>1, MovedToEnd DEF LoadModel
    <3> QED
      BY <1>4, <2>1, <3>1 DEF LoadModel, Recent
  <2>2. CASE ModelOf("process") \notin DOMAIN gpuModels
    BY <1>0, <1>4, <2>2 DEF LoadModel, Recent, Thread
  <2> QED
    BY <2>1, <2>2
<1>5. CASE EnterLoaded
  <2>1. Last(lru') = ModelOf("process")
    BY <1>5, MovedToEnd DEF EnterLoaded
  <2> QED
    BY <1>5, <2>1 DEF EnterLoaded, Recent
<1>6. ASSUME MoveToGpu("process"), ~Publish("process") PROVE Recent'
  <2>1. CASE Retire("process") \/ Account("process")
    BY <1>0, <2>1 DEF Retire, Account, Recent, Thread
  <2>2. ASSUME ~Retire("process"), ~Account("process") PROVE pc'["process"] \notin held
    <3>1. CASE MeasureRoom("process") \/ EvictNext("process")
      <4>1. frame["process"].then \in {"move", "load"}
        BY <3>1 DEF IInv, Wanted, Alone, busy, step, fr, MeasureRoom, EvictNext
      <4> QED
        BY <1>0, <3>1, <4>1 DEF MeasureRoom, EvictNext, Thread
    <3>2. CASE ~MeasureRoom("process") /\ ~EvictNext("process")
      BY <1>0, <1>6, <2>2, <3>2 DEF MoveToGpu, CheckOnCpu, Demote, StoreOnCpu, DropFromGpu,
                                    Transfer, Thread
    <3> QED
      BY <3>1, <3>2
  <2> QED
    BY <2>1, <2>2 DEF Recent
<1>7. ASSUME NEW task \in Task, EnsureModel(task) PROVE Recent'
  BY <1>0, <1>7 DEF EnsureModel, Recent, Thread
<1>8. CASE FindOnCpu \/ FinishTask
  BY <1>0, <1>8 DEF FindOnCpu, FinishTask, Recent, Thread
<1>9. CASE UseModel \/ ApplyPatches
  <2>1. \/ frame'["process"].task = frame["process"].task /\ pc["process"] \in held /\ lru' = lru
        \/ pc'["process"] \notin held
    BY <1>0, <1>9 DEF UseModel, ApplyPatches, dicts, Thread, Fields
  <2> QED
    BY <2>1 DEF Recent
<1>10. CASE UNCHANGED vars
  BY <1>10 DEF vars, Recent
<1> QED
  BY <1>1, <1>2, <1>3, <1>4, <1>5, <1>6, <1>7, <1>8, <1>9, <1>10 DEF Next, ProcessStep

\* Evictions spare the model in use to the last: it is the most recently used
\* one, and the order names the models on the device, each once
\* (_ensure_model_in_gpu, _move_model_to_gpu, _move_model_to_cpu).
THEOREM ModelInUseIsLast == ASSUME ~EarlyTasks PROVE Spec => []LruOrder
<1>1. Init => Order /\ Recent
  BY DEF Init, Order, Recent, ToSet, IsInjective, Thread
<1>2. IInv /\ Order /\ Recent /\ [Next]_vars => Order' /\ Recent'
  BY OrderKept, RecentKept
<1>3. Order /\ Recent => LruOrder
  BY DEF Order, Recent, LruOrder
<1> QED
  BY <1>1, <1>2, <1>3, Invariant, PTL DEF Spec

-----------------------------------------------------------------------------
(***************************************************************************)
(* Room on the device.  Every copy is live while one thread at most is     *)
(* under way, so what is allocated is the sum over the copies there.       *)
(***************************************************************************)
Weight(cs) == [c \in DOMAIN cs |-> Base[cs[c].model]]
OnDevice(cs) == { c \in DOMAIN cs : cs[c].device = "gpu" }
Resident(cs) == SumFunctionOnSet(Weight(cs), OnDevice(cs))

\* The copies on the device are a finite set, and what they take is a number.
LEMMA ResidentType ==
    ASSUME NEW cs \in Seq(Copy)
    PROVE  /\ IsFiniteSet(OnDevice(cs)) /\ Resident(cs) \in Nat
           /\ \A c \in DOMAIN cs : Weight(cs)[c] \in Nat
<1>1. \A c \in DOMAIN cs : cs[c] \in Copy
  OBVIOUS
<1>2. \A c \in DOMAIN cs : Weight(cs)[c] \in Nat
  BY <1>1, ModelCacheAssumption DEF Weight, Copy
<1>3. IsFiniteSet(1 .. Len(cs)) /\ DOMAIN cs = 1 .. Len(cs)
  BY FS_Interval
<1>4. OnDevice(cs) \subseteq DOMAIN cs
  BY DEF OnDevice
<1>5. IsFiniteSet(OnDevice(cs))
  BY <1>3, <1>4, FS_Subset
<1>6. \A c \in OnDevice(cs) : Weight(cs)[c] \in Nat
  BY <1>2, <1>4
<1> QED
  BY <1>2, <1>5, <1>6, SumMonotone DEF Resident

\* One more copy is on the device.
LEMMA ResidentPlus ==
    ASSUME NEW cs \in Seq(Copy), NEW ds \in Seq(Copy), NEW e \in DOMAIN ds,
           DOMAIN cs \subseteq DOMAIN ds, \A c \in DOMAIN cs : ds[c].model = cs[c].model,
           OnDevice(ds) = OnDevice(cs) \cup {e}, e \notin OnDevice(cs)
    PROVE  Resident(ds) = Base[ds[e].model] + Resident(cs)
<1>1. \A c \in OnDevice(cs) : Weight(cs)[c] \in Int /\ Weight(ds)[c] = Weight(cs)[c]
  <2>1. \A c \in OnDevice(cs) : c \in DOMAIN cs
    BY DEF OnDevice
  <2> QED
    BY <2>1, ResidentType DEF Weight
<1>2. Weight(ds)[e] = Base[ds[e].model] /\ Weight(ds)[e] \in Int
  BY ResidentType DEF Weight
<1>3. IsFiniteSet(OnDevice(cs))
  BY ResidentType
<1>4. SumFunctionOnSet(Weight(ds), OnDevice(ds))
        = Weight(ds)[e] + SumFunctionOnSet(Weight(ds), OnDevice(cs))
  BY <1>1, <1>2, <1>3, SumAdd
<1>5. SumFunctionOnSet(Weight(ds), OnDevice(cs)) = SumFunctionOnSet(Weight(cs), OnDevice(cs))
  BY <1>1, <1>3, SumSame
<1> QED
  BY <1>2, <1>4, <1>5 DEF Resident

\* A copy that comes to the device adds its weight, and one that leaves it
\* takes its weight away.
LEMMA Transferred ==
    ASSUME NEW cs \in Seq(Copy), NEW ds \in Seq(Copy), NEW e \in DOMAIN cs,
           DOMAIN ds = DOMAIN cs, \A c \in DOMAIN cs : ds[c].model = cs[c].model,
           \A c \in DOMAIN cs \ {e} : ds[c].device = cs[c].device,
           cs[e].device = "cpu", ds[e].device = "gpu"
    PROVE  Resident(ds) = Base[cs[e].model] + Resident(cs)
<1>1. OnDevice(ds) = OnDevice(cs) \cup {e} /\ e \notin OnDevice(cs)
  BY DEF OnDevice
<1>2. ds[e].model = cs[e].model /\ e \in DOMAIN ds
  OBVIOUS
<1> QED
  BY <1>1, <1>2, ResidentPlus

\* The sum of ModelCache is the sum of a function.
LEMMA AllocatedUnfolded ==
    ASSUME NEW S
    PROVE  MapThenSumSet(LAMBDA c : Base[copies[c].model], S) =
             (CHOOSE g : g = [T \in SUBSET S |->
                IF T = {} THEN 0
                ELSE Base[copies[CHOOSE x \in T : TRUE].model]
                     + g[T \ {CHOOSE x \in T : TRUE}]])[S]
BY DEF MapThenSumSet, MapThenFoldSet

\* The memory of a set of copies is the sum of their weights.
LEMMA AllocatedSum ==
    ASSUME copies \in Seq(Copy), NEW S \in SUBSET DOMAIN copies
    PROVE  MapThenSumSet(LAMBDA c : Base[copies[c].model], S)
             = SumFunctionOnSet(Weight(copies), S)
<1> DEFINE f == Weight(copies)
           Body(g) == [T \in SUBSET S |->
                IF T = {} THEN 0
                ELSE Base[copies[CHOOSE x \in T : TRUE].model]
                     + g[T \ {CHOOSE x \in T : TRUE}]]
           s == CHOOSE k : k = Body(k)
<1>1. IsFiniteSet(S) /\ \A c \in S : f[c] \in Int
  <2>1. IsFiniteSet(DOMAIN copies)
    BY FS_Interval
  <2> QED
    BY <2>1, ResidentType, FS_Subset
<1>2. \A T \in SUBSET S : T # {} =>
        f[CHOOSE x \in T : TRUE] = Base[copies[CHOOSE x \in T : TRUE].model]
  BY DEF Weight
<1> HIDE DEF f
<1>3. PICK g : /\ SumFunctionOnSet(f, S) = g[S] /\ SumsOver(g, f, S)
               /\ g = [T \in SUBSET S |-> g[T]]
  BY <1>1, SumDefined
<1>4. g = Body(g)
  <2>1. \A T \in SUBSET S : g[T] = Body(g)[T]
    BY <1>2, <1>3 DEF SumsOver
  <2>2. DOMAIN g = SUBSET S /\ DOMAIN Body(g) = SUBSET S
    BY <1>3
  <2>3. Body(g) = [T \in SUBSET S |-> Body(g)[T]]
    OBVIOUS
  <2> QED
    BY <1>3, <2>1
<1>5. s = Body(s)
  BY <1>4
<1>6. MapThenSumSet(LAMBDA c : Base[copies[c].model], S) = s[S]
  BY AllocatedUnfolded
<1> HIDE DEF s
<1>7. SumsOver(s, f, S)
  <2>1. \A T \in SUBSET S :
          s[T] = IF T = {} THEN 0
                 ELSE Base[copies[CHOOSE x \in T : TRUE].model] + s[T \ {CHOOSE x \in T : TRUE}]
    BY <1>5
  <2>2. ASSUME NEW T \in SUBSET S, T # {}
        PROVE  s[T] = f[CHOOSE x \in T : TRUE] + s[T \ {CHOOSE x \in T : TRUE}]
    BY <1>2, <2>1, <2>2
  <2> QED
    BY <2>1, <2>2 DEF SumsOver
<1>8. s[S] = g[S]
  BY <1>1, <1>3, <1>7, SumUnique
<1> QED
  BY <1>3, <1>6, <1>8 DEF f

\* Outside the execution of a task, the resident copies are what is allocated.
LEMMA AllocatedIsResident ==
    ASSUME IInv, pc["process"] # "execute"
    PROVE  Allocated = Resident(copies)
<1>1. \A c \in DOMAIN copies : Live(c)
  <2> SUFFICES ASSUME NEW c \in DOMAIN copies PROVE Live(c)
    OBVIOUS
  <2> DEFINE m == copies[c].model
  <2>1. CASE m \in DOMAIN gpuModels
    <3>1. gpuModels[m] = c
      BY <2>1 DEF IInv, Entries, OneCopy
    <3> QED
      BY <2>1, <3>1 DEF Live
  <2>2. CASE m \in DOMAIN cpuModels
    <3>1. cpuModels[m] = c
      BY <2>2 DEF IInv, Entries, OneCopy
    <3> QED
      BY <2>2, <3>1 DEF Live
  <2>3. CASE step = "enter" /\ fr.copy = c
    BY <2>3 DEF Live, step, fr, busy, Thread
  <2> QED
    BY <2>1, <2>2, <2>3 DEF IInv, Entries
<1>2. { c \in DOMAIN copies : Live(c) /\ copies[c].device = "gpu" } = OnDevice(copies)
  BY <1>1 DEF OnDevice
<1>3. copies \in Seq(Copy)
  BY DEF IInv, Typed
<1>4. MapThenSumSet(LAMBDA c : Base[copies[c].model], OnDevice(copies)) = Resident(copies)
  BY <1>3, AllocatedSum DEF Resident, OnDevice
<1>5. Activations = 0
  BY DEF Activations
<1>6. Allocated = Resident(copies) + 0
  BY <1>2, <1>4, <1>5 DEF Allocated
<1> QED
  BY <1>3, <1>6, ResidentType

\* What the copies on the device leave too little for the task under way.
Over == (fr.task.peak + Resident(copies)) - Capacity

\* Until the wanted model is in, its task fits the device; during the eviction,
\* need is what still must be freed; and afterwards there is enough.
RoomInv ==
    /\ \A i \in 1..Len(preload) : PreloadPeak[preload[i]] <= Capacity
    /\ step \in {"check", "findCpu", "room", "evict", "demote", "store", "drop", "move",
                 "publish", "load", "enter"} =>
         fr.task.peak \in Nat /\ fr.task.peak <= Capacity
    /\ step \in {"evict", "store", "drop"} => fr.need = Over
    /\ step = "demote" => fr.victim \in DOMAIN gpuModels /\ fr.need = Over - Base[fr.victim]
    /\ step \in {"move", "load"} => Over <= 0
    /\ step \in {"publish", "enter"} => Over - Base[wanted] <= 0

\* The sums that the steps change, as integers.
LEMMA RoomArithmetic ==
    ASSUME NEW peak \in Nat, NEW resident \in Nat, NEW capacity \in Nat, NEW base \in Nat
    PROVE  /\ peak - (capacity - resident) = (peak + resident) - capacity
           /\ (peak + resident) - capacity \in Int
           /\ peak <= capacity => (peak + 0) - capacity <= 0
  OBVIOUS

\* A model fits beside the others when the room was made for it.
LEMMA CopyFits ==
    ASSUME NEW peak \in Nat, NEW resident \in Nat, NEW capacity \in Nat, NEW base \in Nat,
           (peak + resident) - capacity <= 0
    PROVE  (peak + (base + resident)) - capacity - base <= 0
  OBVIOUS

\* The steps at which the room matters.
RoomSteps == {"check", "findCpu", "room", "evict", "demote", "store", "drop", "move",
              "publish", "load", "enter"}

\* Nothing is claimed of the room at the other steps.
LEMMA RoomElsewhere ==
    ASSUME RoomInv, preload' = preload, step' \notin RoomSteps
    PROVE  RoomInv'
BY DEF RoomInv, RoomSteps

\* What a step of a thread under way leaves as it was.
LEMMA RoomFrame ==
    ASSUME IInv, RoomInv, NEW t \in Thread, pc[t] \in RoomSteps,
           NEW s, s # "idle", pc' = [pc EXCEPT ![t] = s], preload' = preload,
           frame'[t].task = frame[t].task
    PROVE  /\ busy = t /\ step = pc[t] /\ fr = frame[t] /\ wanted = ModelOf(t)
           /\ step' = s /\ fr' = frame'[t] /\ wanted' = wanted
           /\ fr.task.peak \in Nat /\ fr.task.peak <= Capacity /\ fr'.task = fr.task
           /\ Resident(copies) \in Nat /\ wanted \in Model
           /\ DOMAIN frame = Thread /\ DOMAIN frame[t] = Fields
           /\ \A i \in 1..Len(preload') : PreloadPeak[preload'[i]] <= Capacity
<1>1. Typed /\ Alone /\ pc[t] # "idle" /\ copies \in Seq(Copy)
  BY DEF IInv, Typed, RoomSteps
<1>2. /\ busy = t /\ step = pc[t] /\ fr = frame[t] /\ wanted = ModelOf(t)
      /\ step' = s /\ fr' = frame'[t] /\ wanted' = frame'[t].task.model
  BY <1>1, View
<1>3. wanted' = wanted /\ wanted \in Model
  BY <1>1, <1>2 DEF Typed, ModelOf
<1>4. fr.task.peak \in Nat /\ fr.task.peak <= Capacity
  BY <1>2 DEF RoomInv, RoomSteps
<1>5. Resident(copies) \in Nat
  BY <1>1, ResidentType
<1> QED
  BY <1>1, <1>2, <1>3, <1>4, <1>5 DEF RoomInv, Typed

\* A look into the dictionaries leaves the copies alone.
LEMMA RoomLook ==
    ASSUME IInv, RoomInv, NEW t \in Thread, CheckOnCpu(t) \/ (t = "process" /\ FindOnCpu)
    PROVE  RoomInv'
<1> DEFINE s == IF CheckOnCpu(t)
                THEN IF ModelOf(t) \in DOMAIN cpuModels THEN "room"
                     ELSE IF t = "main" THEN "respond" ELSE "dead"
                ELSE IF ModelOf("process") \in DOMAIN cpuModels THEN "check" ELSE "room"
<1>1. /\ pc[t] \in RoomSteps /\ pc' = [pc EXCEPT ![t] = s] /\ s # "idle"
      /\ s \in {"room", "check", "respond", "dead"}
      /\ UNCHANGED <<copies, preload>>
  BY DEF CheckOnCpu, FindOnCpu, Goto, Raises, RoomSteps, dicts
<1>2. frame'[t].task = frame[t].task
  <2>1. CASE CheckOnCpu(t)
    BY <2>1 DEF CheckOnCpu
  <2>2. CASE t = "process" /\ FindOnCpu
    <3>1. DOMAIN frame = Thread /\ DOMAIN frame[t] = Fields
      BY DEF IInv, Typed
    <3> QED
      BY <2>2, <3>1 DEF FindOnCpu, Thread, Fields
  <2> QED
    BY <2>1, <2>2
<1> HIDE DEF s
<1>3. /\ step' = s /\ fr'.task = fr.task /\ fr.task.peak \in Nat /\ fr.task.peak <= Capacity
      /\ \A i \in 1..Len(preload') : PreloadPeak[preload'[i]] <= Capacity
  BY <1>1, <1>2, RoomFrame
<1> QED
  BY <1>1, <1>3 DEF RoomInv

\* What is measured is what the resident copies leave too little.
LEMMA RoomMeasured ==
    ASSUME IInv, RoomInv, NEW t \in Thread, MeasureRoom(t)
    PROVE  RoomInv'
<1> DEFINE short == Shortage(frame[t].task)
           s == IF short > 0 THEN "evict" ELSE frame[t].then
<1>1. /\ pc[t] = "room" /\ pc' = [pc EXCEPT ![t] = s] /\ UNCHANGED <<copies, preload>>
      /\ frame' = [frame EXCEPT ![t].need = short]
  BY DEF MeasureRoom, Goto, dicts
<1>2. /\ DOMAIN frame = Thread /\ DOMAIN frame[t] = Fields
  BY DEF IInv, Typed
<1>3. frame'[t].task = frame[t].task /\ frame'[t].need = short
  BY <1>1, <1>2 DEF Fields
<1>4. busy = t /\ step = "room" /\ fr = frame[t]
  BY <1>1 DEF IInv, Alone, Thread, busy, step, fr
<1>5. frame[t].then \in {"move", "load"}
  BY <1>4 DEF IInv, Wanted
<1>6. pc["process"] # "execute"
  BY <1>1 DEF IInv, Alone, Thread
<1>7. short = fr.task.peak - (Capacity - Resident(copies))
  BY <1>4, <1>6, AllocatedIsResident DEF Shortage
<1> HIDE DEF short
<1>8. s \in {"evict", "move", "load"} /\ s # "idle"
  BY <1>5
<1> HIDE DEF s
<1>9. /\ step' = s /\ fr' = frame'[t] /\ fr'.task = fr.task
      /\ fr.task.peak \in Nat /\ fr.task.peak <= Capacity /\ Resident(copies) \in Nat
      /\ \A i \in 1..Len(preload') : PreloadPeak[preload'[i]] <= Capacity
  BY <1>1, <1>3, <1>8, RoomFrame DEF RoomSteps
<1>10. short = Over /\ Over \in Int
  BY <1>7, <1>9, RoomArithmetic, ModelCacheAssumption DEF Over
<1>11. s \in {"move", "load"} => Over <= 0
  <2>1. s \in {"move", "load"} => ~(Over > 0)
    BY <1>10 DEF s
  <2> QED
    BY <1>10, <2>1
<1>12. fr'.need = Over' /\ Over' = Over
  BY <1>1, <1>3, <1>9, <1>10 DEF Over
<1> QED
  BY <1>8, <1>9, <1>11, <1>12 DEF RoomInv

\* The victim is on the device and accounted with its parameters; with none
\* left nothing is on the device.
LEMMA RoomVictim ==
    ASSUME IInv, RoomInv, Order, NEW t \in Thread, EvictNext(t)
    PROVE  RoomInv'
<1>1. /\ pc[t] = "evict" /\ UNCHANGED <<copies, gpuModels, preload>>
      /\ pc[t] \in RoomSteps
  BY DEF EvictNext, dicts, RoomSteps
<1>2. /\ DOMAIN frame = Thread /\ DOMAIN frame[t] = Fields
  BY DEF IInv, Typed
<1>3. busy = t /\ step = "evict" /\ fr = frame[t]
  BY <1>1 DEF IInv, Alone, Thread, busy, step, fr
<1>4. fr.need = Over
  BY <1>3 DEF RoomInv
<1>5. CASE frame[t].need > 0 /\ lru # <<>>
  <2> DEFINE v == Head(lru)
  <2>1. /\ pc' = [pc EXCEPT ![t] = "demote"]
        /\ frame' = [frame EXCEPT ![t].victim = v, ![t].need = @ - usage[v]]
    BY <1>5 DEF EvictNext, Goto
  <2>2. /\ frame'[t].task = frame[t].task /\ frame'[t].victim = v
        /\ frame'[t].need = frame[t].need - usage[v]
    BY <1>2, <2>1 DEF Fields
  <2>3. v \in DOMAIN gpuModels /\ v \in Model
    BY <1>5 DEF Order, IInv, Entries
  <2>4. usage[v] = Base[v]
    BY <1>3, <2>3 DEF IInv, Places
  <2> HIDE DEF v
  <2>5. /\ step' = "demote" /\ fr' = frame'[t] /\ fr'.task = fr.task
        /\ fr.task.peak \in Nat /\ fr.task.peak <= Capacity
        /\ \A i \in 1..Len(preload') : PreloadPeak[preload'[i]] <= Capacity
    BY <1>1, <2>1, <2>2, RoomFrame
  <2>6. fr'.need = Over - Base[v] /\ fr'.victim = v
    BY <1>3, <1>4, <2>2, <2>4, <2>5
  <2>7. Over' = Over
    BY <1>1, <2>5 DEF Over
  <2> QED
    BY <1>1, <2>3, <2>5, <2>6, <2>7 DEF RoomInv
<1>6. CASE ~(frame[t].need > 0 /\ lru # <<>>)
  <2> DEFINE s == frame[t].then
  <2>1. pc' = [pc EXCEPT ![t] = s] /\ frame' = frame
    BY <1>6 DEF EvictNext, Goto
  <2>2. s \in {"move", "load"}
    BY <1>3 DEF IInv, Wanted
  <2> HIDE DEF s
  <2>3. /\ step' = s /\ fr' = frame'[t] /\ fr'.task = fr.task
        /\ fr.task.peak \in Nat /\ fr.task.peak <= Capacity /\ Resident(copies) \in Nat
        /\ \A i \in 1..Len(preload') : PreloadPeak[preload'[i]] <= Capacity
    BY <1>1, <2>1, <2>2, RoomFrame
  <2>4. Over <= 0
    <3>1. CASE ~(frame[t].need > 0)
      <4>1. Over \in Int /\ ~(Over > 0)
        BY <1>3, <1>4, <2>3, <3>1, RoomArithmetic, ModelCacheAssumption DEF Over
      <4> QED
        BY <4>1
    <3>2. CASE lru = <<>>
      <4>1. DOMAIN gpuModels = {}
        BY <3>2 DEF Order, ToSet
      <4>2. \A c \in DOMAIN copies : copies[c].device = "cpu"
        <5> SUFFICES ASSUME NEW c \in DOMAIN copies PROVE copies[c].device = "cpu"
          OBVIOUS
        <5>1. copies[c].model \in DOMAIN cpuModels
          BY <1>3, <4>1 DEF IInv, Entries
        <5>2. cpuModels[copies[c].model] = c
          BY <5>1 DEF IInv, Entries, OneCopy
        <5> QED
          BY <1>3, <5>1, <5>2 DEF IInv, Places
      <4>3. OnDevice(copies) = {}
        BY <4>2 DEF OnDevice
      <4>4. Resident(copies) = 0
        BY <4>3, SumEmpty DEF Resident
      <4> QED
        BY <2>3, <4>4, RoomArithmetic, ModelCacheAssumption DEF Over
    <3> QED
      BY <1>6, <3>1, <3>2
  <2>5. Over' = Over
    BY <1>1, <2>3 DEF Over
  <2> QED
    BY <2>2, <2>3, <2>4, <2>5 DEF RoomInv
<1> QED
  BY <1>5, <1>6

\* The victim leaves the device: its parameters are what need was lowered by.
LEMMA RoomDemoted ==
    ASSUME IInv, IInv', RoomInv, NEW t \in Thread, Demote(t)
    PROVE  RoomInv'
<1> DEFINE v == frame[t].victim
           c == gpuModels[v]
<1>1. /\ pc[t] = "demote" /\ pc[t] \in RoomSteps /\ UNCHANGED <<gpuModels, preload>>
  BY DEF Demote, dicts, RoomSteps
<1>2. /\ DOMAIN frame = Thread /\ DOMAIN frame[t] = Fields
  BY DEF IInv, Typed
<1>3. busy = t /\ step = "demote" /\ fr = frame[t]
  BY <1>1 DEF IInv, Alone, Thread, busy, step, fr
<1>4. v \in DOMAIN gpuModels /\ fr.need = Over - Base[v]
  BY <1>3 DEF RoomInv
<1>5. /\ pc' = [pc EXCEPT ![t] = "store"] /\ frame' = [frame EXCEPT ![t].copy = c]
      /\ copies' = [copies EXCEPT ![c].device = "cpu"]
  BY <1>4 DEF Demote, Goto
<1>6. c \in DOMAIN copies /\ copies[c].model = v /\ copies \in Seq(Copy) /\ v \in Model
      /\ copies[c].device = "gpu"
  BY <1>3, <1>4 DEF IInv, Entries, Typed, Places
<1>7. frame'[t].task = frame[t].task /\ frame'[t].need = frame[t].need
  BY <1>2, <1>5 DEF Fields
<1> HIDE DEF v, c
<1>8. /\ copies' \in Seq(Copy) /\ DOMAIN copies' = DOMAIN copies
      /\ \A d \in DOMAIN copies : /\ copies'[d].model = copies[d].model
                                  /\ d # c => copies'[d].device = copies[d].device
      /\ copies'[c].device = "cpu"
  BY <1>5, <1>6, Relocated
<1>9. Resident(copies) = Base[v] + Resident(copies')
  BY <1>6, <1>8, Transferred
<1>10. /\ step' = "store" /\ fr' = frame'[t] /\ fr'.task = fr.task
       /\ fr.task.peak \in Nat /\ fr.task.peak <= Capacity
       /\ \A i \in 1..Len(preload') : PreloadPeak[preload'[i]] <= Capacity
  BY <1>1, <1>5, <1>7, RoomFrame
<1>11. Base[v] \in Nat /\ Resident(copies') \in Nat /\ Capacity \in Nat
  BY <1>6, <1>8, ResidentType, ModelCacheAssumption
<1>12. Over' = Over - Base[v]
  <2>1. (fr.task.peak + (Base[v] + Resident(copies'))) - Capacity - Base[v]
          = (fr.task.peak + Resident(copies')) - Capacity
    <3> DEFINE p == fr.task.peak
               r == Resident(copies')
               b == Base[v]
    <3>1. p \in Nat /\ r \in Nat /\ b \in Nat /\ Capacity \in Nat
      BY <1>10, <1>11
    <3> HIDE DEF p, r, b
    <3>2. (p + (b + r)) - Capacity - b = (p + r) - Capacity
      BY <3>1
    <3> QED
      BY <3>2 DEF p, r, b
  <2>2. Over = (fr.task.peak + (Base[v] + Resident(copies'))) - Capacity
    BY <1>9 DEF Over
  <2>3. Over' = (fr.task.peak + Resident(copies')) - Capacity
    BY <1>10 DEF Over
  <2> QED
    BY <2>1, <2>2, <2>3, Zenon
<1>13. fr'.need = Over'
  BY <1>3, <1>4, <1>7, <1>10, <1>12
<1> QED
  BY <1>10, <1>13 DEF RoomInv

\* The entry of an evicted model changes dictionaries, its copy has moved before.
LEMMA RoomStored ==
    ASSUME IInv, RoomInv, NEW t \in Thread, StoreOnCpu(t) \/ DropFromGpu(t)
    PROVE  RoomInv'
<1> DEFINE s == IF StoreOnCpu(t) THEN "drop" ELSE "evict"
<1>1. /\ pc[t] \in {"store", "drop"} /\ pc[t] \in RoomSteps
      /\ UNCHANGED <<copies, frame, preload>>
  BY DEF StoreOnCpu, DropFromGpu, RoomSteps
<1>2. busy = t /\ step = pc[t] /\ fr = frame[t]
  BY <1>1 DEF IInv, Alone, Thread, busy, step, fr
<1>3. frame[t].victim \in DOMAIN gpuModels
  BY <1>1, <1>2 DEF IInv, Held
<1>4. pc' = [pc EXCEPT ![t] = s]
  <2>1. CASE StoreOnCpu(t)
    BY <2>1 DEF StoreOnCpu, Goto
  <2>2. CASE ~StoreOnCpu(t) /\ DropFromGpu(t)
    BY <1>3, <2>2 DEF DropFromGpu, Goto
  <2> QED
    BY <2>1, <2>2
<1>5. s \in {"drop", "evict"}
  OBVIOUS
<1> HIDE DEF s
<1>6. /\ step' = s /\ fr' = frame'[t]
      /\ fr.task.peak \in Nat /\ fr.task.peak <= Capacity
      /\ \A i \in 1..Len(preload') : PreloadPeak[preload'[i]] <= Capacity
  BY <1>1, <1>4, <1>5, RoomFrame
<1>7. fr.need = Over
  BY <1>1, <1>2 DEF RoomInv
<1>8. fr' = fr /\ Over' = Over
  BY <1>1, <1>2, <1>6 DEF Over
<1> QED
  BY <1>1, <1>5, <1>6, <1>7, <1>8 DEF RoomInv

\* The model comes in, by a transfer ...
LEMMA RoomMoved ==
    ASSUME IInv, RoomInv, NEW t \in Thread, Transfer(t)
    PROVE  RoomInv'
<1> DEFINE m == ModelOf(t)
           c == cpuModels[m]
<1>1. /\ pc[t] = "move" /\ pc[t] \in RoomSteps /\ UNCHANGED preload
  BY DEF Transfer, RoomSteps
<1>2. /\ DOMAIN frame = Thread /\ DOMAIN frame[t] = Fields
  BY DEF IInv, Typed
<1>3. busy = t /\ step = "move" /\ fr = frame[t] /\ wanted = m
  BY <1>1 DEF IInv, Alone, Thread, busy, step, fr, wanted, ModelOf
<1>4. m \in DOMAIN cpuModels
  BY <1>3 DEF IInv, Wanted
<1>5. /\ pc' = [pc EXCEPT ![t] = "publish"] /\ frame' = [frame EXCEPT ![t].copy = c]
      /\ copies' = [copies EXCEPT ![c].device = "gpu"]
  BY <1>4 DEF Transfer, Goto
<1>6. c \in DOMAIN copies /\ copies[c].model = m /\ copies \in Seq(Copy) /\ m \in Model
      /\ copies[c].device = "cpu"
  BY <1>3, <1>4 DEF IInv, Entries, Typed, Places
<1>7. frame'[t].task = frame[t].task
  BY <1>2, <1>5 DEF Fields
<1> HIDE DEF m, c
<1>8. /\ copies' \in Seq(Copy) /\ DOMAIN copies' = DOMAIN copies
      /\ \A d \in DOMAIN copies : /\ copies'[d].model = copies[d].model
                                  /\ d # c => copies'[d].device = copies[d].device
      /\ copies'[c].device = "gpu"
  BY <1>5, <1>6, Relocated
<1>9. Resident(copies') = Base[m] + Resident(copies)
  BY <1>6, <1>8, Transferred
<1>10. /\ step' = "publish" /\ fr' = frame'[t] /\ fr'.task = fr.task /\ wanted' = wanted
       /\ fr.task.peak \in Nat /\ fr.task.peak <= Capacity /\ Resident(copies) \in Nat
       /\ \A i \in 1..Len(preload') : PreloadPeak[preload'[i]] <= Capacity
  BY <1>1, <1>5, <1>7, RoomFrame
<1>11. Base[m] \in Nat /\ Capacity \in Nat
  BY <1>6, ModelCacheAssumption
<1>12. (fr.task.peak + Resident(copies)) - Capacity <= 0
  BY <1>3 DEF RoomInv, Over
<1>13. (fr.task.peak + (Base[m] + Resident(copies))) - Capacity - Base[m] <= 0
  <2>1. fr.task.peak \in Nat /\ Resident(copies) \in Nat
    BY <1>10
  <2> QED
    BY <1>11, <1>12, <2>1, CopyFits, Zenon
<1>14. Over' - Base[wanted'] <= 0
  <2>1. Over' = (fr.task.peak + (Base[m] + Resident(copies))) - Capacity
    BY <1>9, <1>10 DEF Over
  <2> QED
    BY <1>3, <1>10, <1>13, <2>1, Zenon
<1> QED
  BY <1>10, <1>14 DEF RoomInv

\* ... or as a new copy.
LEMMA RoomLoaded ==
    ASSUME IInv, IInv', RoomInv, LoadModel
    PROVE  RoomInv'
<1> DEFINE m == ModelOf("process")
           e == Len(copies) + 1
           new == [model |-> m, device |-> "gpu", patches |-> {}]
<1>1. /\ pc["process"] = "load" /\ pc["process"] \in RoomSteps /\ UNCHANGED preload
      /\ "process" \in Thread
  BY DEF LoadModel, RoomSteps, Thread
<1>2. /\ DOMAIN frame = Thread /\ DOMAIN frame["process"] = Fields
  BY DEF IInv, Typed, Thread
<1>3. busy = "process" /\ step = "load" /\ fr = frame["process"] /\ wanted = m
  BY <1>1 DEF IInv, Alone, Thread, busy, step, fr, wanted, ModelOf
<1>4. m \notin DOMAIN gpuModels
  BY <1>3 DEF IInv, Wanted
<1>5. /\ pc' = [pc EXCEPT !["process"] = "enter"]
      /\ frame' = [frame EXCEPT !["process"].copy = e] /\ copies' = Append(copies, new)
  BY <1>4 DEF LoadModel, Goto
<1>6. frame'["process"].task = frame["process"].task
  BY <1>1, <1>2, <1>5 DEF Fields
<1>7. copies \in Seq(Copy) /\ copies' \in Seq(Copy)
  BY DEF IInv, Typed
<1>8. /\ DOMAIN copies' = DOMAIN copies \cup {e} /\ e \notin DOMAIN copies
      /\ \A c \in DOMAIN copies : copies'[c] = copies[c]
      /\ copies'[e] = new
  BY <1>5, <1>7
<1>9. copies'[e].device = "gpu" /\ copies'[e].model = m
  BY <1>8
<1> HIDE DEF m, e, new
<1>10. OnDevice(copies') = OnDevice(copies) \cup {e} /\ e \notin OnDevice(copies)
  BY <1>8, <1>9 DEF OnDevice
<1>11. /\ e \in DOMAIN copies' /\ DOMAIN copies \subseteq DOMAIN copies'
       /\ \A c \in DOMAIN copies : copies'[c].model = copies[c].model
  BY <1>8
<1>12. Resident(copies') = Base[m] + Resident(copies)
  BY <1>7, <1>9, <1>10, <1>11, ResidentPlus
<1>13. /\ step' = "enter" /\ fr' = frame'["process"] /\ fr'.task = fr.task /\ wanted' = wanted
       /\ fr.task.peak \in Nat /\ fr.task.peak <= Capacity /\ Resident(copies) \in Nat
       /\ wanted \in Model
       /\ \A i \in 1..Len(preload') : PreloadPeak[preload'[i]] <= Capacity
  BY <1>1, <1>5, <1>6, RoomFrame
<1>14. Base[m] \in Nat /\ Capacity \in Nat
  BY <1>3, <1>13, ModelCacheAssumption
<1>15. (fr.task.peak + Resident(copies)) - Capacity <= 0
  BY <1>3 DEF RoomInv, Over
<1>16. (fr.task.peak + (Base[m] + Resident(copies))) - Capacity - Base[m] <= 0
  <2>1. fr.task.peak \in Nat /\ Resident(copies) \in Nat
    BY <1>13
  <2> QED
    BY <1>14, <1>15, <2>1, CopyFits, Zenon
<1>17. Over' - Base[wanted'] <= 0
  <2>1. Over' = (fr.task.peak + (Base[m] + Resident(copies))) - Capacity
    BY <1>12, <1>13 DEF Over
  <2> QED
    BY <1>3, <1>13, <1>16, <2>1, Zenon
<1> QED
  BY <1>13, <1>17 DEF RoomInv

\* A preload message or a task begins.
LEMMA RoomBegun ==
    ASSUME IInv, RoomInv, ~EarlyTasks,
           HandleModelLoading \/ \E task \in Task : EnsureModel(task)
    PROVE  RoomInv'
<1>0. DOMAIN frame = Thread /\ pc \in [Thread -> Steps]
  BY DEF IInv, Typed
<1>1. CASE HandleModelLoading
  <2> DEFINE m == Head(preload)
             task == [model |-> m, peak |-> PreloadPeak[m], patches |-> {}]
             new == [NoFrame EXCEPT !.task = task]
  <2>1. /\ pc' = [pc EXCEPT !["main"] = "check"] /\ preload # <<>> /\ preload' = Tail(preload)
        /\ frame' = [frame EXCEPT !["main"] = new] /\ copies' = copies
    BY <1>1 DEF HandleModelLoading, Goto
  <2>2. busy' = "main" /\ step' = "check" /\ fr' = new
    BY <1>0, <2>1 DEF busy, step, fr, Thread
  <2>3. new.task.peak = PreloadPeak[m]
    BY DEF NoFrame
  <2>4. preload \in Seq(Model)
    BY DEF IInv, Typed
  <2>5. /\ m = preload[1] /\ m \in Model /\ 1 \in 1..Len(preload)
        /\ Len(preload') = Len(preload) - 1 /\ Len(preload) \in Nat
        /\ \A i \in 1..Len(preload') : preload'[i] = preload[i + 1] /\ i + 1 \in 1..Len(preload)
    BY <2>1, <2>4
  <2>6. PreloadPeak[m] \in Nat /\ PreloadPeak[m] <= Capacity
    BY <2>5, ModelCacheAssumption DEF RoomInv
  <2>7. \A i \in 1..Len(preload') : PreloadPeak[preload'[i]] <= Capacity
    BY <2>5 DEF RoomInv
  <2>8. fr'.task.peak = PreloadPeak[m]
    BY <2>2, <2>3
  <2> QED
    BY <2>2, <2>6, <2>7, <2>8 DEF RoomInv
<1>2. ASSUME NEW task \in Task, EnsureModel(task) PROVE RoomInv'
  <2> DEFINE new == [NoFrame EXCEPT !.task = task]
             s == IF ~IsValid(task) THEN "dead"
                  ELSE IF task.model \in DOMAIN gpuModels THEN "touch" ELSE "findCpu"
  <2>1. /\ pc["main"] = "idle" /\ pc' = [pc EXCEPT !["process"] = s] /\ preload' = preload
        /\ frame' = [frame EXCEPT !["process"] = new]
    BY <1>2 DEF EnsureModel, PreloadOver, Goto, Raises
  <2>2. busy' = "process" /\ step' = s /\ fr' = new
    BY <1>0, <2>1 DEF busy, step, fr, Thread
  <2>3. fr'.task = task /\ task.peak \in Nat
    BY <2>2, ModelCacheAssumption DEF NoFrame
  <2>4. s \in RoomSteps => s = "findCpu" /\ task.peak <= Capacity
    BY DEF IsValid, RoomSteps
  <2> HIDE DEF s, new
  <2> QED
    BY <2>1, <2>2, <2>3, <2>4 DEF RoomInv, RoomSteps
<1> QED
  BY <1>1, <1>2

\* Every step keeps the room.
LEMMA RoomKept == ASSUME IInv, IInv', Order, RoomInv, ~EarlyTasks, [Next]_vars PROVE RoomInv'
<1>0. pc \in [Thread -> Steps]
  BY DEF IInv, Typed
<1>1. ASSUME NEW t \in Thread, pc[t] # "idle", NEW s, s \notin RoomSteps,
             pc' = [pc EXCEPT ![t] = s], preload' = preload
      PROVE  RoomInv'
  <2>1. \A u \in Thread \ {t} : pc[u] = "idle"
    BY <1>1 DEF IInv, Alone, Thread
  <2>2. step' = s \/ step' = "idle"
    BY <1>0, <1>1, <2>1 DEF step, busy, Thread
  <2> QED
    BY <1>1, <2>2, RoomElsewhere DEF RoomSteps
<1>2. ASSUME NEW t \in Thread, MoveToGpu(t) PROVE RoomInv'
  <2>1. ASSUME Publish(t) \/ Retire(t) \/ Account(t) PROVE RoomInv'
    <3> DEFINE s == IF Publish(t) THEN "retire"
                    ELSE IF Retire(t)
                         THEN IF ModelOf(t) \in DOMAIN cpuModels THEN "account"
                              ELSE IF t = "main" THEN "respond" ELSE "dead"
                         ELSE IF t = "main" THEN "respond" ELSE "use"
    <3>1. pc[t] # "idle" /\ pc' = [pc EXCEPT ![t] = s] /\ preload' = preload
      BY <2>1 DEF Publish, Retire, Account, Goto, Raises
    <3>2. s \notin RoomSteps
      BY DEF RoomSteps
    <3> QED
      BY <1>1, <3>1, <3>2
  <2> QED
    BY <1>2, <2>1, RoomLook, RoomMeasured, RoomVictim, RoomDemoted, RoomStored, RoomMoved
    DEF MoveToGpu
<1>3. CASE RespondModelLoading
  BY <1>1, <1>3 DEF RespondModelLoading, Goto, Thread, RoomSteps
<1>4. CASE HandleModelLoading \/ \E task \in Task : EnsureModel(task)
  BY <1>4, RoomBegun
<1>5. CASE FindOnCpu
  BY <1>5, RoomLook DEF Thread
<1>6. CASE LoadModel
  BY <1>6, RoomLoaded
<1>7. ASSUME Touch \/ EnterLoaded \/ UseModel \/ ApplyPatches \/ FinishTask PROVE RoomInv'
  <2>1. \E s \in {"use", "dead", "account", "patch", "execute", "idle"} :
           /\ pc["process"] # "idle" /\ pc' = [pc EXCEPT !["process"] = s]
           /\ preload' = preload
    BY <1>7 DEF Touch, EnterLoaded, UseModel, ApplyPatches, FinishTask, Goto, Raises
  <2> QED
    BY <1>1, <2>1 DEF Thread, RoomSteps
<1>8. CASE UNCHANGED vars
  <2>1. RoomInv' <=> RoomInv
    BY <1>8 DEF vars, RoomInv, Over, busy, step, fr, wanted, Resident, Weight, OnDevice
  <2> QED
    BY <2>1
<1> QED
  BY <1>2, <1>3, <1>4, <1>5, <1>6, <1>7, <1>8 DEF Next, MainStep, ProcessStep, Thread

\* Whenever a model has come to the device, the working set of its task fits
\* what the other models leave there: the eviction frees neither too little nor
\* by a stale account, if no single preload needs more than the device has
\* (_move_model_to_gpu, _evict_models_for_memory, _ensure_model_in_gpu).
THEOREM ModelsFitWhenLoaded ==
    ASSUME ~EarlyTasks, \A i \in 1..Len(Preload) : PreloadPeak[Preload[i]] <= Capacity
    PROVE  Spec => []LoadedModelFits
<1>1. Init => Order /\ RoomInv
  BY DEF Init, Order, ToSet, IsInjective, RoomInv, step, busy, Thread
<1>2. IInv /\ IInv' /\ Order /\ RoomInv /\ [Next]_vars => Order' /\ RoomInv'
  BY OrderKept, RoomKept
<1>3. IInv /\ RoomInv => LoadedModelFits
  <2> SUFFICES ASSUME IInv, RoomInv, NEW t \in Thread, pc[t] \in {"publish", "enter"}
               PROVE  Allocated - Base[ModelOf(t)] + frame[t].task.peak <= Capacity
    BY DEF LoadedModelFits
  <2>1. busy = t /\ step = pc[t] /\ fr = frame[t] /\ wanted = ModelOf(t)
    BY DEF IInv, Alone, Thread, busy, step, fr, wanted, ModelOf
  <2>2. pc["process"] # "execute" /\ copies \in Seq(Copy)
    BY <2>1 DEF IInv, Alone, Typed, Thread
  <2>3. Allocated = Resident(copies) /\ Resident(copies) \in Nat
    BY <2>2, AllocatedIsResident, ResidentType
  <2>4. fr.task.peak \in Nat /\ Over - Base[wanted] <= 0
    BY <2>1 DEF RoomInv
  <2>8. (fr.task.peak + Resident(copies)) - Capacity - Base[wanted] <= 0
    BY <2>4, Zenon DEF Over
  <2>5. Base[wanted] \in Nat /\ Capacity \in Nat
    BY <2>1, ModelCacheAssumption DEF IInv, Typed
  <2>6. ASSUME NEW p \in Nat, NEW r \in Nat, NEW k \in Nat, NEW b \in Nat, ((p + r) - k) - b <= 0
        PROVE  r - b + p <= k
    BY <2>6
  <2>7. Resident(copies) - Base[wanted] + fr.task.peak <= Capacity
    BY <2>3, <2>4, <2>5, <2>6, <2>8
  <2> QED
    BY <2>1, <2>3, <2>7
<1> QED
  BY <1>1, <1>2, <1>3, Invariant, PTL DEF Spec

-----------------------------------------------------------------------------
(***************************************************************************)
(* Both threads at once.  When nothing ever has to be evicted, models only *)
(* go from host memory to the device, and the invariant needs no order of  *)
(* the threads: it says which thread answers for an entry that is still in *)
(* both dictionaries, or not yet accounted for.  Both may be moving one    *)
(* model, and either may find its entry gone and raise.                    *)
(***************************************************************************)
AnyPeak == { task.peak : task \in Task } \cup { PreloadPeak[m] : m \in Model }

\* What a task adds to the parameters of its model while it runs.
WorkingSet == {0} \cup { task.peak - Base[task.model] : task \in Task }

\* All models, the working set of a running task and the peak of one more fit.
RoomForAll ==
    /\ IsFiniteSet(Model)
    /\ \A work \in WorkingSet, peak \in AnyPeak :
         SumFunctionOnSet(Base, Model) + work + peak <= Capacity

RaceThreads ==
    /\ pc \in [Thread -> Steps \ {"evict", "demote", "store", "drop"}]
    /\ pc["main"] \notin ProcessSteps
    /\ DOMAIN frame = Thread /\ \A t \in Thread : DOMAIN frame[t] = Fields
    /\ \A t \in Thread : pc[t] # "idle" =>
         /\ ModelOf(t) \in Model /\ frame[t].task.peak \in AnyPeak
         /\ frame[t].then \in {"move", "load"}
    /\ pc["main"] # "idle" => frame["main"].then = "move"
    /\ pc["process"] # "idle" => frame["process"].task \in Task

RaceEntries ==
    /\ copies \in Seq(Copy) /\ patchStatus \in [Model -> SUBSET Patch]
    /\ usage \in [Model -> Int] /\ preload \in Seq(Model)
    /\ DOMAIN cpuModels \subseteq Model /\ DOMAIN gpuModels \subseteq Model
    /\ \A m \in DOMAIN cpuModels :
         cpuModels[m] \in DOMAIN copies /\ copies[cpuModels[m]].model = m
    /\ \A m \in DOMAIN gpuModels :
         gpuModels[m] \in DOMAIN copies /\ copies[gpuModels[m]].model = m
    /\ \A c \in DOMAIN copies :
         \/ copies[c].model \in DOMAIN cpuModels \cup DOMAIN gpuModels
         \/ pc["process"] = "enter" /\ frame["process"].copy = c
    /\ \A c, d \in DOMAIN copies : copies[c].model = copies[d].model => c = d
    /\ Prefetched \subseteq DOMAIN cpuModels \cup DOMAIN gpuModels

\* A thread is about to take one of these steps for the model.
At(S, m) == \E t \in Thread : pc[t] \in S /\ ModelOf(t) = m

RacePlace(m) ==
    /\ m \in DOMAIN gpuModels => copies[gpuModels[m]].device = "gpu"
    /\ m \in DOMAIN cpuModels =>
         copies[cpuModels[m]].device = "cpu" \/ At({"publish", "retire"}, m)
    /\ m \in DOMAIN cpuModels /\ m \in DOMAIN gpuModels => At({"retire"}, m)
    /\ m \notin DOMAIN cpuModels /\ m \in DOMAIN gpuModels =>
         usage[m] = Base[m] \/ At({"account"}, m)
    /\ m \notin DOMAIN gpuModels => usage[m] = 0

RacePlaces == \A m \in Model : RacePlace(m)

RaceHeld ==
    /\ \A t \in Thread :
         /\ pc[t] \in {"publish", "retire", "enter"} =>
              /\ frame[t].copy \in DOMAIN copies
              /\ copies[frame[t].copy].model = ModelOf(t)
              /\ copies[frame[t].copy].device = "gpu"
         /\ pc[t] = "publish" => ModelOf(t) \in DOMAIN cpuModels \cup DOMAIN gpuModels
         /\ pc[t] \in {"retire", "account"} => ModelOf(t) \in DOMAIN gpuModels
         /\ pc[t] \in {"findCpu", "check"} => frame[t].then = "move"
    /\ pc["process"] = "room" /\ frame["process"].then = "load" =>
         ModelOf("process") \notin DOMAIN cpuModels
    /\ pc["process"] \in {"load", "enter"} => ModelOf("process") \notin DOMAIN cpuModels
    /\ pc["process"] = "patch" => frame["process"].copy \in DOMAIN copies

RaceInv == RaceThreads /\ RaceEntries /\ RacePlaces /\ RaceHeld

-----------------------------------------------------------------------------
\* Copies of different models take no more than all models do.
LEMMA DistinctSum ==
    ASSUME NEW cs \in Seq(Copy), NEW S \in SUBSET DOMAIN cs, IsFiniteSet(Model),
           \A c, d \in DOMAIN cs : cs[c].model = cs[d].model => c = d
    PROVE  /\ SumFunctionOnSet(Weight(cs), S) \in Nat /\ SumFunctionOnSet(Base, Model) \in Nat
           /\ SumFunctionOnSet(Weight(cs), S) <= SumFunctionOnSet(Base, Model)
<1> DEFINE w == Weight(cs)
           Of(T) == { cs[c].model : c \in T }
           P == { T \in SUBSET S : SumFunctionOnSet(w, T) = SumFunctionOnSet(Base, Of(T)) }
<1>1. IsFiniteSet(S)
  <2>1. IsFiniteSet(DOMAIN cs)
    BY FS_Interval
  <2> QED
    BY <2>1, FS_Subset
<1>2. \A c \in S : w[c] \in Nat /\ w[c] = Base[cs[c].model] /\ cs[c].model \in Model
  <2>1. \A c \in DOMAIN cs : cs[c] \in Copy
    OBVIOUS
  <2> QED
    BY <2>1, ResidentType DEF Weight, Copy
<1>3. \A m \in Model : Base[m] \in Nat
  BY ModelCacheAssumption
<1>4. \A T \in SUBSET S : IsFiniteSet(T) /\ \A c \in T : w[c] \in Int
  BY <1>1, <1>2, FS_Subset
<1>8. \A T \in SUBSET S : Of(T) \in SUBSET Model
  BY <1>2
<1> HIDE DEF w
<1>5. ASSUME NEW T \in SUBSET S, \A U \in SUBSET T : U # T => U \in P
      PROVE  T \in P
  <2>1. CASE T = {}
    BY <2>1, SumEmpty
  <2>2. CASE T # {}
    <3>1. PICK x \in T : TRUE
      BY <2>2
    <3> DEFINE R == T \ {x}
    <3>2. SumFunctionOnSet(w, R) = SumFunctionOnSet(Base, Of(R))
      BY <1>5, <3>1
    <3>3. SumFunctionOnSet(w, T) = w[x] + SumFunctionOnSet(w, R)
      <4>1. IsFiniteSet(T) /\ \A c \in T : w[c] \in Int
        BY <1>4
      <4> QED
        BY <3>1, <4>1, SumRemove
    <3>4. cs[x].model \notin Of(R) /\ Of(T) = Of(R) \cup {cs[x].model}
      BY <3>1
    <3>5. SumFunctionOnSet(Base, Of(T)) = Base[cs[x].model] + SumFunctionOnSet(Base, Of(R))
      <4>1. Of(R) \in SUBSET Model
        BY <1>8
      <4>3. Base[cs[x].model] \in Int
        BY <1>2, <3>1
      <4> HIDE DEF Of, R
      <4>2. IsFiniteSet(Of(R)) /\ (\A m \in Of(R) : Base[m] \in Int)
        BY <1>3, <4>1, FS_Subset
      <4> QED
        BY <3>4, <4>2, <4>3, SumAdd
    <3> QED
      BY <1>2, <3>1, <3>2, <3>3, <3>5
  <2> QED
    BY <2>1, <2>2
<1>6. S \in P
  <2> HIDE DEF P
  <2> QED
    BY <1>1, <1>5, SubsetInduction
<1>7. /\ SumFunctionOnSet(Base, Model) \in Nat /\ SumFunctionOnSet(Base, Of(S)) \in Nat
      /\ SumFunctionOnSet(Base, Of(S)) <= SumFunctionOnSet(Base, Model)
  <2>1. Of(S) \in SUBSET Model
    BY <1>8
  <2> HIDE DEF Of
  <2> QED
    BY <1>3, <2>1, SumMonotone
<1> QED
  BY <1>6, <1>7 DEF w

\* So nothing has to be evicted.
LEMMA RaceRoom ==
    ASSUME RaceInv, RoomForAll, NEW t \in Thread, pc[t] = "room"
    PROVE  ~(Shortage(frame[t].task) > 0)
<1> DEFINE there == { c \in DOMAIN copies : Live(c) /\ copies[c].device = "gpu" }
           resident == SumFunctionOnSet(Weight(copies), there)
           all == SumFunctionOnSet(Base, Model)
           peak == frame[t].task.peak
<1>1. /\ MapThenSumSet(LAMBDA c : Base[copies[c].model], there) = resident
      /\ resident \in Nat /\ all \in Nat /\ resident <= all
  <2>1. there \in SUBSET DOMAIN copies /\ copies \in Seq(Copy) /\ IsFiniteSet(Model)
        /\ \A c, d \in DOMAIN copies : copies[c].model = copies[d].model => c = d
    BY DEF RaceInv, RaceEntries, RoomForAll
  <2> HIDE DEF there
  <2> QED
    BY <2>1, AllocatedSum, DistinctSum
<1>2. peak \in AnyPeak /\ peak \in Nat
  BY ModelCacheAssumption DEF RaceInv, RaceThreads, AnyPeak
<1>3. Capacity \in Nat
  BY ModelCacheAssumption
<1>4. Activations \in WorkingSet /\ Activations \in Int
  <2>1. CASE pc["process"] = "execute"
    <3> DEFINE task == frame["process"].task
    <3>1. task \in Task /\ task.peak \in Nat /\ Base[task.model] \in Nat
      BY <2>1, ModelCacheAssumption DEF RaceInv, RaceThreads, Thread
    <3>2. Activations = task.peak - Base[task.model]
      BY <2>1 DEF Activations
    <3> HIDE DEF task
    <3> QED
      BY <3>1, <3>2 DEF WorkingSet
  <2>2. CASE pc["process"] # "execute"
    BY <2>2 DEF Activations, WorkingSet
  <2> QED
    BY <2>1, <2>2
<1>7. all + Activations + peak <= Capacity
  BY <1>2, <1>4 DEF RoomForAll
<1>5. Allocated = resident + Activations
  BY <1>1 DEF Allocated
<1>6. Shortage(frame[t].task) = peak - (Capacity - Allocated)
  BY DEF Shortage
<1> HIDE DEF resident, all, peak
<1> QED
  BY <1>1, <1>2, <1>3, <1>4, <1>5, <1>6, <1>7

-----------------------------------------------------------------------------
LEMMA RaceStart == Init => RaceInv
<1> SUFFICES ASSUME Init PROVE RaceInv
  OBVIOUS
<1>1. IInv /\ pc = [t \in Thread |-> "idle"] /\ frame = [t \in Thread |-> NoFrame]
  BY InitIInv DEF Init
<1>2. step = "idle" /\ \A t \in Thread : pc[t] = "idle"
  BY <1>1 DEF step, busy, Thread
<1>3. RaceThreads
  <2>1. pc \in [Thread -> Steps \ {"evict", "demote", "store", "drop"}]
    BY <1>1 DEF Steps
  <2>2. DOMAIN frame = Thread /\ \A t \in Thread : DOMAIN frame[t] = Fields
    BY <1>1 DEF IInv, Typed
  <2> QED
    BY <1>2, <2>1, <2>2 DEF RaceThreads, ProcessSteps, Thread
<1>4. RaceEntries
  BY <1>1, <1>2 DEF IInv, Typed, Entries, OneCopy, RaceEntries
<1>5. RacePlaces
  BY <1>1, <1>2 DEF IInv, Places, RacePlaces, RacePlace
<1>6. RaceHeld
  BY <1>2 DEF RaceHeld, Thread
<1> QED
  BY <1>3, <1>4, <1>5, <1>6 DEF RaceInv

\* A thread goes on with the task, or the message, it has.
LEMMA RaceOnward ==
    ASSUME RaceThreads, NEW t \in Thread, pc[t] # "idle",
           NEW s \in Steps \ {"evict", "demote", "store", "drop"},
           pc' = [pc EXCEPT ![t] = s], t = "main" => s \notin ProcessSteps,
           DOMAIN frame' = Thread, \A u \in Thread \ {t} : frame'[u] = frame[u],
           DOMAIN frame'[t] = Fields, frame'[t].task = frame[t].task,
           frame'[t].then \in {"move", "load"}, t = "main" => frame'[t].then = "move"
    PROVE  /\ RaceThreads'
           /\ pc'[t] = s /\ \A u \in Thread \ {t} : pc'[u] = pc[u]
           /\ \A u \in Thread : ModelOf(u)' = ModelOf(u) /\ frame'[u].task = frame[u].task
<1>1. pc'[t] = s /\ \A u \in Thread \ {t} : pc'[u] = pc[u]
  BY DEF RaceThreads
<1>2. \A u \in Thread : ModelOf(u)' = ModelOf(u) /\ frame'[u].task = frame[u].task
  BY DEF ModelOf
<1>3. pc' \in [Thread -> Steps \ {"evict", "demote", "store", "drop"}]
  BY DEF RaceThreads
<1>4. \A u \in Thread : pc'[u] # "idle" =>
        /\ ModelOf(u)' \in Model /\ frame'[u].task.peak \in AnyPeak
        /\ frame'[u].then \in {"move", "load"}
  <2> SUFFICES ASSUME NEW u \in Thread, pc'[u] # "idle"
               PROVE  /\ ModelOf(u)' \in Model /\ frame'[u].task.peak \in AnyPeak
                      /\ frame'[u].then \in {"move", "load"}
    OBVIOUS
  <2>1. pc[u] # "idle"
    BY <1>1
  <2>2. ModelOf(u) \in Model /\ frame[u].task.peak \in AnyPeak /\ frame[u].then \in {"move", "load"}
    BY <2>1 DEF RaceThreads
  <2>3. frame'[u].then \in {"move", "load"}
    BY <2>2
  <2> QED
    BY <1>2, <2>2, <2>3
<1>5. pc'["process"] # "idle" => frame'["process"].task \in Task
  BY <1>1, <1>2 DEF RaceThreads, Thread
<1>6. /\ pc'["main"] \notin ProcessSteps
      /\ pc'["main"] # "idle" => frame'["main"].then = "move"
  BY <1>1 DEF RaceThreads, Thread
<1>7. \A u \in Thread : DOMAIN frame'[u] = Fields
  BY DEF RaceThreads
<1> QED
  BY <1>1, <1>2, <1>3, <1>4, <1>5, <1>6, <1>7 DEF RaceThreads, AnyPeak

\* A step that touches neither models nor accounts, of a thread that answers for
\* no model.
LEMMA RaceQuiet ==
    ASSUME RaceInv, RaceThreads', NEW t \in Thread,
           \A u \in Thread \ {t} : pc'[u] = pc[u] /\ frame'[u] = frame[u],
           UNCHANGED <<copies, cpuModels, gpuModels, usage, patchStatus>>,
           preload' \in Seq(Model),
           pc[t] \notin {"publish", "account", "enter"},
           pc[t] = "retire" => ModelOf(t) \notin DOMAIN cpuModels,
           pc'[t] \notin {"publish", "retire", "enter"},
           pc'[t] = "account" => frame'[t].task.model \in DOMAIN gpuModels,
           pc'[t] \in {"findCpu", "check"} => frame'[t].then = "move",
           (pc'[t] = "room" /\ frame'[t].then = "load") \/ pc'[t] = "load" =>
               (t = "process" => frame'[t].task.model \notin DOMAIN cpuModels),
           pc'[t] = "patch" => frame'[t].copy \in DOMAIN copies
    PROVE  RaceInv'
<1>1. \A u \in Thread \ {t} : ModelOf(u)' = ModelOf(u)
  BY DEF ModelOf
<1>2. RaceEntries'
  <2>1. \A c \in DOMAIN copies : pc["process"] = "enter" /\ frame["process"].copy = c
          => pc'["process"] = "enter" /\ frame'["process"].copy = c
    BY DEF Thread
  <2> QED
    BY <2>1 DEF RaceInv, RaceEntries
<1>3. RacePlaces'
  <2>1. \A m \in DOMAIN cpuModels : At({"publish", "retire"}, m) => At({"publish", "retire"}, m)'
    BY <1>1 DEF At
  <2>2. \A m \in DOMAIN cpuModels : At({"retire"}, m) => At({"retire"}, m)'
    BY <1>1 DEF At
  <2>3. \A m \in Model : At({"account"}, m) => At({"account"}, m)'
    BY <1>1 DEF At
  <2>4. \A m \in Model : RacePlace(m) => RacePlace(m)'
    BY <2>1, <2>2, <2>3 DEF RacePlace
  <2> QED
    BY <2>4 DEF RaceInv, RacePlaces
<1>4. RaceHeld'
  <2>1. ASSUME NEW u \in Thread
        PROVE  /\ pc'[u] \in {"publish", "retire", "enter"} =>
                    /\ frame'[u].copy \in DOMAIN copies
                    /\ copies[frame'[u].copy].model = ModelOf(u)'
                    /\ copies[frame'[u].copy].device = "gpu"
               /\ pc'[u] = "publish" => ModelOf(u)' \in DOMAIN cpuModels \cup DOMAIN gpuModels
               /\ pc'[u] \in {"retire", "account"} => ModelOf(u)' \in DOMAIN gpuModels
               /\ pc'[u] \in {"findCpu", "check"} => frame'[u].then = "move"
    <3>1. CASE u = t
      BY <3>1 DEF ModelOf
    <3>2. CASE u # t
      <4>1. pc'[u] = pc[u] /\ frame'[u] = frame[u] /\ ModelOf(u)' = ModelOf(u)
        BY <1>1, <3>2
      <4> QED
        BY <4>1 DEF RaceInv, RaceHeld
    <3> QED
      BY <3>1, <3>2
  <2>2. /\ pc'["process"] = "room" /\ frame'["process"].then = "load" =>
             ModelOf("process")' \notin DOMAIN cpuModels
        /\ pc'["process"] \in {"load", "enter"} => ModelOf("process")' \notin DOMAIN cpuModels
        /\ pc'["process"] = "patch" => frame'["process"].copy \in DOMAIN copies
    <3>1. CASE t = "process"
      BY <3>1 DEF ModelOf
    <3>2. CASE t # "process"
      <4>1. /\ pc'["process"] = pc["process"] /\ frame'["process"] = frame["process"]
            /\ ModelOf("process")' = ModelOf("process")
        BY <1>1, <3>2 DEF Thread
      <4> QED
        BY <4>1 DEF RaceInv, RaceHeld
    <3> QED
      BY <3>1, <3>2
  <2> QED
    BY <2>1, <2>2 DEF RaceHeld
<1> QED
  BY <1>2, <1>3, <1>4 DEF RaceInv

\* Such a step leaves the frames alone as well, or all but the field it sets.
LEMMA RaceLook ==
    ASSUME RaceInv, NEW t \in Thread,
           pc[t] \notin {"idle", "publish", "account", "enter"},
           pc[t] = "retire" => ModelOf(t) \notin DOMAIN cpuModels,
           NEW s \in Steps \ {"evict", "demote", "store", "drop", "publish", "retire", "enter"},
           pc' = [pc EXCEPT ![t] = s], t = "main" => s \notin ProcessSteps,
           frame'[t].task = frame[t].task, DOMAIN frame' = Thread,
           \A u \in Thread \ {t} : frame'[u] = frame[u],
           DOMAIN frame'[t] = Fields, frame'[t].then \in {"move", "load"},
           t = "main" => frame'[t].then = "move",
           UNCHANGED <<copies, cpuModels, gpuModels, usage, patchStatus, preload>>,
           s = "account" => ModelOf(t) \in DOMAIN gpuModels,
           s \in {"findCpu", "check"} => frame'[t].then = "move",
           (s = "room" /\ frame'[t].then = "load") \/ s = "load" =>
               (t = "process" => ModelOf(t) \notin DOMAIN cpuModels),
           s = "patch" => frame'[t].copy \in DOMAIN copies
    PROVE  RaceInv'
<1>1. /\ RaceThreads'
      /\ pc'[t] = s /\ \A u \in Thread \ {t} : pc'[u] = pc[u]
  BY RaceOnward DEF RaceInv
<1>2. preload' \in Seq(Model)
  BY DEF RaceInv, RaceEntries
<1>3. frame'[t].task.model = ModelOf(t)
  BY DEF ModelOf
<1> QED
  BY <1>1, <1>2, <1>3, RaceQuiet

-----------------------------------------------------------------------------
\* A message or a task begins, and ends.
LEMMA RaceBegin ==
    ASSUME RaceInv, NEW t \in Thread, pc[t] = "idle", NEW task,
           task.model \in Model, task.peak \in AnyPeak, t = "process" => task \in Task,
           NEW s \in {"check", "findCpu", "touch", "dead"},
           pc' = [pc EXCEPT ![t] = s], t = "main" => s = "check",
           frame' = [frame EXCEPT ![t] = [NoFrame EXCEPT !.task = task]],
           UNCHANGED <<copies, dicts>>, preload' \in Seq(Model)
    PROVE  RaceInv'
<1> DEFINE new == [NoFrame EXCEPT !.task = task]
<1>1. new.task = task /\ new.then = "move" /\ DOMAIN new = Fields
  BY DEF NoFrame, Fields
<1>2. DOMAIN frame = Thread
  BY DEF RaceInv, RaceThreads
<1>3. DOMAIN frame' = Thread /\ frame'[t] = new /\ \A u \in Thread \ {t} : frame'[u] = frame[u]
  BY <1>2
<1>4. pc'[t] = s /\ \A u \in Thread \ {t} : pc'[u] = pc[u]
  BY DEF RaceInv, RaceThreads
<1> HIDE DEF new
<1>5. RaceThreads'
  <2>1. pc' \in [Thread -> Steps \ {"evict", "demote", "store", "drop"}]
    BY DEF RaceInv, RaceThreads, Steps, ProcessSteps, SharedSteps
  <2>2. \A u \in Thread : DOMAIN frame'[u] = Fields
    BY <1>1, <1>3 DEF RaceInv, RaceThreads
  <2>3. \A u \in Thread : pc'[u] # "idle" =>
          /\ ModelOf(u)' \in Model /\ frame'[u].task.peak \in AnyPeak
          /\ frame'[u].then \in {"move", "load"}
    <3> SUFFICES ASSUME NEW u \in Thread, pc'[u] # "idle"
                 PROVE  /\ ModelOf(u)' \in Model /\ frame'[u].task.peak \in AnyPeak
                        /\ frame'[u].then \in {"move", "load"}
      OBVIOUS
    <3>1. CASE u = t
      BY <1>1, <1>3, <3>1 DEF ModelOf
    <3>2. CASE u # t
      <4>1. pc[u] # "idle" /\ frame'[u] = frame[u]
        BY <1>3, <1>4, <3>2
      <4>2. ModelOf(u) \in Model /\ frame[u].task.peak \in AnyPeak
            /\ frame[u].then \in {"move", "load"}
        BY <4>1 DEF RaceInv, RaceThreads
      <4> QED
        BY <4>1, <4>2 DEF ModelOf
    <3> QED
      BY <3>1, <3>2
  <2>4. /\ pc'["main"] \notin ProcessSteps
        /\ pc'["main"] # "idle" => frame'["main"].then = "move"
        /\ pc'["process"] # "idle" => frame'["process"].task \in Task
    BY <1>1, <1>3, <1>4 DEF RaceInv, RaceThreads, Thread, ProcessSteps
  <2> QED
    BY <1>3, <2>1, <2>2, <2>3, <2>4 DEF RaceThreads, AnyPeak
<1>6. /\ pc[t] \notin {"publish", "account", "enter", "retire"}
      /\ pc'[t] \notin {"publish", "retire", "enter", "account", "room", "load", "patch"}
      /\ frame'[t].then = "move"
  BY <1>1, <1>3, <1>4
<1>7. \A u \in Thread \ {t} : pc'[u] = pc[u] /\ frame'[u] = frame[u]
  BY <1>3, <1>4
<1>8. UNCHANGED <<copies, cpuModels, gpuModels, usage, patchStatus>>
  BY DEF dicts
<1> QED
  BY <1>5, <1>6, <1>7, <1>8, RaceQuiet

LEMMA RaceEnd ==
    ASSUME RaceInv, NEW t \in Thread, pc[t] \in {"respond", "execute"},
           pc' = [pc EXCEPT ![t] = "idle"], UNCHANGED <<copies, dicts, frame, preload>>
    PROVE  RaceInv'
<1>1. pc'[t] = "idle" /\ \A u \in Thread \ {t} : pc'[u] = pc[u]
  BY DEF RaceInv, RaceThreads
<1>2. RaceThreads'
  <2>1. pc' \in [Thread -> Steps \ {"evict", "demote", "store", "drop"}]
    BY DEF RaceInv, RaceThreads, Steps
  <2> QED
    BY <1>1, <2>1 DEF RaceInv, RaceThreads, Thread, ProcessSteps, ModelOf
<1>3. preload' \in Seq(Model)
  BY DEF RaceInv, RaceEntries
<1> QED
  BY <1>1, <1>2, <1>3, RaceQuiet DEF dicts

LEMMA RaceHandle ==
    ASSUME RaceInv, HandleModelLoading
    PROVE  RaceInv'
<1> DEFINE task == [model |-> Head(preload), peak |-> PreloadPeak[Head(preload)],
                    patches |-> {}]
<1>1. Head(preload) \in Model /\ preload' \in Seq(Model)
  BY DEF HandleModelLoading, RaceInv, RaceEntries
<1>2. task.model \in Model /\ task.peak \in AnyPeak
  BY <1>1 DEF AnyPeak
<1>3. /\ pc["main"] = "idle" /\ pc' = [pc EXCEPT !["main"] = "check"]
      /\ frame' = [frame EXCEPT !["main"] = [NoFrame EXCEPT !.task = task]]
      /\ UNCHANGED <<copies, dicts>>
  BY DEF HandleModelLoading, Goto
<1> HIDE DEF task
<1> QED
  BY <1>1, <1>2, <1>3, RaceBegin DEF Thread

LEMMA RaceEnsure ==
    ASSUME RaceInv, NEW task \in Task, EnsureModel(task)
    PROVE  RaceInv'
<1> DEFINE s == IF ~IsValid(task) THEN "dead"
                ELSE IF task.model \in DOMAIN gpuModels THEN "touch" ELSE "findCpu"
<1>1. /\ pc["process"] = "idle" /\ pc' = [pc EXCEPT !["process"] = s]
      /\ frame' = [frame EXCEPT !["process"] = [NoFrame EXCEPT !.task = task]]
      /\ UNCHANGED <<copies, dicts>>
  BY DEF EnsureModel, Goto, Raises
<1>2. task.model \in Model /\ task.peak \in AnyPeak
  BY ModelCacheAssumption DEF AnyPeak
<1>3. preload' \in Seq(Model)
  BY DEF EnsureModel, RaceInv, RaceEntries
<1> QED
  BY <1>1, <1>2, <1>3, RaceBegin DEF Thread

-----------------------------------------------------------------------------
\* The looks at the dictionaries, and the exceptions.
LEMMA RaceLooks ==
    ASSUME RaceInv, RoomForAll, NEW t \in Thread,
           \/ t = "process" /\ (FindOnCpu \/ Touch \/ UseModel)
           \/ CheckOnCpu(t) \/ MeasureRoom(t)
    PROVE  RaceInv'
<1> USE DEF Steps, ProcessSteps, SharedSteps, dicts
<1>0. /\ DOMAIN frame = Thread /\ DOMAIN frame[t] = Fields
      /\ pc[t] # "idle" => frame[t].then \in {"move", "load"}
      /\ t = "main" /\ pc[t] # "idle" => frame[t].then = "move"
      /\ t = "main" => pc[t] \notin ProcessSteps
  BY DEF RaceInv, RaceThreads
<1>1. CASE t = "process" /\ FindOnCpu
  <2>1. CASE ModelOf("process") \in DOMAIN cpuModels
    <3>1. pc[t] = "findCpu" /\ pc' = [pc EXCEPT ![t] = "check"] /\ frame' = frame
          /\ UNCHANGED <<copies, dicts, preload>>
      BY <1>1, <2>1 DEF FindOnCpu, Goto
    <3>2. frame[t].then = "move"
      BY <3>1 DEF RaceInv, RaceHeld
    <3> QED
      BY <1>0, <1>1, <3>1, <3>2, RaceLook
  <2>2. CASE ModelOf("process") \notin DOMAIN cpuModels
    <3>1. pc[t] = "findCpu" /\ pc' = [pc EXCEPT ![t] = "room"]
          /\ frame' = [frame EXCEPT ![t].then = "load"]
          /\ UNCHANGED <<copies, dicts, preload>>
      BY <1>1, <2>2 DEF FindOnCpu, Goto
    <3>2. /\ DOMAIN frame' = Thread /\ \A u \in Thread \ {t} : frame'[u] = frame[u]
          /\ DOMAIN frame'[t] = Fields /\ frame'[t].then = "load"
          /\ frame'[t].task = frame[t].task
      BY <1>0, <3>1 DEF Fields
    <3> QED
      BY <1>0, <1>1, <2>2, <3>1, <3>2, RaceLook
  <2> QED
    BY <2>1, <2>2
<1>2. CASE t = "process" /\ Touch
  <2>1. \E s \in {"use", "dead"} : pc' = [pc EXCEPT ![t] = s]
    BY <1>2 DEF Touch, Goto, Raises
  <2>2. pc[t] = "touch" /\ frame' = frame
        /\ UNCHANGED <<copies, cpuModels, gpuModels, usage, patchStatus, preload>>
    BY <1>2 DEF Touch
  <2> QED
    BY <1>0, <1>2, <2>1, <2>2, RaceLook
<1>3. CASE t = "process" /\ UseModel
  <2>1. CASE ModelOf("process") \in DOMAIN gpuModels
    <3>1. pc[t] = "use" /\ pc' = [pc EXCEPT ![t] = "patch"]
          /\ frame' = [frame EXCEPT ![t].copy = gpuModels[ModelOf("process")]]
          /\ UNCHANGED <<copies, dicts, preload>>
      BY <1>3, <2>1 DEF UseModel, Goto
    <3>2. /\ DOMAIN frame' = Thread /\ \A u \in Thread \ {t} : frame'[u] = frame[u]
          /\ DOMAIN frame'[t] = Fields /\ frame'[t].then = frame[t].then
          /\ frame'[t].task = frame[t].task
          /\ frame'[t].copy = gpuModels[ModelOf("process")]
      BY <1>0, <3>1 DEF Fields
    <3>3. gpuModels[ModelOf("process")] \in DOMAIN copies
      BY <2>1 DEF RaceInv, RaceEntries
    <3> QED
      BY <1>0, <1>3, <3>1, <3>2, <3>3, RaceLook
  <2>2. CASE ModelOf("process") \notin DOMAIN gpuModels
    <3>1. pc[t] = "use" /\ pc' = [pc EXCEPT ![t] = "dead"] /\ frame' = frame
          /\ UNCHANGED <<copies, dicts, preload>>
      BY <1>3, <2>2 DEF UseModel, Raises
    <3> QED
      BY <1>0, <1>3, <3>1, RaceLook
  <2> QED
    BY <2>1, <2>2
<1>4. CASE CheckOnCpu(t)
  <2>1. CASE ModelOf(t) \in DOMAIN cpuModels
    <3>1. pc[t] = "check" /\ pc' = [pc EXCEPT ![t] = "room"] /\ frame' = frame
          /\ UNCHANGED <<copies, dicts, preload>>
      BY <1>4, <2>1 DEF CheckOnCpu, Goto
    <3>2. frame[t].then = "move"
      BY <3>1 DEF RaceInv, RaceThreads, RaceHeld, Thread
    <3> QED
      BY <1>0, <3>1, <3>2, RaceLook
  <2>2. CASE ModelOf(t) \notin DOMAIN cpuModels
    <3>1. pc[t] = "check" /\ frame' = frame /\ UNCHANGED <<copies, dicts, preload>>
          /\ pc' = [pc EXCEPT ![t] = IF t = "main" THEN "respond" ELSE "dead"]
      BY <1>4, <2>2 DEF CheckOnCpu, Raises
    <3> QED
      BY <1>0, <3>1, RaceLook DEF Thread
  <2> QED
    BY <2>1, <2>2
<1>5. CASE MeasureRoom(t)
  <2>1. pc[t] = "room" /\ pc' = [pc EXCEPT ![t] = frame[t].then]
        /\ frame' = [frame EXCEPT ![t].need = Shortage(frame[t].task)]
        /\ UNCHANGED <<copies, dicts, preload>>
    BY <1>5, RaceRoom DEF MeasureRoom, Goto
  <2>2. /\ DOMAIN frame' = Thread /\ \A u \in Thread \ {t} : frame'[u] = frame[u]
        /\ DOMAIN frame'[t] = Fields /\ frame'[t].then = frame[t].then
        /\ frame'[t].task = frame[t].task
    BY <1>0, <2>1 DEF Fields
  <2>3. t = "process" /\ frame[t].then = "load" => ModelOf(t) \notin DOMAIN cpuModels
    BY <2>1 DEF RaceInv, RaceHeld
  <2> QED
    BY <1>0, <2>1, <2>2, <2>3, RaceLook
<1> QED
  BY <1>1, <1>2, <1>3, <1>4, <1>5

-----------------------------------------------------------------------------
\* What a step of thread t for its model has to show: the other models are where
\* they were, and the other thread may go on relying on what it did.
LEMMA RaceKept ==
    ASSUME RaceInv, RaceThreads', RaceEntries', NEW t \in Thread,
           \A u \in Thread \ {t} : pc'[u] = pc[u] /\ frame'[u] = frame[u],
           frame'[t].task = frame[t].task, NEW m, m = ModelOf(t), RacePlace(m)',
           \A n \in Model \ {ModelOf(t)} :
             /\ n \in DOMAIN cpuModels' <=> n \in DOMAIN cpuModels
             /\ n \in DOMAIN gpuModels' <=> n \in DOMAIN gpuModels
             /\ n \in DOMAIN cpuModels =>
                  copies'[cpuModels'[n]].device = copies[cpuModels[n]].device
             /\ n \in DOMAIN gpuModels =>
                  copies'[gpuModels'[n]].device = copies[gpuModels[n]].device
             /\ usage'[n] = usage[n],
           \A k \in DOMAIN copies :
             /\ k \in DOMAIN copies' /\ copies'[k].model = copies[k].model
             /\ copies[k].device = "gpu" => copies'[k].device = "gpu",
           DOMAIN gpuModels \subseteq DOMAIN gpuModels',
           DOMAIN cpuModels' \subseteq DOMAIN cpuModels,
           DOMAIN cpuModels \subseteq DOMAIN cpuModels' \cup DOMAIN gpuModels',
           pc'[t] \notin {"findCpu", "check", "room", "load", "patch"},
           pc'[t] \in {"publish", "retire", "enter"} =>
             /\ frame'[t].copy \in DOMAIN copies'
             /\ copies'[frame'[t].copy].model = ModelOf(t)
             /\ copies'[frame'[t].copy].device = "gpu",
           pc'[t] = "publish" => ModelOf(t) \in DOMAIN cpuModels' \cup DOMAIN gpuModels',
           pc'[t] \in {"retire", "account"} => ModelOf(t) \in DOMAIN gpuModels',
           pc'[t] = "enter" => ModelOf(t) \notin DOMAIN cpuModels'
    PROVE  RaceInv'
<1>1. \A u \in Thread : ModelOf(u)' = ModelOf(u)
  BY DEF ModelOf
<1>2. RacePlaces'
  <2>1. ASSUME NEW n \in Model, n # ModelOf(t) PROVE RacePlace(n)'
    <3>1. RacePlace(n)
      BY DEF RaceInv, RacePlaces
    <3>2. /\ At({"publish", "retire"}, n) => At({"publish", "retire"}, n)'
          /\ At({"retire"}, n) => At({"retire"}, n)'
          /\ At({"account"}, n) => At({"account"}, n)'
      BY <1>1, <2>1 DEF At
    <3> QED
      BY <2>1, <3>1, <3>2 DEF RacePlace
  <2>2. ASSUME NEW n \in Model, n = m PROVE RacePlace(n)'
    BY <2>2
  <2> QED
    BY <2>1, <2>2 DEF RacePlaces
<1>3. RaceHeld'
  <2>1. ASSUME NEW u \in Thread
        PROVE  /\ pc'[u] \in {"publish", "retire", "enter"} =>
                    /\ frame'[u].copy \in DOMAIN copies'
                    /\ copies'[frame'[u].copy].model = ModelOf(u)'
                    /\ copies'[frame'[u].copy].device = "gpu"
               /\ pc'[u] = "publish" => ModelOf(u)' \in DOMAIN cpuModels' \cup DOMAIN gpuModels'
               /\ pc'[u] \in {"retire", "account"} => ModelOf(u)' \in DOMAIN gpuModels'
               /\ pc'[u] \in {"findCpu", "check"} => frame'[u].then = "move"
    <3>1. CASE u = t
      BY <1>1, <3>1
    <3>2. CASE u # t
      <4>1. pc'[u] = pc[u] /\ frame'[u] = frame[u] /\ ModelOf(u)' = ModelOf(u)
        BY <1>1, <3>2
      <4>2. pc[u] \in {"publish", "retire", "enter"} =>
              /\ frame[u].copy \in DOMAIN copies
              /\ copies[frame[u].copy].model = ModelOf(u)
              /\ copies[frame[u].copy].device = "gpu"
        BY DEF RaceInv, RaceHeld
      <4>3. /\ pc[u] = "publish" => ModelOf(u) \in DOMAIN cpuModels \cup DOMAIN gpuModels
            /\ pc[u] \in {"retire", "account"} => ModelOf(u) \in DOMAIN gpuModels
            /\ pc[u] \in {"findCpu", "check"} => frame[u].then = "move"
        BY DEF RaceInv, RaceHeld
      <4> QED
        BY <4>1, <4>2, <4>3
    <3> QED
      BY <3>1, <3>2
  <2>2. /\ pc'["process"] = "room" /\ frame'["process"].then = "load" =>
             ModelOf("process")' \notin DOMAIN cpuModels'
        /\ pc'["process"] \in {"load", "enter"} => ModelOf("process")' \notin DOMAIN cpuModels'
        /\ pc'["process"] = "patch" => frame'["process"].copy \in DOMAIN copies'
    <3>1. CASE t = "process"
      BY <1>1, <3>1
    <3>2. CASE t # "process"
      <4>1. /\ pc'["process"] = pc["process"] /\ frame'["process"] = frame["process"]
            /\ ModelOf("process")' = ModelOf("process")
        BY <1>1, <3>2 DEF Thread
      <4> QED
        BY <4>1 DEF RaceInv, RaceHeld
    <3> QED
      BY <3>1, <3>2
  <2> QED
    BY <2>1, <2>2 DEF RaceHeld
<1> QED
  BY <1>2, <1>3 DEF RaceInv

\* What is known of a thread that goes on.
LEMMA RaceFrame ==
    ASSUME RaceInv, NEW t \in Thread, pc[t] # "idle"
    PROVE  /\ DOMAIN frame = Thread /\ DOMAIN frame[t] = Fields /\ ModelOf(t) \in Model
           /\ frame[t].then \in {"move", "load"}
           /\ t = "main" => frame[t].then = "move"
           /\ t = "main" => pc[t] \notin ProcessSteps
BY DEF RaceInv, RaceThreads

\* The components move; both threads may move the same ones.
LEMMA RaceTransfer ==
    ASSUME RaceInv, NEW t \in Thread, Transfer(t)
    PROVE  RaceInv'
<1> USE DEF Steps, ProcessSteps, SharedSteps, dicts
<1>0. pc[t] = "move"
  BY DEF Transfer
<1>m. PICK m \in Model : m = ModelOf(t)
  BY <1>0, RaceFrame
<1>1. CASE m \notin DOMAIN cpuModels
  <2>1. frame' = frame /\ UNCHANGED <<copies, dicts, preload>>
        /\ pc' = [pc EXCEPT ![t] = IF t = "main" THEN "respond" ELSE "dead"]
    BY <1>1, <1>m DEF Transfer, Raises
  <2> QED
    BY <1>0, <1>m, <2>1, RaceFrame, RaceLook DEF Thread
<1>2. CASE m \in DOMAIN cpuModels
  <2> DEFINE c == cpuModels[m]
  <2>1. /\ pc' = [pc EXCEPT ![t] = "publish"] /\ frame' = [frame EXCEPT ![t].copy = c]
        /\ copies' = [copies EXCEPT ![c].device = "gpu"]
        /\ UNCHANGED <<dicts, preload>>
    BY <1>2, <1>m DEF Transfer, Goto
  <2>2. c \in DOMAIN copies /\ copies[c].model = m /\ copies \in Seq(Copy)
    BY <1>2 DEF RaceInv, RaceEntries
  <2> HIDE DEF c
  <2>3. /\ copies' \in Seq(Copy) /\ DOMAIN copies' = DOMAIN copies
        /\ \A k \in DOMAIN copies : /\ copies'[k].model = copies[k].model
                                    /\ k # c => copies'[k].device = copies[k].device
        /\ copies'[c].device = "gpu"
    BY <2>1, <2>2, Relocated
  <2>4. /\ DOMAIN frame' = Thread /\ \A u \in Thread \ {t} : frame'[u] = frame[u]
        /\ DOMAIN frame'[t] = Fields /\ frame'[t].then = frame[t].then
        /\ frame'[t].task = frame[t].task /\ frame'[t].copy = c
    BY <1>0, <2>1, RaceFrame DEF Fields
  <2>5. /\ RaceThreads'
        /\ pc'[t] = "publish" /\ \A u \in Thread \ {t} : pc'[u] = pc[u]
        /\ \A u \in Thread : ModelOf(u)' = ModelOf(u)
    <3>1. frame[t].then \in {"move", "load"} /\ (t = "main" => frame[t].then = "move")
      BY <1>0, RaceFrame
    <3> QED
      BY <1>0, <2>1, <2>4, <3>1, RaceOnward DEF RaceInv
  <2>6. RaceEntries'
    <3>1. \A k \in DOMAIN copies : pc["process"] = "enter" /\ frame["process"].copy = k
            => pc'["process"] = "enter" /\ frame'["process"].copy = k
      BY <1>0, <2>4, <2>5 DEF Thread
    <3> QED
      BY <2>1, <2>3, <3>1 DEF RaceInv, RaceEntries
  <2>7. \A n \in Model \ {m} :
          /\ n \in DOMAIN cpuModels => copies'[cpuModels[n]].device = copies[cpuModels[n]].device
          /\ n \in DOMAIN gpuModels => copies'[gpuModels[n]].device = copies[gpuModels[n]].device
    <3>1. /\ \A n \in DOMAIN cpuModels : n # m => cpuModels[n] \in DOMAIN copies \ {c}
          /\ \A n \in DOMAIN gpuModels : n # m => gpuModels[n] \in DOMAIN copies \ {c}
      BY <2>2 DEF RaceInv, RaceEntries
    <3> QED
      BY <2>3, <3>1
  <2>8. RacePlace(m)'
    <3>1. At({"publish", "retire"}, m)'
      BY <2>5, <1>m DEF At
    <3>2. /\ At({"retire"}, m) => At({"retire"}, m)'
          /\ At({"account"}, m) => At({"account"}, m)'
      <4>1. ASSUME NEW u \in Thread, pc[u] \in {"retire", "account"}
            PROVE  pc'[u] = pc[u] /\ ModelOf(u)' = ModelOf(u)
        BY <1>0, <2>5, <4>1
      <4> QED
        BY <4>1 DEF At
    <3>3. RacePlace(m) /\ (m \in DOMAIN gpuModels => gpuModels[m] \in DOMAIN copies)
      BY <1>2 DEF RaceInv, RacePlaces, RaceEntries
    <3> HIDE DEF c
    <3>4. m \in DOMAIN gpuModels => copies'[gpuModels[m]].device = "gpu"
      BY <2>3, <3>3 DEF RacePlace
    <3> QED
      BY <2>1, <3>1, <3>2, <3>3, <3>4 DEF RacePlace
  <2>9. \A k \in DOMAIN copies :
          /\ k \in DOMAIN copies' /\ copies'[k].model = copies[k].model
          /\ copies[k].device = "gpu" => copies'[k].device = "gpu"
    BY <2>3
  <2>10. UNCHANGED <<cpuModels, gpuModels, usage>>
    BY <2>1
  <2>11. /\ pc'[t] = "publish" /\ m \in DOMAIN cpuModels'
         /\ frame'[t].copy \in DOMAIN copies' /\ copies'[frame'[t].copy].model = m
         /\ copies'[frame'[t].copy].device = "gpu"
    BY <1>2, <2>2, <2>3, <2>4, <2>5, <2>10
  <2> QED
    BY <2>4, <2>5, <2>6, <2>7, <2>8, <2>9, <2>10, <2>11, RaceKept, <1>m
<1> QED
  BY <1>1, <1>2

\* The entry in gpu_models: the model was in host memory until now, or the other
\* thread has entered the same copy.
LEMMA RacePublish ==
    ASSUME RaceInv, NEW t \in Thread, Publish(t)
    PROVE  RaceInv'
<1> USE DEF Steps, ProcessSteps, SharedSteps, dicts
<1>1. /\ pc[t] = "publish" /\ pc' = [pc EXCEPT ![t] = "retire"]
      /\ UNCHANGED <<copies, cpuModels, usage, patchStatus, frame, preload>>
  BY DEF Publish, Goto
<1>2. PICK m \in Model : m = ModelOf(t)
  BY <1>1, RaceFrame
<1>3. PICK c \in DOMAIN copies : c = frame[t].copy /\ copies[c].model = m /\ copies[c].device = "gpu"
  BY <1>1, <1>2 DEF RaceInv, RaceHeld
<1>4. /\ DOMAIN gpuModels' = DOMAIN gpuModels \cup {m} /\ gpuModels'[m] = c
      /\ \A n \in DOMAIN gpuModels : n # m => gpuModels'[n] = gpuModels[n]
  BY <1>2, <1>3 DEF Publish, With
<1>5. m \in DOMAIN cpuModels \cup DOMAIN gpuModels
  BY <1>1, <1>2 DEF RaceInv, RaceHeld
<1>6. /\ RaceThreads'
      /\ pc'[t] = "retire" /\ \A u \in Thread \ {t} : pc'[u] = pc[u]
      /\ \A u \in Thread : ModelOf(u)' = ModelOf(u)
  <2>1. /\ DOMAIN frame = Thread /\ DOMAIN frame[t] = Fields
        /\ frame[t].then \in {"move", "load"} /\ (t = "main" => frame[t].then = "move")
    BY <1>1, RaceFrame
  <2> QED
    BY <1>1, <2>1, RaceOnward DEF RaceInv
<1>7. RaceEntries'
  <2>1. \A k \in DOMAIN copies : pc["process"] = "enter" /\ frame["process"].copy = k
          => pc'["process"] = "enter" /\ frame'["process"].copy = k
    BY <1>1, <1>6 DEF Thread
  <2> QED
    BY <1>1, <1>3, <1>4, <2>1 DEF RaceInv, RaceEntries
<1>8. RacePlace(m)'
  <2>1. At({"publish", "retire"}, m)' /\ At({"retire"}, m)'
    BY <1>2, <1>6 DEF At
  <2>2. At({"account"}, m) => At({"account"}, m)'
    <3>1. ASSUME NEW u \in Thread, pc[u] \in {"account"}
          PROVE  pc'[u] = pc[u] /\ ModelOf(u)' = ModelOf(u)
      BY <1>1, <1>6, <3>1
    <3> QED
      BY <3>1 DEF At
  <2>3. RacePlace(m)
    BY DEF RaceInv, RacePlaces
  <2> QED
    BY <1>1, <1>3, <1>4, <1>5, <2>1, <2>2, <2>3 DEF RacePlace
<1>9. \A n \in Model \ {m} :
        /\ n \in DOMAIN gpuModels' <=> n \in DOMAIN gpuModels
        /\ n \in DOMAIN gpuModels => copies'[gpuModels'[n]].device = copies[gpuModels[n]].device
  BY <1>1, <1>4
<1>10. m \in DOMAIN gpuModels' /\ DOMAIN gpuModels \subseteq DOMAIN gpuModels'
  BY <1>4
<1> QED
  BY <1>1, <1>2, <1>3, <1>6, <1>7, <1>8, <1>9, <1>10, RaceKept

\* The end of the entry in cpu_models, which the other thread may have taken.
LEMMA RaceRetire ==
    ASSUME RaceInv, NEW t \in Thread, Retire(t)
    PROVE  RaceInv'
<1> USE DEF Steps, ProcessSteps, SharedSteps, dicts
<1>1. /\ pc[t] = "retire"
      /\ UNCHANGED <<copies, gpuModels, usage, patchStatus, frame, preload>>
  BY DEF Retire
<1>2. PICK m \in Model : m = ModelOf(t)
  BY <1>1, RaceFrame
<1>3. CASE m \notin DOMAIN cpuModels
  <2>1. /\ UNCHANGED cpuModels
        /\ pc' = [pc EXCEPT ![t] = IF t = "main" THEN "respond" ELSE "dead"]
    BY <1>2, <1>3 DEF Retire, Raises
  <2> QED
    BY <1>1, <1>2, <1>3, <2>1, RaceFrame, RaceLook DEF Thread
<1>4. CASE m \in DOMAIN cpuModels
  <2>1. /\ pc' = [pc EXCEPT ![t] = "account"]
        /\ DOMAIN cpuModels' = DOMAIN cpuModels \ {m}
        /\ \A n \in DOMAIN cpuModels : n # m => cpuModels'[n] = cpuModels[n]
    BY <1>2, <1>4 DEF Retire, Goto, Without
  <2>2. m \in DOMAIN gpuModels
    BY <1>1, <1>2 DEF RaceInv, RaceHeld
  <2>3. /\ RaceThreads'
        /\ pc'[t] = "account" /\ \A u \in Thread \ {t} : pc'[u] = pc[u]
        /\ \A u \in Thread : ModelOf(u)' = ModelOf(u)
    <3>1. /\ DOMAIN frame = Thread /\ DOMAIN frame[t] = Fields
          /\ frame[t].then \in {"move", "load"} /\ (t = "main" => frame[t].then = "move")
      BY <1>1, RaceFrame
    <3> QED
      BY <1>1, <2>1, <3>1, RaceOnward DEF RaceInv
  <2>4. RaceEntries'
    <3>1. \A k \in DOMAIN copies : pc["process"] = "enter" /\ frame["process"].copy = k
            => pc'["process"] = "enter" /\ frame'["process"].copy = k
      BY <1>1, <2>3 DEF Thread
    <3> QED
      BY <1>1, <2>1, <2>2, <3>1 DEF RaceInv, RaceEntries
  <2>5. RacePlace(m)'
    <3>1. At({"account"}, m)'
      BY <1>2, <2>3 DEF At
    <3>2. RacePlace(m)
      BY DEF RaceInv, RacePlaces
    <3> QED
      BY <1>1, <2>1, <2>2, <3>1, <3>2 DEF RacePlace
  <2>6. \A n \in Model \ {m} :
          /\ n \in DOMAIN cpuModels' <=> n \in DOMAIN cpuModels
          /\ n \in DOMAIN cpuModels => copies'[cpuModels'[n]].device = copies[cpuModels[n]].device
    BY <1>1, <2>1
  <2>7. /\ DOMAIN cpuModels' \subseteq DOMAIN cpuModels
        /\ DOMAIN cpuModels \subseteq DOMAIN cpuModels' \cup DOMAIN gpuModels
    BY <2>1, <2>2
  <2> QED
    BY <1>1, <1>2, <2>2, <2>3, <2>4, <2>5, <2>6, <2>7, RaceKept
<1> QED
  BY <1>3, <1>4

\* The bookkeeping, once per thread that moved the model.
LEMMA RaceAccount ==
    ASSUME RaceInv, NEW t \in Thread, Account(t)
    PROVE  RaceInv'
<1> USE DEF Steps, ProcessSteps, SharedSteps, dicts
<1> DEFINE s == IF t = "main" THEN "respond" ELSE "use"
<1>1. /\ pc[t] = "account" /\ pc' = [pc EXCEPT ![t] = s]
      /\ UNCHANGED <<copies, cpuModels, gpuModels, patchStatus, frame, preload>>
  BY DEF Account, Goto
<1>2. PICK m \in Model : m = ModelOf(t)
  BY <1>1, RaceFrame
<1>3. Base[m] \in Nat /\ usage \in [Model -> Int] /\ m \in DOMAIN gpuModels
  BY <1>1, <1>2, ModelCacheAssumption DEF RaceInv, RaceEntries, RaceHeld
<1>4. /\ usage' \in [Model -> Int] /\ usage'[m] = Base[m]
      /\ \A n \in Model \ {m} : usage'[n] = usage[n]
  BY <1>2, <1>3 DEF Account
<1>5. /\ RaceThreads'
      /\ pc'[t] \in {"respond", "use"} /\ \A u \in Thread \ {t} : pc'[u] = pc[u]
      /\ \A u \in Thread : ModelOf(u)' = ModelOf(u)
  <2>1. /\ DOMAIN frame = Thread /\ DOMAIN frame[t] = Fields
        /\ frame[t].then \in {"move", "load"} /\ (t = "main" => frame[t].then = "move")
    BY <1>1, RaceFrame
  <2> QED
    BY <1>1, <2>1, RaceOnward DEF RaceInv
<1>6. RaceEntries'
  <2>1. \A k \in DOMAIN copies : pc["process"] = "enter" /\ frame["process"].copy = k
          => pc'["process"] = "enter" /\ frame'["process"].copy = k
    BY <1>1, <1>5 DEF Thread
  <2> QED
    BY <1>1, <1>4, <2>1 DEF RaceInv, RaceEntries
<1>7. RacePlace(m)'
  <2>1. ASSUME NEW u \in Thread, pc[u] \in {"publish", "retire"}
        PROVE  pc'[u] = pc[u] /\ ModelOf(u)' = ModelOf(u)
    BY <1>1, <1>5, <2>1
  <2>2. /\ At({"publish", "retire"}, m) => At({"publish", "retire"}, m)'
        /\ At({"retire"}, m) => At({"retire"}, m)'
    BY <2>1 DEF At
  <2>3. RacePlace(m)
    BY DEF RaceInv, RacePlaces
  <2> QED
    BY <1>1, <1>3, <1>4, <2>2, <2>3 DEF RacePlace
<1> QED
  BY <1>1, <1>2, <1>3, <1>4, <1>5, <1>6, <1>7, RaceKept

\* A model that is nowhere is initialised by the process thread, and by it only.
LEMMA RaceLoad ==
    ASSUME RaceInv, LoadModel
    PROVE  RaceInv'
<1> USE DEF Steps, ProcessSteps, SharedSteps, dicts
<1> DEFINE t == "process"
<1>1. /\ pc[t] = "load" /\ t \in Thread
      /\ UNCHANGED <<cpuModels, gpuModels, usage, patchStatus, preload>>
  BY DEF LoadModel, Thread
<1>2. PICK m \in Model : m = ModelOf(t)
  BY <1>1, RaceFrame
<1>3. CASE m \in DOMAIN gpuModels
  <2>1. pc' = [pc EXCEPT ![t] = "account"] /\ UNCHANGED <<copies, frame>>
    BY <1>2, <1>3 DEF LoadModel, Goto
  <2> QED
    BY <1>1, <1>2, <1>3, <2>1, RaceFrame, RaceLook
<1>4. CASE m \notin DOMAIN gpuModels
  <2> DEFINE e == Len(copies) + 1
             new == [model |-> m, device |-> "gpu", patches |-> {}]
  <2>1. /\ pc' = [pc EXCEPT ![t] = "enter"] /\ frame' = [frame EXCEPT ![t].copy = e]
        /\ copies' = Append(copies, new)
    BY <1>2, <1>4 DEF LoadModel, Goto
  <2>2. m \notin DOMAIN cpuModels /\ copies \in Seq(Copy) /\ new \in Copy
    BY <1>1, <1>2 DEF RaceInv, RaceEntries, RaceHeld, Copy
  <2>3. /\ DOMAIN copies' = DOMAIN copies \cup {e} /\ e \notin DOMAIN copies
        /\ \A k \in DOMAIN copies : copies'[k] = copies[k]
        /\ copies'[e].model = m /\ copies'[e].device = "gpu" /\ copies' \in Seq(Copy)
    BY <2>1, <2>2
  <2>4. /\ DOMAIN frame' = Thread /\ \A u \in Thread \ {t} : frame'[u] = frame[u]
        /\ DOMAIN frame'[t] = Fields /\ frame'[t].then = frame[t].then
        /\ frame'[t].task = frame[t].task /\ frame'[t].copy = e
    BY <1>1, <2>1, RaceFrame DEF Fields
  <2> HIDE DEF e, new
  <2>5. /\ RaceThreads'
        /\ pc'[t] = "enter" /\ \A u \in Thread \ {t} : pc'[u] = pc[u]
        /\ \A u \in Thread : ModelOf(u)' = ModelOf(u)
    <3>1. frame[t].then \in {"move", "load"}
      BY <1>1, RaceFrame
    <3> QED
      BY <1>1, <2>1, <2>4, <3>1, RaceOnward DEF RaceInv
  <2>6. \A k \in DOMAIN copies : /\ copies[k].model \in DOMAIN cpuModels \cup DOMAIN gpuModels
                                 /\ copies[k].model # m
    BY <1>1, <1>4, <2>2 DEF RaceInv, RaceEntries
  <2>7. RaceEntries'
    <3>1. \A k \in DOMAIN copies' :
            \/ copies'[k].model \in DOMAIN cpuModels \cup DOMAIN gpuModels
            \/ pc'[t] = "enter" /\ frame'[t].copy = k
      BY <2>3, <2>4, <2>5, <2>6
    <3>2. \A k, l \in DOMAIN copies' : copies'[k].model = copies'[l].model => k = l
      BY <2>3, <2>6 DEF RaceInv, RaceEntries
    <3>3. /\ \A n \in DOMAIN cpuModels : cpuModels[n] \in DOMAIN copies' /\ copies'[cpuModels[n]].model = n
          /\ \A n \in DOMAIN gpuModels : gpuModels[n] \in DOMAIN copies' /\ copies'[gpuModels[n]].model = n
      BY <2>3 DEF RaceInv, RaceEntries
    <3> QED
      BY <1>1, <2>3, <3>1, <3>2, <3>3 DEF RaceInv, RaceEntries
  <2>8. RacePlace(m)'
    <3>1. RacePlace(m)
      BY DEF RaceInv, RacePlaces
    <3> QED
      BY <1>1, <1>4, <2>2, <3>1 DEF RacePlace
  <2>9. \A n \in Model \ {m} :
          /\ n \in DOMAIN cpuModels => copies'[cpuModels[n]].device = copies[cpuModels[n]].device
          /\ n \in DOMAIN gpuModels => copies'[gpuModels[n]].device = copies[gpuModels[n]].device
    BY <2>3 DEF RaceInv, RaceEntries
  <2>10. /\ \A k \in DOMAIN copies :
              /\ k \in DOMAIN copies' /\ copies'[k].model = copies[k].model
              /\ copies[k].device = "gpu" => copies'[k].device = "gpu"
         /\ e \in DOMAIN copies'
    BY <2>3
  <2> QED
    BY <1>1, <1>2, <2>2, <2>3, <2>4, <2>5, <2>7, <2>8, <2>9, <2>10, RaceKept
<1> QED
  BY <1>3, <1>4

LEMMA RaceEnter ==
    ASSUME RaceInv, EnterLoaded
    PROVE  RaceInv'
<1> USE DEF Steps, ProcessSteps, SharedSteps, dicts
<1> DEFINE t == "process"
<1>1. /\ pc[t] = "enter" /\ t \in Thread /\ pc' = [pc EXCEPT ![t] = "account"]
      /\ UNCHANGED <<copies, cpuModels, usage, patchStatus, frame, preload>>
  BY DEF EnterLoaded, Goto, Thread
<1>2. PICK m \in Model : m = ModelOf(t)
  BY <1>1, RaceFrame
<1>3. PICK c \in DOMAIN copies : c = frame[t].copy /\ copies[c].model = m /\ copies[c].device = "gpu"
  BY <1>1, <1>2 DEF RaceInv, RaceHeld
<1>4. /\ DOMAIN gpuModels' = DOMAIN gpuModels \cup {m} /\ gpuModels'[m] = c
      /\ \A n \in DOMAIN gpuModels : n # m => gpuModels'[n] = gpuModels[n]
  BY <1>2, <1>3 DEF EnterLoaded, With
<1>5. m \notin DOMAIN cpuModels
  BY <1>1, <1>2 DEF RaceInv, RaceHeld
<1>6. /\ RaceThreads'
      /\ pc'[t] = "account" /\ \A u \in Thread \ {t} : pc'[u] = pc[u]
      /\ \A u \in Thread : ModelOf(u)' = ModelOf(u)
  <2>1. /\ DOMAIN frame = Thread /\ DOMAIN frame[t] = Fields
        /\ frame[t].then \in {"move", "load"}
    BY <1>1, RaceFrame
  <2> QED
    BY <1>1, <2>1, RaceOnward DEF RaceInv
<1>7. RaceEntries'
  <2>1. \A k \in DOMAIN copies : frame[t].copy = k => copies[k].model \in DOMAIN gpuModels'
    BY <1>3, <1>4
  <2> QED
    BY <1>1, <1>3, <1>4, <2>1 DEF RaceInv, RaceEntries
<1>8. RacePlace(m)'
  <2>1. At({"account"}, m)'
    BY <1>1, <1>2, <1>6 DEF At
  <2> QED
    BY <1>1, <1>3, <1>4, <1>5, <2>1 DEF RacePlace
<1>9. \A n \in Model \ {m} :
        /\ n \in DOMAIN gpuModels' <=> n \in DOMAIN gpuModels
        /\ n \in DOMAIN gpuModels => copies'[gpuModels'[n]].device = copies[gpuModels[n]].device
  BY <1>1, <1>4
<1>10. m \in DOMAIN gpuModels' /\ DOMAIN gpuModels \subseteq DOMAIN gpuModels'
  BY <1>4
<1> QED
  BY <1>1, <1>2, <1>6, <1>7, <1>8, <1>9, <1>10, RaceKept

\* Patches change neither models nor devices.
LEMMA RacePatch ==
    ASSUME RaceInv, ApplyPatches
    PROVE  RaceInv'
<1> USE DEF Steps, ProcessSteps, SharedSteps, dicts
<1> DEFINE t == "process"
           c == frame[t].copy
           Patched(S) == (S \ Unneeded(ModelOf(t), frame[t].task.patches))
                           \cup Missing(ModelOf(t), frame[t].task.patches)
<1>1. /\ pc[t] = "patch" /\ t \in Thread /\ pc' = [pc EXCEPT ![t] = "execute"]
      /\ UNCHANGED <<cpuModels, gpuModels, usage, frame, preload>>
  BY DEF ApplyPatches, Goto, Thread
<1>2. PICK m \in Model : m = ModelOf(t)
  BY <1>1, RaceFrame
<1>3. /\ copies' = [copies EXCEPT ![c].patches = Patched(@)]
      /\ patchStatus' = [patchStatus EXCEPT ![m] = Patched(@)]
  BY <1>2 DEF ApplyPatches
<1>4. /\ c \in DOMAIN copies /\ copies \in Seq(Copy) /\ patchStatus \in [Model -> SUBSET Patch]
      /\ frame[t].task.patches \subseteq Patch
  BY <1>1, ModelCacheAssumption DEF RaceInv, RaceHeld, RaceEntries, RaceThreads
<1>5. \A S \in SUBSET Patch : Patched(S) \subseteq Patch
  BY <1>4 DEF Missing
<1> HIDE DEF Patched
<1>6. patchStatus' \in [Model -> SUBSET Patch]
  BY <1>2, <1>3, <1>4, <1>5
<1>7. /\ copies' \in Seq(Copy) /\ DOMAIN copies' = DOMAIN copies
      /\ \A k \in DOMAIN copies : /\ copies'[k].model = copies[k].model
                                  /\ copies'[k].device = copies[k].device
  <2> DEFINE new == [copies[c] EXCEPT !.patches = Patched(copies[c].patches)]
  <2>1. copies[c] \in Copy
    BY <1>4
  <2>2. new \in Copy /\ new.model = copies[c].model /\ new.device = copies[c].device
    BY <1>5, <2>1 DEF Copy
  <2>3. copies' = [copies EXCEPT ![c] = new]
    BY <1>3
  <2> HIDE DEF new, c
  <2>4. /\ copies' \in Seq(Copy) /\ DOMAIN copies' = DOMAIN copies
        /\ copies'[c] = new /\ \A k \in DOMAIN copies \ {c} : copies'[k] = copies[k]
    BY <1>4, <2>2, <2>3
  <2> QED
    BY <2>2, <2>4
<1> HIDE DEF c
<1>8. /\ RaceThreads'
      /\ pc'[t] = "execute" /\ \A u \in Thread \ {t} : pc'[u] = pc[u]
      /\ \A u \in Thread : ModelOf(u)' = ModelOf(u)
  <2>1. /\ DOMAIN frame = Thread /\ DOMAIN frame[t] = Fields
        /\ frame[t].then \in {"move", "load"}
    BY <1>1, RaceFrame
  <2> QED
    BY <1>1, <2>1, RaceOnward DEF RaceInv
<1>9. RaceEntries'
  BY <1>1, <1>6, <1>7 DEF RaceInv, RaceEntries
<1>10. /\ \A n \in DOMAIN cpuModels : copies'[cpuModels[n]].device = copies[cpuModels[n]].device
       /\ \A n \in DOMAIN gpuModels : copies'[gpuModels[n]].device = copies[gpuModels[n]].device
  BY <1>7 DEF RaceInv, RaceEntries
<1>11. RacePlace(m)'
  <2>1. ASSUME NEW u \in Thread, pc[u] \in {"publish", "retire", "account"}
        PROVE  pc'[u] = pc[u] /\ ModelOf(u)' = ModelOf(u)
    BY <1>1, <1>8, <2>1
  <2>2. /\ At({"publish", "retire"}, m) => At({"publish", "retire"}, m)'
        /\ At({"retire"}, m) => At({"retire"}, m)'
        /\ At({"account"}, m) => At({"account"}, m)'
    BY <2>1 DEF At
  <2>3. RacePlace(m)
    BY DEF RaceInv, RacePlaces
  <2> QED
    BY <1>1, <1>10, <2>2, <2>3 DEF RacePlace
<1> QED
  BY <1>1, <1>2, <1>7, <1>8, <1>9, <1>10, <1>11, RaceKept

LEMMA RaceNext == ASSUME RaceInv, RoomForAll, [Next]_vars PROVE RaceInv'
<1>1. \A t \in Thread : pc[t] \notin {"evict", "demote", "store", "drop"}
  BY DEF RaceInv, RaceThreads
<1>2. ASSUME NEW t \in Thread, MoveToGpu(t) PROVE RaceInv'
  <2>1. ~(EvictNext(t) \/ Demote(t) \/ StoreOnCpu(t) \/ DropFromGpu(t))
    BY <1>1 DEF EvictNext, Demote, StoreOnCpu, DropFromGpu
  <2> QED
    BY <1>2, <2>1, RaceLooks, RaceTransfer, RacePublish, RaceRetire, RaceAccount DEF MoveToGpu
<1>3. CASE HandleModelLoading \/ \E task \in Task : EnsureModel(task)
  BY <1>3, RaceHandle, RaceEnsure
<1>4. CASE RespondModelLoading \/ FinishTask
  BY <1>4, RaceEnd DEF RespondModelLoading, FinishTask, Goto, Thread
<1>5. CASE FindOnCpu \/ Touch \/ UseModel
  BY <1>5, RaceLooks DEF Thread
<1>6. CASE LoadModel \/ EnterLoaded \/ ApplyPatches
  BY <1>6, RaceLoad, RaceEnter, RacePatch
<1>7. CASE UNCHANGED vars
  <2>1. RaceThreads' /\ RaceEntries'
    BY <1>7 DEF vars, RaceInv, RaceThreads, RaceEntries, ModelOf
  <2>2. RacePlaces' /\ RaceHeld'
    BY <1>7 DEF vars, RaceInv, RacePlaces, RacePlace, At, RaceHeld, ModelOf
  <2> QED
    BY <2>1, <2>2 DEF RaceInv
<1> QED
  BY <1>2, <1>3, <1>4, <1>5, <1>6, <1>7 DEF Next, MainStep, ProcessStep, Thread

\* Tasks and preload messages at any moment, both threads in the dictionaries at
\* once and some of their accesses raising: where all models have room, each model
\* ends in one dictionary, accounted for and initialised once
\* (_handle_model_loading, _ensure_model_in_gpu, _move_model_to_gpu, _load_model).
THEOREM RacingThreadsAgree == ASSUME RoomForAll PROVE Spec => []CacheConsistent
<1>1. RaceInv /\ [Next]_vars => RaceInv'
  BY RaceNext
<1>2. RaceInv => CacheConsistent
  <2> SUFFICES ASSUME RaceInv, \A t \in Thread : pc[t] \in {"idle", "dead"}
               PROVE  CacheConsistent
    BY DEF CacheConsistent
  <2>1. \A m : ~At({"publish", "retire"}, m) /\ ~At({"retire"}, m) /\ ~At({"account"}, m)
    BY DEF At
  <2>2. \A m \in Model : RacePlace(m)
    BY DEF RaceInv, RacePlaces
  <2>3. DOMAIN cpuModels \subseteq Model /\ DOMAIN gpuModels \subseteq Model
    BY DEF RaceInv, RaceEntries
  <2>4. DOMAIN cpuModels \cap DOMAIN gpuModels = {}
    BY <2>1, <2>2, <2>3 DEF RacePlace
  <2>5. /\ \A m \in DOMAIN cpuModels : copies[cpuModels[m]].device = "cpu"
        /\ \A m \in DOMAIN gpuModels : copies[gpuModels[m]].device = "gpu"
    BY <2>1, <2>2, <2>3 DEF RacePlace
  <2>6. \A m \in Model : usage[m] = IF m \in DOMAIN gpuModels THEN Base[m] ELSE 0
    BY <2>1, <2>2, <2>4 DEF RacePlace
  <2> QED
    BY <2>4, <2>5, <2>6 DEF RaceInv, RaceEntries, CacheConsistent
<1> QED
  BY <1>1, <1>2, RaceStart, PTL DEF Spec

=============================================================================
