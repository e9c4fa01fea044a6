--------------------------- MODULE WorkerRuntime ----------------------------
(***************************************************************************)
(* The threads of one worker over its data engine: the main thread, which  *)
(* polls the coordinator's socket until a stop message and then shuts the  *)
(* worker down, and the process thread, which runs the task groups.        *)
(*                                                                         *)
(* A task group is the sequence of data-engine calls process_task makes:   *)
(* frees, fetches of remote inputs, gets of lazy inputs, creations of      *)
(* outputs.  What it computes is in DiffusionWorker, the models it needs   *)
(* in ModelCache; a ping changes no state and is left out.                 *)
(***************************************************************************)
EXTENDS DataEngine

CONSTANT
    Inboxes     \* sequences of messages the coordinator may send

Call == [op : {"free", "fetch", "lazy", "create"}, key : Key]

Message ==
    [type : {"task"}, calls : Seq(Call)]
    \cup [type : {"lazy_arrival"}, key : Key] \cup [type : {"stop"}]

ASSUME WorkerRuntimeAssumption == Inboxes \subseteq Seq(Message)

Announces(message, k) == message.type = "lazy_arrival" /\ message.key = k

Fetches(s, k) == \E i \in DOMAIN s : s[i].op = "fetch" /\ s[i].key = k

\* A sample of a ControlNet has one consumer, the model call of its branch and
\* step.  Its worker is told of the sample once, if that is not known when the
\* task is dispatched (_schedule_task_group), and fetches it otherwise.
ASSUME AnnouncedOnce ==
    \A s \in Inboxes : \A k \in Key : \A i, j \in DOMAIN s :
        Announces(s[i], k) =>
            /\ Announces(s[j], k) => i = j
            /\ s[j].type = "task" => ~Fetches(s[j].calls, k)

VARIABLES
    unsent,      \* messages still on their way
    inbox,       \* messages in task_socket
    handlers,    \* lazy arrivals whose asyncio task has not run yet
    taskQueue,   \* worker.task_queue
    running,     \* worker.running
    main,        \* next step of run, stop and cleanup
    process,     \* next step of ProcessTaskThread
    calls        \* the calls left of its task

runtimeVars == <<unsent, inbox, handlers, taskQueue, running, main, process, calls>>

vars == <<engineVars, runtimeVars>>

Init ==
    /\ EngineInit
    /\ unsent \in Inboxes /\ inbox = <<>> /\ handlers = <<>>
    /\ taskQueue = <<>> /\ running = TRUE
    /\ main = "poll" /\ process = "check" /\ calls = <<>>

Deliver ==
    /\ unsent # <<>>
    /\ inbox' = Append(inbox, Head(unsent)) /\ unsent' = Tail(unsent)
    /\ UNCHANGED <<engineVars, handlers, taskQueue, running, main, process, calls>>

-----------------------------------------------------------------------------
(***************************************************************************)
(* run: one message per iteration, with no await in between; a lazy        *)
(* arrival becomes an asyncio task.                                        *)
(***************************************************************************)
Receive ==
    /\ Interpreter /\ main = "poll" /\ inbox # <<>>
    /\ inbox' = Tail(inbox)
    /\ LET message == Head(inbox) IN
       \/ /\ message.type = "task"
          /\ taskQueue' = Append(taskQueue, message.calls)
          /\ UNCHANGED <<handlers, main>>
       \/ /\ message.type = "lazy_arrival"
          /\ handlers' = Append(handlers, message.key)
          /\ UNCHANGED <<taskQueue, main>>
       \/ /\ message.type = "stop"
          /\ main' = "stop"
          /\ UNCHANGED <<taskQueue, handlers>>
    /\ UNCHANGED <<engineVars, unsent, running, process, calls>>

\* The socket is empty: the sleep lets the tasks run.
Await ==
    /\ Interpreter /\ main = "poll" /\ inbox = <<>> /\ handlers # <<>>
    /\ main' = "handle"
    /\ UNCHANGED <<engineVars, unsent, inbox, handlers, taskQueue, running,
                   process, calls>>

\* _handle_lazy_arrival: submit_fetch_task, while the engine runs.
HandleLazyArrival ==
    /\ Interpreter /\ main = "handle"
    /\ fetchQueue' = Append(fetchQueue, Head(handlers))
    /\ handlers' = Tail(handlers)
    /\ main' = IF Len(handlers) = 1 THEN "poll" ELSE "handle"
    /\ UNCHANGED <<engineRunning, backendUp, freeQueue, received, event,
                   allocated, gil, freeing, fetching, fetched, unsent, inbox,
                   taskQueue, running, process, calls>>

\* The engine's __exit__: stop ...
StopEngine ==
    /\ Interpreter /\ main = "stop"
    /\ engineRunning' = FALSE
    /\ main' = "joinEngine"
    /\ UNCHANGED <<backendUp, freeQueue, fetchQueue, received, event, allocated,
                   gil, freeing, fetching, fetched, unsent, inbox, handlers,
                   taskQueue, running, process, calls>>

EngineEnded == freeing = "done" /\ fetching = "done"

\* ... the two joins and the release of the backend.
ReleaseBackend ==
    /\ Interpreter /\ main = "joinEngine" /\ EngineEnded
    /\ backendUp' = FALSE
    /\ main' = "cleanup"
    /\ UNCHANGED <<engineRunning, freeQueue, fetchQueue, received, event,
                   allocated, gil, freeing, fetching, fetched, unsent, inbox,
                   handlers, taskQueue, running, process, calls>>

\* cleanup: running = False ...
Cleanup ==
    /\ Interpreter /\ main = "cleanup"
    /\ running' = FALSE
    /\ main' = "joinProcess"
    /\ UNCHANGED <<engineVars, unsent, inbox, handlers, taskQueue, process, calls>>

\* ... and the join of the process thread, then the sockets.
FinishCleanup ==
    /\ Interpreter /\ main = "joinProcess" /\ process \in {"done", "dead"}
    /\ main' = "stopped"
    /\ UNCHANGED <<engineVars, unsent, inbox, handlers, taskQueue, running,
                   process, calls>>

MainThread ==
    \/ Receive \/ Await \/ HandleLazyArrival
    \/ StopEngine \/ ReleaseBackend \/ Cleanup \/ FinishCleanup

-----------------------------------------------------------------------------
Key1 == Head(calls).key

\* ProcessTaskThread.run: the loop condition.
ProcessCheck ==
    /\ Interpreter /\ process = "check"
    /\ process' = IF running \/ taskQueue # <<>> THEN "get" ELSE "done"
    /\ UNCHANGED <<engineVars, unsent, inbox, handlers, taskQueue, running,
                   main, calls>>

\* task_queue.get without a timeout.
ProcessGet ==
    /\ Interpreter /\ process = "get" /\ taskQueue # <<>>
    /\ calls' = Head(taskQueue) /\ taskQueue' = Tail(taskQueue)
    /\ process' = "task"
    /\ UNCHANGED <<engineVars, unsent, inbox, handlers, running, main>>

\* The next call; submit_* raise when the engine has stopped, a backend that
\* is None raises, and an exception ends the thread.
NextCall ==
    /\ Interpreter /\ process = "task"
    /\ process' = IF calls = <<>> THEN "check"
                  ELSE CASE Head(calls).op = "free" ->
                              IF engineRunning THEN "putFree" ELSE "dead"
                         [] Head(calls).op = "fetch" ->
                              IF engineRunning THEN "putFetch" ELSE "dead"
                         [] Head(calls).op = "lazy" -> "getEvent"
                         [] Head(calls).op = "create" ->
                              IF backendUp THEN "create" ELSE "dead"
    /\ UNCHANGED <<engineVars, unsent, inbox, handlers, taskQueue, running,
                   main, calls>>

EndCall == process' = "task" /\ calls' = Tail(calls)

\* submit_free_task, after its check of running
PutFree ==
    /\ Interpreter /\ process = "putFree"
    /\ freeQueue' = freeQueue + 1
    /\ EndCall
    /\ UNCHANGED <<engineRunning, backendUp, fetchQueue, received, event,
                   allocated, gil, freeing, fetching, fetched, unsent, inbox,
                   handlers, taskQueue, running, main>>

\* submit_fetch_task, after its check of running
PutFetch ==
    /\ Interpreter /\ process = "putFetch"
    /\ fetchQueue' = Append(fetchQueue, Key1)
    /\ process' = "getEvent"
    /\ UNCHANGED <<engineRunning, backendUp, freeQueue, received, event,
                   allocated, gil, freeing, fetching, fetched, unsent, inbox,
                   handlers, taskQueue, running, main, calls>>

\* get: tensor_arrival.setdefault ...
GetEvent ==
    /\ Interpreter /\ process = "getEvent"
    /\ event' = [event EXCEPT ![Key1] = IF @ = "none" THEN "clear" ELSE @]
    /\ process' = "wait"
    /\ UNCHANGED <<engineRunning, backendUp, freeQueue, fetchQueue, received,
                   allocated, gil, freeing, fetching, fetched, unsent, inbox,
                   handlers, taskQueue, running, main, calls>>

\* ... the wait, repeated after each timeout ...
WaitArrival ==
    /\ Interpreter /\ process = "wait" /\ event[Key1] = "set"
    /\ process' = "popTensor"
    /\ UNCHANGED <<engineVars, unsent, inbox, handlers, taskQueue, running,
                   main, calls>>

\* ... received_tensors.pop, which raises without the tensor ...
PopTensor ==
    /\ Interpreter /\ process = "popTensor"
    /\ process' = IF Key1 \in received THEN "popEvent" ELSE "dead"
    /\ received' = received \ {Key1}
    /\ UNCHANGED <<engineRunning, backendUp, freeQueue, fetchQueue, event,
                   allocated, gil, freeing, fetching, fetched, unsent, inbox,
                   handlers, taskQueue, running, main, calls>>

\* Mutant: the event stays, set, for the next fetch of the tensor.
EventAfterGet_Kept(k) == event[k]

EventAfterGet(k) == "none"

\* ... and tensor_arrival.pop.
PopEvent ==
    /\ Interpreter /\ process = "popEvent"
    /\ event' = [event EXCEPT ![Key1] = EventAfterGet(Key1)]
    /\ EndCall
    /\ UNCHANGED <<engineRunning, backendUp, freeQueue, fetchQueue, received,
                   allocated, gil, freeing, fetching, fetched, unsent, inbox,
                   handlers, taskQueue, running, main>>

\* backend.create_tensor
CreateTensor ==
    /\ process = "create"
    /\ \/ Allocate("process") /\ EndCall
       \/ WaitForRoom("process") /\ UNCHANGED <<process, calls, allocated>>
    /\ UNCHANGED <<engineRunning, backendUp, freeQueue, fetchQueue, received,
                   event, freeing, fetching, fetched, unsent, inbox, handlers,
                   taskQueue, running, main>>

ProcessThread ==
    \/ ProcessCheck \/ ProcessGet \/ NextCall
    \/ PutFree \/ PutFetch \/ CreateTensor
    \/ GetEvent \/ WaitArrival \/ PopTensor \/ PopEvent

EngineThread ==
    (FreeingThread \/ FetchingThread) /\ UNCHANGED runtimeVars

Next == Deliver \/ MainThread \/ ProcessThread \/ EngineThread

(***************************************************************************)
(* The interpreter and the operating system run every thread that can run, *)
(* and the sockets deliver.                                                *)
(***************************************************************************)
Spec ==
    /\ Init /\ [][Next]_vars
    /\ WF_vars(Deliver) /\ WF_vars(MainThread) /\ WF_vars(ProcessThread)
    /\ WF_vars(FreeingThread /\ UNCHANGED runtimeVars)
    /\ WF_vars(FetchingThread /\ UNCHANGED runtimeVars)

-----------------------------------------------------------------------------
(***************************************************************************)
(* An arrival is seen: outside arrive and get, a tensor is there exactly   *)
(* when its event is set, whichever of the two came first; and while the   *)
(* engine runs, a thread that saw the event finds the tensor, so no call   *)
(* of a task raises.                                                       *)
(***************************************************************************)
ArrivalSeen ==
    /\ \A k \in Key :
         \/ k \in received <=> event[k] = "set"
         \/ fetching = "signal" /\ fetched = k
         \/ process = "popEvent" /\ Key1 = k
    /\ engineRunning => process # "dead"

(***************************************************************************)
(* Without a stop, every task the coordinator sends is finished, and       *)
(* everything it frees leaves the arena.                                   *)
(***************************************************************************)
TasksFinish ==
    [](main \in {"poll", "handle"}) =>
        <>[](/\ unsent = <<>> /\ inbox = <<>> /\ handlers = <<>>
             /\ taskQueue = <<>> /\ process = "get" /\ freeQueue = 0)

(***************************************************************************)
(* The engine's threads end once told to, so the backend is released.      *)
(***************************************************************************)
EngineStops == main = "joinEngine" ~> ~backendUp

(***************************************************************************)
(* What the main thread had submitted is done before the backend goes.     *)
(***************************************************************************)
DrainedAtRelease ==
    ~backendUp => /\ fetchQueue = <<>> /\ freeQueue = 0
                  /\ freeing = "done" /\ fetching = "done"

(***************************************************************************)
(* An allocation that waits gets its room when tensors are to be freed.    *)
(***************************************************************************)
WaitEnds == (gil # "none" /\ freeQueue > 0) ~> gil = "none"
=============================================================================
