------------------------------ MODULE Startup -------------------------------
(***************************************************************************)
(* The startup of the serving system: the workers come up, prefetch models *)
(* and answer the coordinator's pings, and the coordinator has them move   *)
(* the preloaded models to their GPUs.                                     *)
(*                                                                         *)
(* Two threads of a worker meet here at an asyncio.Event that is not made  *)
(* for threads: the process thread sets it after the prefetching, and the  *)
(* tasks of the main thread's loop that move models wait for it.           *)
(*                                                                         *)
(* A message is never lost: the sockets keep what is sent to a worker that *)
(* is not up. A model, once moved, stays: evictions are in ModelCache.     *)
(***************************************************************************)
EXTENDS Integers, Sequences, FiniteSets, SequencesExt

CONSTANTS
    Worker,    \* the ranks, 0 .. n - 1
    Prefetch,  \* the models of prefetch_models, in order
    Preload,   \* the models of preload_models, in order
    Quick      \* a bound: the workers that have prefetched when they come up

ASSUME StartupAssumption ==
    /\ IsFiniteSet(Worker) /\ Worker = 0 .. Cardinality(Worker) - 1 /\ Worker # {}
    /\ Prefetch \in Seq(ToSet(Prefetch)) /\ IsInjective(Prefetch)
    /\ Preload \in Seq(ToSet(Preload)) /\ IsInjective(Preload)
    /\ Quick \subseteq Worker

VARIABLES
    server,    \* "ping", "receive", "preload", "serving" or "stopped"
    next,      \* the rank whose result socket _check_workers_ready is at
    toSend,    \* the _load_model_on_worker tasks that have not run
    inbox,     \* [Worker -> Seq(message)] task_sockets
    results,   \* [Worker -> Seq(message)] result_sockets
    up,        \* [Worker -> "off", "on" or "stopping"]
    handlers,  \* [Worker -> Seq(model)] _handle_model_loading tasks that have not run
    missed,    \* [Worker -> Seq(model) of at most one] it found the event unset
    waiters,   \* [Worker -> Seq([model, done, late])] the futures of the event, with
               \* a history of whether it was set before they were added
    eventSet,  \* [Worker -> BOOLEAN] prefetching_complete_event
    process,   \* [Worker -> next step of ProcessTaskThread]
    iterated,  \* [Worker -> number of futures that set has gone through]
    mutated,   \* [Worker -> BOOLEAN] the deque has changed under that iteration
    cpu, gpu,  \* [Worker -> set of models] cpu_models and gpu_models
    taskQueue  \* [Worker -> Seq(message)] task_queue

coordinatorVars == <<server, next, toSend>>
mainVars == <<up, handlers, missed>>
eventVars == <<waiters, eventSet, process, iterated, mutated>>
startupVars == <<coordinatorVars, inbox, results, mainVars, eventVars, cpu, gpu, taskQueue>>

Ping == [type |-> "ping"]
Pong == [type |-> "pong"]
Stop == [type |-> "stop"]
ModelLoading(m) == [type |-> "model_loading", model |-> m]
ModelLoaded(m) == [type |-> "model_loading_complete", model |-> m]

Each(value) == [w \in Worker |-> value]

StartupInit ==
    /\ server = "ping" /\ next = 0 /\ toSend = <<>>
    /\ inbox = Each(<<>>) /\ results = Each(<<>>)
    /\ up = Each("off") /\ handlers = Each(<<>>) /\ missed = Each(<<>>)
    /\ waiters = Each(<<>>) /\ eventSet = Each(FALSE)
    /\ process = Each("off") /\ iterated = Each(0) /\ mutated = Each(FALSE)
    /\ cpu = Each({}) /\ gpu = Each({}) /\ taskQueue = Each(<<>>)

-----------------------------------------------------------------------------
(* The coordinator: wait_for_workers_ready.                                *)

\* Every worker is asked before the first answer is waited for.
SendPings ==
    /\ server = "ping"
    /\ inbox' = [w \in Worker |-> Append(inbox[w], Ping)]
    /\ server' = "receive" /\ next' = 0
    /\ UNCHANGED <<toSend, results, mainVars, eventVars, cpu, gpu, taskQueue>>

\* load_models_on_workers: for every model, a task for every worker.
LoadTasks ==
    LET n == Cardinality(Worker)
    IN  [ j \in 1 .. n * Len(Preload) |->
            [model |-> Preload[(j - 1) \div n + 1], to |-> (j - 1) % n] ]

\* Mutant: the server does not wait for the last worker.
LastOf_Short(w) == w + 2 >= Cardinality(Worker)

LastOf(w) == w + 1 = Cardinality(Worker)

\* recv_json blocks, the event loop with it, and only between two rounds is
\* there a look at the 60 s: with a worker that stays silent the server waits
\* for ever. Nothing but a pong is sent before this has ended.
ReceivePong ==
    /\ server = "receive" /\ results[next] # <<>>
    /\ results' = [results EXCEPT ![next] = Tail(@)]
    /\ IF LastOf(next)
       THEN server' = "preload" /\ toSend' = LoadTasks /\ next' = 0
       ELSE next' = next + 1 /\ UNCHANGED <<server, toSend>>
    /\ UNCHANGED <<inbox, mainVars, eventVars, cpu, gpu, taskQueue>>

\* Mutant: the loads are sent after the server has begun to serve.
ServesWhen_AtOnce(loads) == TRUE

\* The loops of run_scheduler are created after these tasks and run after them.
ServesWhen(loads) == loads = <<>>

SendModelLoading ==
    /\ toSend # <<>>
    /\ inbox' = [inbox EXCEPT ![Head(toSend).to] = Append(@, ModelLoading(Head(toSend).model))]
    /\ toSend' = Tail(toSend)
    /\ UNCHANGED <<server, next, results, mainVars, eventVars, cpu, gpu, taskQueue>>

StartServing ==
    /\ server = "preload" /\ ServesWhen(toSend)
    /\ server' = "serving"
    /\ UNCHANGED <<next, toSend, inbox, results, mainVars, eventVars, cpu, gpu, taskQueue>>

\* cleanup, with the event loop blocked until the sockets are closed.
StopWorkers ==
    /\ server = "serving"
    /\ server' = "stopped"
    /\ inbox' = [w \in Worker |-> Append(inbox[w], Stop)]
    /\ UNCHANGED <<next, toSend, results, mainVars, eventVars, cpu, gpu, taskQueue>>

-----------------------------------------------------------------------------
(* The main thread of a worker: setup and run. Its asyncio tasks run while  *)
(* run sleeps, for which it finds the socket empty; here they may run       *)
(* between any two messages.                                                *)

BringUp(w) ==
    /\ up[w] = "off"
    /\ up' = [up EXCEPT ![w] = "on"]
    /\ \/ /\ w \notin Quick
          /\ process' = [process EXCEPT ![w] = "prefetch"]
          /\ UNCHANGED <<eventSet, cpu>>
       \/ /\ w \in Quick
          /\ process' = [process EXCEPT ![w] = "loop"]
          /\ eventSet' = [eventSet EXCEPT ![w] = TRUE]
          /\ cpu' = [cpu EXCEPT ![w] = ToSet(Prefetch)]
    /\ UNCHANGED <<coordinatorVars, inbox, results, handlers, missed, waiters, iterated,
                   mutated, gpu, taskQueue>>

Receive(w) ==
    /\ up[w] = "on" /\ missed[w] = <<>> /\ inbox[w] # <<>>
    /\ inbox' = [inbox EXCEPT ![w] = Tail(@)]
    /\ LET message == Head(inbox[w]) IN
       \/ /\ message.type = "ping"
          /\ results' = [results EXCEPT ![w] = Append(@, Pong)]
          /\ UNCHANGED <<up, handlers, taskQueue>>
       \/ /\ message.type = "task"
          /\ taskQueue' = [taskQueue EXCEPT ![w] = Append(@, message)]
          /\ UNCHANGED <<results, up, handlers>>
       \/ /\ message.type = "model_loading"
          /\ handlers' = [handlers EXCEPT ![w] = Append(@, message.model)]
          /\ UNCHANGED <<results, up, taskQueue>>
       \/ /\ message.type = "stop"
          /\ up' = [up EXCEPT ![w] = "stopping"]
          /\ UNCHANGED <<results, handlers, taskQueue>>
    /\ UNCHANGED <<coordinatorVars, missed, eventVars, cpu, gpu>>

\* _move_model_to_gpu: a model that is in cpu_models is moved, and whatever
\* becomes of it the coordinator gets its answer.
MoveAndRespond(w, m) ==
    /\ gpu' = IF m \in cpu[w] THEN [gpu EXCEPT ![w] = @ \cup {m}] ELSE gpu
    /\ cpu' = [cpu EXCEPT ![w] = @ \ {m}]
    /\ results' = [results EXCEPT ![w] = Append(@, ModelLoaded(m))]

\* Mutant: a handler does not wait.
NeedNotWait_Always(w) == TRUE

NeedNotWait(w) == eventSet[w]

\* A handler asks the event ...
Handle(w) ==
    /\ up[w] = "on" /\ missed[w] = <<>> /\ handlers[w] # <<>>
    /\ handlers' = [handlers EXCEPT ![w] = Tail(@)]
    /\ IF NeedNotWait(w)
       THEN MoveAndRespond(w, Head(handlers[w])) /\ UNCHANGED missed
       ELSE /\ missed' = [missed EXCEPT ![w] = <<Head(handlers[w])>>]
            /\ UNCHANGED <<cpu, gpu, results>>
    /\ UNCHANGED <<coordinatorVars, inbox, up, eventVars, taskQueue>>

\* The iterator of the process thread, if it is in the loop, is invalid.
Mutate(w) == mutated' = [mutated EXCEPT ![w] = process[w] = "wake"]

\* ... and then adds its future, whatever the process thread did in between.
HandlerWaits(w) ==
    /\ missed[w] # <<>>
    /\ waiters' = [waiters EXCEPT ![w] =
                     Append(@, [model |-> Head(missed[w]), done |-> FALSE, late |-> eventSet[w]])]
    /\ missed' = [missed EXCEPT ![w] = <<>>]
    /\ Mutate(w)
    /\ UNCHANGED <<coordinatorVars, inbox, results, up, handlers, eventSet, process,
                   iterated, cpu, gpu, taskQueue>>

\* A handler that was woken takes its future out again.
HandlerResumes(w) ==
    /\ up[w] = "on" /\ missed[w] = <<>>
    /\ \E j \in DOMAIN waiters[w] :
         /\ waiters[w][j].done
         /\ waiters' = [waiters EXCEPT ![w] = RemoveAt(@, j)]
         /\ MoveAndRespond(w, waiters[w][j].model)
    /\ Mutate(w)
    /\ UNCHANGED <<coordinatorVars, inbox, mainVars, eventSet, process, iterated, taskQueue>>

-----------------------------------------------------------------------------
(* The process thread: prefetch_models, set, and then the tasks.           *)

PrefetchModels(w) ==
    /\ process[w] = "prefetch"
    /\ cpu' = [cpu EXCEPT ![w] = @ \cup ToSet(Prefetch)]
    /\ process' = [process EXCEPT ![w] = "set"]
    /\ UNCHANGED <<coordinatorVars, inbox, results, mainVars, waiters, eventSet, iterated,
                   mutated, gpu, taskQueue>>

SetEvent(w) ==
    /\ process[w] = "set"
    /\ eventSet' = [eventSet EXCEPT ![w] = TRUE]
    /\ process' = [process EXCEPT ![w] = "iterate"]
    /\ UNCHANGED <<coordinatorVars, inbox, results, mainVars, waiters, iterated, mutated, cpu,
                   gpu, taskQueue>>

\* "for fut in self._waiters" begins.
BeginIteration(w) ==
    /\ process[w] = "iterate"
    /\ iterated' = [iterated EXCEPT ![w] = 0]
    /\ mutated' = [mutated EXCEPT ![w] = FALSE]
    /\ process' = [process EXCEPT ![w] = "wake"]
    /\ UNCHANGED <<coordinatorVars, inbox, results, mainVars, waiters, eventSet, cpu, gpu,
                   taskQueue>>

\* A deque that changes under its iterator raises, and run has no handler for that.
IterationRaises(w) ==
    /\ process[w] = "wake" /\ mutated[w]
    /\ process' = [process EXCEPT ![w] = "dead"]
    /\ UNCHANGED <<coordinatorVars, inbox, results, mainVars, waiters, eventSet, iterated,
                   mutated, cpu, gpu, taskQueue>>

\* Mutant: set wakes nobody.
WakeNext_Nobody(w) == waiters

WakeNext(w) == [waiters EXCEPT ![w][iterated[w] + 1].done = TRUE]

WakeWaiter(w) ==
    /\ process[w] = "wake" /\ ~mutated[w] /\ iterated[w] < Len(waiters[w])
    /\ waiters' = WakeNext(w)
    /\ iterated' = [iterated EXCEPT ![w] = @ + 1]
    /\ UNCHANGED <<coordinatorVars, inbox, results, mainVars, eventSet, process, mutated, cpu,
                   gpu, taskQueue>>

EndIteration(w) ==
    /\ process[w] = "wake" /\ ~mutated[w] /\ iterated[w] = Len(waiters[w])
    /\ process' = [process EXCEPT ![w] = "loop"]
    /\ UNCHANGED <<coordinatorVars, inbox, results, mainVars, waiters, eventSet, iterated,
                   mutated, cpu, gpu, taskQueue>>

StartCoordinator == SendPings \/ ReceivePong \/ SendModelLoading \/ StartServing

MainThread(w) ==
    Receive(w) \/ Handle(w) \/ HandlerWaits(w) \/ HandlerResumes(w)

ProcessThread(w) ==
    \/ PrefetchModels(w) \/ SetEvent(w) \/ BeginIteration(w)
    \/ IterationRaises(w) \/ WakeWaiter(w) \/ EndIteration(w)
=============================================================================
