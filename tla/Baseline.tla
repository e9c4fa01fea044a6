------------------------------ MODULE Baseline ------------------------------
(***************************************************************************)
(* The baseline systems: the coordinator of src/baselines, which gives     *)
(* whole requests to workers, and the workers. Every action is what one    *)
(* task of the event loop does between two suspensions.                    *)
(*                                                                         *)
(* Time is abstract: the deadline of a request passes at some moment, and  *)
(* a request whose fate is "overlong" is done only after the 300 s that a  *)
(* gathering task waits. Startup and shutdown are left out.                *)
(***************************************************************************)
EXTENDS BaselineWorker

CONSTANT Deadlines  \* the sets of requests that may have a timeout

ASSUME DeadlinesAssumption == Deadlines \subseteq SUBSET Request

VARIABLES
    deadlines,  \* the requests with a timeout
    expired,    \* those whose timeout has passed
    phase,      \* [Request -> "new", "waiting", "set" or "returned"], set: its event is
    outcome,    \* [Request -> "none", "results" or "failed"]
    queue,      \* task_queue
    status,     \* [Worker -> "idle" or "busy"]
    task,       \* [Worker -> Request \cup {None}] the task in worker_status
    gather,     \* [Worker -> the request whose result is gathered, or None]
    sending,    \* [Worker -> the request in _schedule_task before its send, or None]
    sent,       \* [Worker -> the request in _schedule_task after its send, or None]
    active      \* active_tasks

coordinatorVars ==
    <<deadlines, expired, phase, outcome, queue, status, task, gather, sending, sent,
      active>>
vars == <<workerVars, coordinatorVars>>

NoRequest == [w \in Worker |-> None]

Init ==
    /\ WorkerInit
    /\ deadlines \in Deadlines /\ expired = {}
    /\ phase = [r \in Request |-> "new"] /\ outcome = [r \in Request |-> "none"]
    /\ queue = <<>>
    /\ status = [w \in Worker |-> "idle"]
    /\ task = NoRequest /\ gather = NoRequest
    /\ sending = NoRequest /\ sent = NoRequest
    /\ active = {}

\* execute_workflow until it waits for the event of the request.
ExecuteWorkflow(r) ==
    /\ phase[r] = "new"
    /\ phase' = [phase EXCEPT ![r] = "waiting"]
    /\ queue' = Append(queue, r)
    /\ UNCHANGED <<workerVars, deadlines, expired, outcome, status, task, gather,
                   sending, sent, active>>

DeadlinePasses(r) ==
    /\ r \in deadlines \ expired /\ phase[r] # "new"
    /\ expired' = expired \cup {r}
    /\ UNCHANGED <<workerVars, deadlines, phase, outcome, queue, status, task, gather,
                   sending, sent, active>>

---------------------------------------------------------------------------
(* _process_task_queue_loop, for the task it takes from the queue.         *)

CheckTimeout(r) == r \in expired

Candidates(r) ==
    { w \in Worker : status[w] = "idle" /\ PipelineOf[r] \in ToSet(Placed[w]) }

FailLateTask ==
    /\ queue # <<>> /\ CheckTimeout(Head(queue))
    /\ LET r == Head(queue)
       IN  /\ outcome' = [outcome EXCEPT ![r] = "failed"]
           /\ phase' = [phase EXCEPT ![r] = "set"]
    /\ queue' = Tail(queue)
    /\ UNCHANGED <<workerVars, deadlines, expired, status, task, gather, sending, sent,
                   active>>

\* Mutant: a task that finds no worker is forgotten.
PutBack_Dropped ==
    /\ queue # <<>> /\ ~CheckTimeout(Head(queue)) /\ Candidates(Head(queue)) = {}
    /\ queue' = Tail(queue)
    /\ UNCHANGED <<workerVars, deadlines, expired, phase, outcome, status, task, gather,
                   sending, sent, active>>

PutBack ==
    /\ queue # <<>> /\ ~CheckTimeout(Head(queue)) /\ Candidates(Head(queue)) = {}
    /\ queue' = Append(Tail(queue), Head(queue))
    /\ UNCHANGED <<workerVars, deadlines, expired, phase, outcome, status, task, gather,
                   sending, sent, active>>

\* The first idle worker of the table that has the pipeline.
IsFirst(w, r) == w \in Candidates(r) /\ \A v \in Candidates(r) : w <= v

\* Mutant: the worker stays idle.
Assign_Unmarked(w) ==
    /\ queue # <<>> /\ ~CheckTimeout(Head(queue)) /\ IsFirst(w, Head(queue))
    /\ task' = [task EXCEPT ![w] = Head(queue)]
    /\ sending' = [sending EXCEPT ![w] = Head(queue)]
    /\ queue' = Tail(queue)
    /\ UNCHANGED <<workerVars, deadlines, expired, phase, outcome, status, gather, sent,
                   active>>

Assign(w) ==
    /\ queue # <<>> /\ ~CheckTimeout(Head(queue)) /\ IsFirst(w, Head(queue))
    /\ status' = [status EXCEPT ![w] = "busy"]
    /\ task' = [task EXCEPT ![w] = Head(queue)]
    /\ sending' = [sending EXCEPT ![w] = Head(queue)]
    /\ queue' = Tail(queue)
    /\ UNCHANGED <<workerVars, deadlines, expired, phase, outcome, gather, sent, active>>

---------------------------------------------------------------------------
(* _schedule_task and _gather_result_for_task.                             *)

\* send_json in the executor ...
SendTask(w) ==
    /\ sending[w] # None
    /\ inbox' = [inbox EXCEPT ![w] = Append(@, sending[w])]
    /\ sent' = [sent EXCEPT ![w] = sending[w]]
    /\ sending' = [sending EXCEPT ![w] = None]
    /\ UNCHANGED <<baseline, fate, onGpu, age, running, outbox, deadlines, expired, phase,
                   outcome, queue, status, task, gather, active>>

\* ... and back on the event loop, the task that waits for the result.
StartGathering(w) ==
    /\ sent[w] # None
    /\ active' = active \cup {sent[w]}
    /\ gather' = [gather EXCEPT ![w] = sent[w]]
    /\ sent' = [sent EXCEPT ![w] = None]
    /\ UNCHANGED <<workerVars, deadlines, expired, phase, outcome, queue, status, task,
                   sending>>

OutcomeOf(r) == IF CheckTimeout(r) THEN "failed" ELSE "results"

\* Mutant: the status of the worker is not reset.
GatherResult_KeepsBusy(w) ==
    /\ gather[w] # None /\ outbox[w] # <<>>
    /\ LET r == Head(outbox[w])
       IN  /\ outcome' = [outcome EXCEPT ![r] = OutcomeOf(r)]
           /\ phase' = [phase EXCEPT ![r] = "set"]
    /\ outbox' = [outbox EXCEPT ![w] = Tail(@)]
    /\ active' = active \ {gather[w]}
    /\ gather' = [gather EXCEPT ![w] = None]
    /\ UNCHANGED <<baseline, fate, onGpu, age, inbox, running, deadlines, expired, queue,
                   status, task, sending, sent>>

\* The response says which request it is of.
GatherResult(w) ==
    /\ gather[w] # None /\ outbox[w] # <<>>
    /\ LET r == Head(outbox[w])
       IN  /\ outcome' = [outcome EXCEPT ![r] = OutcomeOf(r)]
           /\ phase' = [phase EXCEPT ![r] = "set"]
    /\ outbox' = [outbox EXCEPT ![w] = Tail(@)]
    /\ status' = [status EXCEPT ![w] = "idle"]
    /\ task' = [task EXCEPT ![w] = None]
    /\ active' = active \ {gather[w]}
    /\ gather' = [gather EXCEPT ![w] = None]
    /\ UNCHANGED <<baseline, fate, onGpu, age, inbox, running, deadlines, expired, queue,
                   sending, sent>>

\* No answer is coming within max_wait_time.
Hangs(w) ==
    LET r == gather[w]
    IN  fate[r] = "overlong" \/ (inbox[w] = <<>> /\ running[w] # r /\ outbox[w] = <<>>)

\* Mutant: the worker of a task that was given up is free again.
GiveUp_FreesWorker(w) ==
    /\ gather[w] # None /\ Hangs(w)
    /\ gather' = [gather EXCEPT ![w] = None]
    /\ status' = [status EXCEPT ![w] = "idle"]
    /\ task' = [task EXCEPT ![w] = None]
    /\ UNCHANGED <<workerVars, deadlines, expired, phase, outcome, queue, sending, sent,
                   active>>

\* The TimeoutError ends the task, which nobody awaits.
GiveUp(w) ==
    /\ gather[w] # None /\ Hangs(w)
    /\ gather' = [gather EXCEPT ![w] = None]
    /\ UNCHANGED <<workerVars, deadlines, expired, phase, outcome, queue, status, task,
                   sending, sent, active>>

\* The rest of execute_workflow: results, or ExecutionTimeoutError.
Return(r) ==
    /\ phase[r] = "set"
    /\ phase' = [phase EXCEPT ![r] = "returned"]
    /\ UNCHANGED <<workerVars, deadlines, expired, outcome, queue, status, task, gather,
                   sending, sent, active>>

Loop == FailLateTask \/ PutBack \/ \E w \in Worker : Assign(w)

Start(w) == StartTask(w) /\ UNCHANGED coordinatorVars
Complete(w) ==
    /\ (running[w] # None /\ fate[running[w]] = "overlong") => {sending[w], sent[w], gather[w]} = {None}
    /\ CompleteTask(w) /\ UNCHANGED coordinatorVars

Next ==
    \/ Loop
    \/ \E r \in Request : ExecuteWorkflow(r) \/ DeadlinePasses(r) \/ Return(r)
    \/ \E w \in Worker :
         \/ SendTask(w) \/ StartGathering(w) \/ GatherResult(w) \/ GiveUp(w)
         \/ Start(w) \/ Complete(w)

\* The event loop runs every task of it, a worker its thread, and time passes;
\* clients need not come.
Fairness ==
    /\ WF_vars(Loop)
    /\ \A r \in Request : WF_vars(DeadlinePasses(r)) /\ WF_vars(Return(r))
    /\ \A w \in Worker :
         /\ WF_vars(SendTask(w)) /\ WF_vars(StartGathering(w))
         /\ WF_vars(GatherResult(w)) /\ WF_vars(GiveUp(w))
         /\ WF_vars(Start(w)) /\ WF_vars(Complete(w))

Spec == Init /\ [][Next]_vars /\ Fairness

---------------------------------------------------------------------------

Held(w) == {sending[w], sent[w], gather[w], running[w]} \ {None}
Carried(w) == ToSet(inbox[w]) \cup ToSet(outbox[w])

\* A worker is idle exactly when it has no task, and then nothing of an earlier
\* one is left with it: no message, no result that came too late, nobody waiting.
\* A task that was given up after 300 s keeps its worker busy for good.
WorkerStatusMatches ==
    \A w \in Worker :
        /\ status[w] = "idle" <=> task[w] = None
        /\ Held(w) \cup Carried(w) \subseteq {task[w]}
        /\ Len(inbox[w]) + Len(outbox[w]) + Cardinality({running[w]} \ {None}) <= 1

\* The result a gathering task takes is that of its own request: the response
\* alone says whose it is, and the sockets outlive the requests.
ResultsOfTheirTask ==
    \A w \in Worker :
        gather[w] # None => \A j \in 1..Len(outbox[w]) : outbox[w][j] = gather[w]

\* A request that waits is in the queue or with one worker, once; one that is
\* answered is nowhere, and nothing can answer it again.
EveryRequestInOnePlace ==
    \A r \in Request :
        LET queued == { j \in 1..Len(queue) : queue[j] = r }
            holders == { w \in Worker : task[w] = r }
        IN  Cardinality(queued) + Cardinality(holders)
                = IF phase[r] = "waiting" THEN 1 ELSE 0

\* Under Clockwork the pipelines on a GPU fit there after every offloading, and
\* under each baseline a request runs on a pipeline that is on the GPU.
PipelinesFit ==
    \A w \in Worker :
        /\ baseline = "clockwork" => Usage(onGpu[w]) <= Memory
        /\ running[w] # None => PipelineOf[running[w]] \in onGpu[w]

\* A worker that has a task of which the answer will never be gathered.
Lost(w) == status[w] = "busy" /\ fate[task[w]] # "fine"

\* A request is answered in the end if it has a deadline, or if some worker that
\* has its pipeline never gets lost; unless it is itself what a worker is lost to.
RequestsAnswered ==
    \A r \in Request :
        phase[r] = "waiting" ~>
            \/ phase[r] = "returned"
            \/ \E w \in Worker : task[w] = r /\ Lost(w)
            \/ /\ r \notin deadlines
               /\ \A w \in Worker : PipelineOf[r] \in ToSet(Placed[w]) => Lost(w)
=============================================================================
