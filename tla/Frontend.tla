------------------------------ MODULE Frontend ------------------------------
(***************************************************************************)
(* The server in front of the coordinator: its endpoints, the admission of *)
(* requests, its startup and its shutdown.                                 *)
(*                                                                         *)
(* How the coordinator and the workers execute a request is in Serving;    *)
(* here its tasks go to any worker that has none, one after the other. The  *)
(* server does not notice when a client stops waiting.                     *)
(***************************************************************************)
EXTENDS Startup, FiniteSetsExt

CONSTANTS
    Request,
    Name,          \* service ids
    Body,          \* the workflows that clients register
    Tasks,         \* [Body -> Seq(operator)] the operators of the unrolled workflow
    Latency,       \* [profiled operators -> Nat], op_latencies
    EarlyAbort,    \* enable_early_abort
    Registrations, \* the <<name, body>> that clients register
    RequestOf      \* [Request -> [name, timed, slack, mayFail]]

ASSUME FrontendAssumption ==
    /\ Tasks \in [Body -> Seq(UNION { ToSet(Tasks[b]) : b \in Body })]
    /\ Latency \in [DOMAIN Latency -> Nat]
    /\ EarlyAbort \in BOOLEAN
    /\ Registrations \subseteq Name \X Body
    /\ RequestOf \in [Request -> [name : Name, timed : BOOLEAN, slack : Int, mayFail : BOOLEAN]]

VARIABLES
    workflows,  \* [a set of names -> Body], workflows
    phase,      \* [Request -> "new", "executing", "complete" or "answered"]
    answer,     \* [Request -> "none", "success", "rejected" or "error"]
    body,       \* [Request -> a sequence of at most one, the workflow it executes]
    arrivals,   \* request_arrival_times
    built,      \* request_tasks and completed_nodes: the requests with a task graph
    completed   \* [Request -> number of completed_nodes]

requestVars == <<workflows, phase, answer, body, arrivals, built, completed>>
vars == <<startupVars, requestVars>>

Init ==
    /\ StartupInit
    /\ workflows = << >>
    /\ phase = [r \in Request |-> "new"] /\ answer = [r \in Request |-> "none"]
    /\ body = [r \in Request |-> <<>>]
    /\ arrivals = {} /\ built = {}
    /\ completed = [r \in Request |-> 0]

-----------------------------------------------------------------------------
(* register_workflow. A name that is taken keeps its workflow, and the     *)
(* client is told that the registration was successful.                    *)
Register(name, b) ==
    /\ server = "serving"
    /\ <<name, b>> \in Registrations /\ name \notin DOMAIN workflows
    /\ workflows' = [n \in DOMAIN workflows \cup {name} |->
                       IF n = name THEN b ELSE workflows[n]]
    /\ UNCHANGED <<startupVars, phase, answer, body, arrivals, built, completed>>

-----------------------------------------------------------------------------
(* _is_system_overloaded.                                                  *)

TasksOf(r) == Tasks[body[r][1]]

InFlight == arrivals \cap built

Unfinished(r) == SubSeq(TasksOf(r), completed[r] + 1, Len(TasksOf(r)))

\* An operator without a latency raises KeyError, for the new request.
LatencyMissing ==
    \E r \in InFlight : ~(ToSet(Unfinished(r)) \subseteq DOMAIN Latency)

Work(r) == FoldSeq(LAMBDA op, sum : Latency[op] + sum, 0, Unfinished(r))

TotalWork == MapThenSumSet(Work, InFlight)

\* Mutant: a request that failed to unroll counts for ever.
AllBusy_Arrived == Cardinality(arrivals) >= Cardinality(Worker)

AllBusy == Cardinality(InFlight) >= Cardinality(Worker)

\* The estimate is the larger of total_work / num_executors and max_request_work.
Overloaded(slack) ==
    /\ AllBusy
    /\ \/ TotalWork > slack * Cardinality(Worker)
       \/ \E r \in InFlight : Work(r) > slack

-----------------------------------------------------------------------------
(* The endpoint run_inference, until execute_workflow waits. Nothing in it *)
(* suspends before that.                                                   *)

Answer(r, status) ==
    /\ phase' = [phase EXCEPT ![r] = "answered"]
    /\ answer' = [answer EXCEPT ![r] = status]

Received(r) == server = "serving" /\ phase[r] = "new"

\* early abort is on and both timeout and profiled_latency are given.
Estimates(r) == EarlyAbort /\ RequestOf[r].timed

Found(r) == RequestOf[r].name \in DOMAIN workflows

\* ValueError for an unknown name, or the KeyError: status 400.
Refuse(r) ==
    /\ Received(r)
    /\ ~Found(r) \/ (Estimates(r) /\ LatencyMissing)
    /\ Answer(r, "error")
    /\ UNCHANGED <<startupVars, workflows, body, arrivals, built, completed>>

Reject(r) ==
    /\ Received(r) /\ Found(r) /\ Estimates(r) /\ ~LatencyMissing
    /\ Overloaded(RequestOf[r].slack)
    /\ Answer(r, "rejected")
    /\ UNCHANGED <<startupVars, workflows, body, arrivals, built, completed>>

Admitted(r) ==
    /\ Found(r)
    /\ Estimates(r) => ~LatencyMissing /\ ~Overloaded(RequestOf[r].slack)

\* unroll_workflow may raise with the inputs of a request, after the arrival has
\* been registered.
FailToUnroll(r) ==
    /\ Received(r) /\ Admitted(r) /\ RequestOf[r].mayFail
    /\ arrivals' = arrivals \cup {r}
    /\ Answer(r, "error")
    /\ UNCHANGED <<startupVars, workflows, body, built, completed>>

Execute(r) ==
    /\ Received(r) /\ Admitted(r)
    /\ arrivals' = arrivals \cup {r} /\ built' = built \cup {r}
    /\ body' = [body EXCEPT ![r] = <<workflows[RequestOf[r].name]>>]
    /\ phase' = [phase EXCEPT ![r] = "executing"]
    /\ UNCHANGED <<startupVars, workflows, answer, completed>>

-----------------------------------------------------------------------------
(* Execution, and the end of execute_workflow.                             *)

TaskMessages(w) == SelectSeq(inbox[w] \o taskQueue[w] \o results[w],
                             LAMBDA message : message.type \in {"task", "task_complete"})

\* Mutant: a task whose inputs are there is not put in the queue.
Scheduled_Always(r) == TRUE

Scheduled(r) ==
    \E w \in Worker : \E j \in DOMAIN TaskMessages(w) : TaskMessages(w)[j].request = r

Dispatch(r, w) ==
    /\ server = "serving" /\ phase[r] = "executing" /\ ~Scheduled(r)
    /\ TaskMessages(w) = <<>>
    /\ inbox' = [inbox EXCEPT ![w] = Append(@, [type |-> "task", request |-> r])]
    /\ UNCHANGED <<coordinatorVars, results, mainVars, eventVars, cpu, gpu, taskQueue,
                   requestVars>>

ProcessTask(w) ==
    /\ process[w] = "loop" /\ taskQueue[w] # <<>>
    /\ results' = [results EXCEPT ![w] =
                     Append(@, [type |-> "task_complete", request |-> Head(taskQueue[w]).request])]
    /\ taskQueue' = [taskQueue EXCEPT ![w] = Tail(@)]
    /\ UNCHANGED <<coordinatorVars, inbox, mainVars, eventVars, cpu, gpu, requestVars>>

IsRequestComplete(r, n) == n = Len(TasksOf(r))

\* _gather_result_loop.
GatherResult(w) ==
    /\ server = "serving" /\ results[w] # <<>>
    /\ results' = [results EXCEPT ![w] = Tail(@)]
    /\ LET message == Head(results[w]) IN
       IF message.type = "task_complete"
       THEN LET r == message.request IN
            /\ completed' = [completed EXCEPT ![r] = @ + 1]
            /\ phase' = IF IsRequestComplete(r, completed'[r])
                        THEN [phase EXCEPT ![r] = "complete"] ELSE phase
       ELSE UNCHANGED <<completed, phase>>
    /\ UNCHANGED <<coordinatorVars, inbox, mainVars, eventVars, cpu, gpu, taskQueue, workflows,
                   answer, body, arrivals, built>>

Return(r) ==
    /\ server = "serving" /\ phase[r] = "complete"
    /\ arrivals' = arrivals \ {r} /\ built' = built \ {r}
    /\ Answer(r, "success")
    /\ UNCHANGED <<startupVars, workflows, body, completed>>

\* uvicorn ends the lifespan of the application when no request is open.
AllAnswered == \A r \in Request : phase[r] \in {"new", "answered"}

Shutdown == AllAnswered /\ StopWorkers /\ UNCHANGED requestVars

Endpoint(r) == Refuse(r) \/ Reject(r) \/ FailToUnroll(r) \/ Execute(r)

StartsWorker(w) == BringUp(w) /\ UNCHANGED requestVars

Starting ==
    /\ StartCoordinator \/ \E w \in Worker : MainThread(w) \/ ProcessThread(w)
    /\ UNCHANGED requestVars

Next ==
    \/ Starting \/ Shutdown
    \/ \E name \in Name, b \in Body : Register(name, b)
    \/ \E r \in Request : Endpoint(r) \/ Return(r)
    \/ \E w \in Worker :
         \/ StartsWorker(w) \/ ProcessTask(w) \/ GatherResult(w)
         \/ \E r \in Request : Dispatch(r, w)

\* The threads and the event loop run; that a worker is started, that clients
\* come and that the server is shut down is up to others.
Fairness ==
    /\ WF_vars(StartCoordinator /\ UNCHANGED requestVars)
    /\ \A w \in Worker :
         /\ WF_vars(MainThread(w) /\ UNCHANGED requestVars)
         /\ WF_vars(ProcessThread(w) /\ UNCHANGED requestVars)
         /\ WF_vars(ProcessTask(w)) /\ WF_vars(GatherResult(w))
    /\ \A r \in Request :
         WF_vars(Return(r)) /\ WF_vars(\E w \in Worker : Dispatch(r, w))

Spec == Init /\ [][Next]_vars /\ Fairness
-----------------------------------------------------------------------------

Types(messages) == { messages[j].type : j \in DOMAIN messages }

\* No request is served before every worker is up, and no answer to a ping is
\* left that the gather loop would have to take for a result.
ServesReadyWorkers ==
    server \in {"serving", "stopped"} =>
        \A w \in Worker :
            up[w] # "off" /\ "ping" \notin Types(inbox[w]) /\ "pong" \notin Types(results[w])

\* A worker is told of the models to preload before it gets its first task.
PreloadsComeFirst ==
    \A w \in Worker :
        \/ \A j \in DOMAIN toSend : toSend[j].to # w
              /\ "model_loading" \notin Types(inbox[w])
        \/ /\ taskQueue[w] = <<>> /\ \A j \in DOMAIN toSend : toSend[j].to # w
           /\ \A i, j \in DOMAIN inbox[w] :
                inbox[w][i].type = "task" /\ inbox[w][j].type = "model_loading" => i > j
        \/ "task" \notin Types(inbox[w]) \cup Types(taskQueue[w])

\* A preloaded model that is prefetched at all is on the GPU when the worker
\* reports it: its handler does not overtake the prefetching.
ReportedModelsMoved ==
    \A w \in Worker : \A j \in DOMAIN results[w] :
        (results[w][j].type = "model_loading_complete" /\ results[w][j].model \in ToSet(Prefetch))
            => results[w][j].model \in gpu[w]

\* A request is only rejected while as many others as there are workers are not
\* returned, and these have more work left than fits its slack; the requests
\* that failed or were answered, which leave traces, do not count.
RejectedOnlyWhenBusy ==
    [][ \A r \in Request :
          (answer[r] = "none" /\ answer'[r] = "rejected") =>
              LET open == { q \in Request : phase[q] \in {"executing", "complete"} }
                  Left(q) == MapThenSumSet(LAMBDA j : Latency[TasksOf(q)[j]],
                                           completed[q] + 1 .. Len(TasksOf(q)))
              IN  /\ Cardinality(open) >= Cardinality(Worker)
                  /\ \/ MapThenSumSet(Left, open) > RequestOf[r].slack * Cardinality(Worker)
                     \/ \E q \in open : Left(q) > RequestOf[r].slack ]_vars

\* A handler found the event unset and added its future when it was set, or the
\* thread that sets it has died.
Missed(w) ==
    \/ process[w] = "dead"
    \/ \E j \in DOMAIN waiters[w] : waiters[w][j].late /\ ~waiters[w][j].done

Pending(w, m) ==
    \/ ModelLoading(m) \in ToSet(inbox[w]) \/ m \in ToSet(handlers[w]) \cup ToSet(missed[w])
    \/ \E j \in DOMAIN waiters[w] : waiters[w][j].model = m

\* A model to preload is handled in the end, unless its handler missed the event
\* or the worker was stopped.
PreloadsHandled ==
    \A w \in Worker : \A m \in ToSet(Preload) :
        Pending(w, m) ~> (~Pending(w, m) \/ Missed(w) \/ up[w] = "stopping")

\* A request that was admitted is answered, if no process thread has died.
AlwaysAnswered ==
    \A r \in Request :
        phase[r] = "executing" ~>
            (phase[r] = "answered" \/ \E w \in Worker : process[w] = "dead")
=============================================================================
