--------------------------- MODULE BaselineProofs ---------------------------
(***************************************************************************)
(* What the coordinator of the baselines keeps about its workers is true,  *)
(* for every placement of pipelines, every load, every fate of the         *)
(* requests and every moment at which deadlines pass.                      *)
(*                                                                         *)
(* The inductive invariant follows the one task of a worker through the    *)
(* places where it can be: the task that sends it, the socket, the worker, *)
(* the socket back, the task that gathers the result, or nowhere when the  *)
(* worker raised or the gathering was given up. What is on the GPU plays   *)
(* no part in it, and has an invariant of its own at the end.              *)
(***************************************************************************)
EXTENDS Baseline, SequenceTheorems, FiniteSums

\* The types of what the coordinator and the sockets hold.
Types ==
    /\ inbox \in [Worker -> Seq(Request)] /\ outbox \in [Worker -> Seq(Request)]
    /\ running \in [Worker -> Request \cup {None}]
    /\ phase \in [Request -> {"new", "waiting", "set", "returned"}]
    /\ outcome \in [Request -> {"none", "results", "failed"}]
    /\ queue \in Seq(Request)
    /\ status \in [Worker -> {"idle", "busy"}]
    /\ task \in [Worker -> Request \cup {None}]
    /\ gather \in [Worker -> Request \cup {None}]
    /\ sending \in [Worker -> Request \cup {None}]
    /\ sent \in [Worker -> Request \cup {None}]

\* Where the task of a worker is; nothing of another one is anywhere.
Carries(w) ==
    /\ status[w] = "idle" <=> task[w] = None
    /\ sending[w] \in {None, task[w]} /\ sent[w] \in {None, task[w]}
    /\ gather[w] \in {None, task[w]} /\ running[w] \in {None, task[w]}
    /\ inbox[w] \in {<<>>, <<task[w]>>} /\ outbox[w] \in {<<>>, <<task[w]>>}
    /\ task[w] = None => inbox[w] = <<>> /\ outbox[w] = <<>>
    /\ inbox[w] # <<>> => running[w] = None /\ outbox[w] = <<>>
    /\ running[w] # None => outbox[w] = <<>>
    /\ sent[w] # None => gather[w] = None
    /\ sending[w] # None => /\ sent[w] = None /\ gather[w] = None /\ running[w] = None
                            /\ inbox[w] = <<>> /\ outbox[w] = <<>>

WorkersCarry == \A w \in Worker : Carries(w)

Once(q) == \A i, j \in 1 .. Len(q) : q[i] = q[j] => i = j
Occurs(q, r) == \E j \in 1 .. Len(q) : q[j] = r
WithWorker(r) == \E w \in Worker : task[w] = r

\* Every request that waits is in the queue or with a worker, once.
OnePlace ==
    /\ Once(queue)
    /\ \A v, w \in Worker : task[v] = task[w] /\ task[v] # None => v = w
    /\ \A r \in Request : ~(Occurs(queue, r) /\ WithWorker(r))

WaitingIsPlaced ==
    \A r \in Request : phase[r] = "waiting" <=> Occurs(queue, r) \/ WithWorker(r)

IInv == Types /\ WorkersCarry /\ OnePlace /\ WaitingIsPlaced

-----------------------------------------------------------------------------
\* Nothing is anywhere in the beginning.
LEMMA InitIInv == Init => IInv
  BY BaselineWorkerAssumption
  DEF Init, WorkerInit, NoRequest, IInv, Types, WorkersCarry, Carries, OnePlace, WaitingIsPlaced,
      Once, Occurs, WithWorker

\* Every step keeps the types.
LEMMA TypesStep == Types /\ [Next]_vars => Types'
<1> SUFFICES ASSUME Types, [Next]_vars PROVE Types'
    OBVIOUS
<1> USE DEF Types, workerVars, coordinatorVars
<1>1. CASE UNCHANGED vars
  BY <1>1 DEF vars
<1>2. CASE FailLateTask
  BY <1>2 DEF FailLateTask
<1>3. CASE PutBack
  BY <1>3 DEF PutBack
<1>4. ASSUME NEW w \in Worker, Assign(w)
      PROVE  Types'
  BY <1>4 DEF Assign
<1>5. ASSUME NEW r \in Request, ExecuteWorkflow(r) \/ DeadlinePasses(r) \/ Return(r)
      PROVE  Types'
  <2>1. Append(queue, r) \in Seq(Request)
    BY AppendProperties
  <2> QED
    BY <1>5, <2>1 DEF ExecuteWorkflow, DeadlinePasses, Return
<1>6. ASSUME NEW w \in Worker, SendTask(w)
      PROVE  Types'
  <2>1. sending[w] \in Request
    BY <1>6 DEF SendTask
  <2>2. Append(inbox[w], sending[w]) \in Seq(Request)
    BY <2>1, AppendProperties
  <2> QED
    BY <1>6, <2>1, <2>2 DEF SendTask
<1>7. ASSUME NEW w \in Worker, StartGathering(w)
      PROVE  Types'
  BY <1>7 DEF StartGathering
<1>8. ASSUME NEW w \in Worker, GatherResult(w)
      PROVE  Types'
  BY <1>8 DEF GatherResult, OutcomeOf
<1>9. ASSUME NEW w \in Worker, GiveUp(w)
      PROVE  Types'
  BY <1>9 DEF GiveUp
<1>10. ASSUME NEW w \in Worker, Start(w)
       PROVE  Types'
  BY <1>10 DEF Start, StartTask
<1>11. ASSUME NEW w \in Worker, Complete(w)
       PROVE  Types'
  BY <1>11 DEF Complete, CompleteTask
<1> QED
  BY <1>1, <1>2, <1>3, <1>4, <1>5, <1>6, <1>7, <1>8, <1>9, <1>10, <1>11 DEF Next, Loop

\* A step that concerns one worker leaves what the others carry alone.
LEMMA OthersUntouched ==
    ASSUME WorkersCarry, NEW w \in Worker,
           \A v \in Worker \ {w} :
               /\ status'[v] = status[v] /\ task'[v] = task[v]
               /\ sending'[v] = sending[v] /\ sent'[v] = sent[v] /\ gather'[v] = gather[v]
               /\ running'[v] = running[v] /\ inbox'[v] = inbox[v] /\ outbox'[v] = outbox[v],
           Carries(w)'
    PROVE  WorkersCarry'
  BY DEF WorkersCarry, Carries

\* Every step leaves a worker with its one task, or with none.
LEMMA CarryStep == Types /\ WorkersCarry /\ [Next]_vars => WorkersCarry'
<1> SUFFICES ASSUME Types, WorkersCarry, [Next]_vars PROVE WorkersCarry'
    OBVIOUS
<1> USE DEF Types, workerVars, coordinatorVars
<1>1. CASE UNCHANGED vars
  BY <1>1 DEF vars, WorkersCarry, Carries
<1>2. CASE FailLateTask
  BY <1>2 DEF FailLateTask, WorkersCarry, Carries
<1>3. CASE PutBack
  BY <1>3 DEF PutBack, WorkersCarry, Carries
<1>4. ASSUME NEW w \in Worker, Assign(w)
      PROVE  WorkersCarry'
  <2>1. Carries(w) /\ status[w] = "idle"
    BY <1>4 DEF WorkersCarry, Assign, IsFirst, Candidates
  <2>2. Head(queue) \in Request
    BY <1>4 DEF Assign
  <2>3. Carries(w)'
    BY <1>4, <2>1, <2>2, BaselineWorkerAssumption DEF Assign, Carries
  <2> QED
    BY <1>4, <2>3, OthersUntouched DEF Assign
<1>5. ASSUME NEW r \in Request, ExecuteWorkflow(r) \/ DeadlinePasses(r) \/ Return(r)
      PROVE  WorkersCarry'
  BY <1>5 DEF ExecuteWorkflow, DeadlinePasses, Return, WorkersCarry, Carries
<1>6. ASSUME NEW w \in Worker, SendTask(w)
      PROVE  WorkersCarry'
  <2>1. Carries(w)
    BY DEF WorkersCarry
  <2>2. Carries(w)'
    BY <1>6, <2>1 DEF SendTask, Carries
  <2> QED
    BY <1>6, <2>2, OthersUntouched DEF SendTask
<1>7. ASSUME NEW w \in Worker, StartGathering(w)
      PROVE  WorkersCarry'
  <2>1. Carries(w)
    BY DEF WorkersCarry
  <2>2. Carries(w)'
    BY <1>7, <2>1 DEF StartGathering, Carries
  <2> QED
    BY <1>7, <2>2, OthersUntouched DEF StartGathering
<1>8. ASSUME NEW w \in Worker, GatherResult(w)
      PROVE  WorkersCarry'
  <2>1. Carries(w)
    BY DEF WorkersCarry
  <2>2. outbox[w] = <<task[w]>> /\ Tail(<<task[w]>>) = <<>>
    BY <1>8, <2>1 DEF GatherResult, Carries
  <2>3. inbox[w] = <<>> /\ running[w] = None /\ sending[w] = None
    BY <1>8, <2>1, <2>2 DEF GatherResult, Carries
  <2>4. Carries(w)'
    BY <1>8, <2>1, <2>2, <2>3 DEF GatherResult, Carries
  <2> QED
    BY <1>8, <2>4, OthersUntouched DEF GatherResult
<1>9. ASSUME NEW w \in Worker, GiveUp(w)
      PROVE  WorkersCarry'
  BY <1>9 DEF GiveUp, WorkersCarry, Carries
<1>10. ASSUME NEW w \in Worker, Start(w)
       PROVE  WorkersCarry'
  <2>1. Carries(w)
    BY DEF WorkersCarry
  <2>2. inbox[w] = <<task[w]>> /\ Head(inbox[w]) = task[w] /\ inbox'[w] = <<>>
    BY <1>10, <2>1 DEF Start, StartTask, Carries
  <2>3. running'[w] \in {None, task[w]}
    BY <1>10, <2>1, <2>2 DEF Start, StartTask
  <2>4. Carries(w)'
    BY <1>10, <2>1, <2>2, <2>3 DEF Start, StartTask, Carries
  <2> QED
    BY <1>10, <2>4, OthersUntouched DEF Start, StartTask
<1>11. ASSUME NEW w \in Worker, Complete(w)
       PROVE  WorkersCarry'
  <2>1. Carries(w)
    BY DEF WorkersCarry
  <2>2. Carries(w)'
    BY <1>11, <2>1 DEF Complete, CompleteTask, Carries
  <2> QED
    BY <1>11, <2>2, OthersUntouched DEF Complete, CompleteTask
<1> QED
  BY <1>1, <1>2, <1>3, <1>4, <1>5, <1>6, <1>7, <1>8, <1>9, <1>10, <1>11 DEF Next, Loop

-----------------------------------------------------------------------------
(* Where the requests are.                                                 *)

\* Taking the head of a queue, and putting an element behind it.
LEMMA TailOnce ==
    ASSUME NEW S, NEW q \in Seq(S), q # <<>>, Once(q)
    PROVE  /\ Tail(q) \in Seq(S) /\ Head(q) \in S /\ Once(Tail(q))
           /\ Occurs(q, Head(q))
           /\ \A r : Occurs(Tail(q), r) <=> Occurs(q, r) /\ r # Head(q)
<1>1. /\ Tail(q) \in Seq(S) /\ Len(Tail(q)) = Len(q) - 1 /\ Len(q) \in Nat \ {0}
      /\ Head(q) = q[1] /\ q[1] \in S
      /\ \A j \in 1 .. Len(q) - 1 : Tail(q)[j] = q[j + 1]
  OBVIOUS
<1>2. Once(Tail(q))
  <2> SUFFICES ASSUME NEW i \in 1 .. Len(q) - 1, NEW j \in 1 .. Len(q) - 1,
                      Tail(q)[i] = Tail(q)[j]
               PROVE  i = j
    BY <1>1 DEF Once
  <2>1. q[i + 1] = q[j + 1] /\ i + 1 \in 1 .. Len(q) /\ j + 1 \in 1 .. Len(q)
    BY <1>1
  <2> QED
    BY <2>1 DEF Once
<1>3. ASSUME NEW r, Occurs(Tail(q), r)
      PROVE  Occurs(q, r) /\ r # Head(q)
  <2>1. PICK j \in 1 .. Len(q) - 1 : q[j + 1] = r
    BY <1>1, <1>3 DEF Occurs
  <2>2. j + 1 \in 1 .. Len(q) /\ 1 \in 1 .. Len(q) /\ j + 1 # 1
    BY <1>1
  <2> QED
    BY <1>1, <2>1, <2>2 DEF Occurs, Once
<1>4. ASSUME NEW r, Occurs(q, r), r # Head(q)
      PROVE  Occurs(Tail(q), r)
  <2>1. PICK j \in 1 .. Len(q) : q[j] = r
    BY <1>4 DEF Occurs
  <2>2. j - 1 \in 1 .. Len(q) - 1 /\ (j - 1) + 1 = j
    BY <1>1, <1>4, <2>1
  <2>3. Tail(q)[j - 1] = r
    BY <1>1, <2>1, <2>2
  <2> QED
    BY <1>1, <2>2, <2>3 DEF Occurs
<1>5. Occurs(q, Head(q))
  BY <1>1 DEF Occurs
<1> QED
  BY <1>1, <1>2, <1>3, <1>4, <1>5

\* A request that is not in the queue is there once when it is put in it.
LEMMA AppendOnce ==
    ASSUME NEW S, NEW q \in Seq(S), NEW e \in S, Once(q), ~Occurs(q, e)
    PROVE  /\ Append(q, e) \in Seq(S) /\ Once(Append(q, e))
           /\ \A r : Occurs(Append(q, e), r) <=> Occurs(q, r) \/ r = e
<1>1. /\ Append(q, e) \in Seq(S) /\ Len(Append(q, e)) = Len(q) + 1 /\ Len(q) \in Nat
      /\ \A j \in 1 .. Len(q) : Append(q, e)[j] = q[j]
      /\ Append(q, e)[Len(q) + 1] = e
  BY AppendProperties
<1>2. \A j \in 1 .. Len(q) + 1 : j \in 1 .. Len(q) \/ j = Len(q) + 1
  BY <1>1
<1>3. Once(Append(q, e))
  BY <1>1, <1>2 DEF Once, Occurs
<1>4. ASSUME NEW r
      PROVE  Occurs(Append(q, e), r) <=> Occurs(q, r) \/ r = e
  <2>1. 1 .. Len(q) \subseteq 1 .. Len(q) + 1 /\ Len(q) + 1 \in 1 .. Len(q) + 1
    BY <1>1
  <2> QED
    BY <1>1, <1>2, <2>1 DEF Occurs
<1> QED
  BY <1>1, <1>3, <1>4

\* A step that changes neither the queue nor the tasks nor who waits.
LEMMA PlaceKept ==
    ASSUME OnePlace, WaitingIsPlaced, queue' = queue, task' = task,
           \A r \in Request : phase'[r] = "waiting" <=> phase[r] = "waiting"
    PROVE  OnePlace' /\ WaitingIsPlaced'
  BY DEF OnePlace, WaitingIsPlaced, WithWorker

\* Every step leaves a request that waits in exactly one place.
LEMMA PlaceStep ==
    Types /\ WorkersCarry /\ OnePlace /\ WaitingIsPlaced /\ [Next]_vars
        => OnePlace' /\ WaitingIsPlaced'
<1> SUFFICES ASSUME Types, WorkersCarry, OnePlace, WaitingIsPlaced, [Next]_vars
             PROVE  OnePlace' /\ WaitingIsPlaced'
    OBVIOUS
<1>0. Once(queue) /\ queue \in Seq(Request)
  BY DEF OnePlace, Types
<1>1. CASE UNCHANGED vars
  BY <1>1, PlaceKept DEF vars, coordinatorVars
<1>2. CASE FailLateTask
  <2>1. /\ queue' = Tail(queue) /\ task' = task /\ queue # <<>>
        /\ phase' = [phase EXCEPT ![Head(queue)] = "set"]
    BY <1>2 DEF FailLateTask
  <2>2. /\ Once(queue') /\ Head(queue) \in Request /\ Occurs(queue, Head(queue))
        /\ \A r : Occurs(queue', r) <=> Occurs(queue, r) /\ r # Head(queue)
    BY <1>0, <2>1, TailOnce
  <2>3. \A r : WithWorker(r)' <=> WithWorker(r)
    BY <2>1 DEF WithWorker
  <2>4. \A r \in Request : phase'[r] = "waiting" <=> phase[r] = "waiting" /\ r # Head(queue)
    BY <2>1, <2>2 DEF Types
  <2>5. OnePlace'
    BY <2>1, <2>2, <2>3 DEF OnePlace
  <2>6. WaitingIsPlaced'
    BY <2>2, <2>3, <2>4 DEF WaitingIsPlaced, OnePlace
  <2> QED
    BY <2>5, <2>6
<1>3. CASE PutBack
  <2>1. /\ queue' = Append(Tail(queue), Head(queue)) /\ task' = task /\ queue # <<>>
        /\ phase' = phase
    BY <1>3 DEF PutBack
  <2>2. /\ Tail(queue) \in Seq(Request) /\ Once(Tail(queue)) /\ Head(queue) \in Request
        /\ Occurs(queue, Head(queue))
        /\ \A r : Occurs(Tail(queue), r) <=> Occurs(queue, r) /\ r # Head(queue)
    BY <1>0, <2>1, TailOnce
  <2>3. /\ Once(queue')
        /\ \A r : Occurs(queue', r) <=> Occurs(Tail(queue), r) \/ r = Head(queue)
    BY <2>1, <2>2, AppendOnce
  <2>4. \A r : Occurs(queue', r) <=> Occurs(queue, r)
    BY <2>2, <2>3
  <2>5. \A r : WithWorker(r)' <=> WithWorker(r)
    BY <2>1 DEF WithWorker
  <2> QED
    BY <2>1, <2>3, <2>4, <2>5 DEF OnePlace, WaitingIsPlaced
<1>4. ASSUME NEW w \in Worker, Assign(w)
      PROVE  OnePlace' /\ WaitingIsPlaced'
  <2>1. /\ queue' = Tail(queue) /\ phase' = phase /\ queue # <<>>
        /\ task' = [task EXCEPT ![w] = Head(queue)] /\ status[w] = "idle"
    BY <1>4 DEF Assign, IsFirst, Candidates
  <2>2. task[w] = None
    BY <2>1 DEF WorkersCarry, Carries
  <2>3. /\ Once(queue') /\ Head(queue) \in Request /\ Occurs(queue, Head(queue))
        /\ \A r : Occurs(queue', r) <=> Occurs(queue, r) /\ r # Head(queue)
    BY <1>0, <2>1, TailOnce
  <2>4. \A r \in Request : WithWorker(r)' <=> WithWorker(r) \/ r = Head(queue)
    BY <2>1, <2>2, <2>3, BaselineWorkerAssumption DEF WithWorker, Types
  <2>5. ~WithWorker(Head(queue))
    BY <2>3 DEF OnePlace
  <2>6. \A u, v \in Worker : task'[u] = task'[v] /\ task'[u] # None => u = v
    BY <2>1, <2>5 DEF OnePlace, WithWorker, Types
  <2> QED
    BY <2>1, <2>3, <2>4, <2>6 DEF OnePlace, WaitingIsPlaced
<1>5. ASSUME NEW r \in Request, ExecuteWorkflow(r)
      PROVE  OnePlace' /\ WaitingIsPlaced'
  <2>1. /\ queue' = Append(queue, r) /\ phase' = [phase EXCEPT ![r] = "waiting"]
        /\ task' = task /\ phase[r] # "waiting"
    BY <1>5 DEF ExecuteWorkflow
  <2>2. ~Occurs(queue, r) /\ ~WithWorker(r)
    BY <2>1 DEF WaitingIsPlaced
  <2>3. /\ Once(queue')
        /\ \A q : Occurs(queue', q) <=> Occurs(queue, q) \/ q = r
    BY <1>0, <2>1, <2>2, AppendOnce
  <2>4. \A q : WithWorker(q)' <=> WithWorker(q)
    BY <2>1 DEF WithWorker
  <2>5. \A q \in Request : phase'[q] = "waiting" <=> phase[q] = "waiting" \/ q = r
    BY <2>1 DEF Types
  <2>6. OnePlace'
    BY <2>1, <2>2, <2>3, <2>4 DEF OnePlace
  <2>7. WaitingIsPlaced'
    BY <2>3, <2>4, <2>5 DEF WaitingIsPlaced
  <2> QED
    BY <2>6, <2>7
<1>6. ASSUME NEW r \in Request, DeadlinePasses(r) \/ Return(r)
      PROVE  OnePlace' /\ WaitingIsPlaced'
  <2>1. /\ queue' = queue /\ task' = task
        /\ \A q \in Request : phase'[q] = "waiting" <=> phase[q] = "waiting"
    BY <1>6 DEF DeadlinePasses, Return, Types
  <2> QED
    BY <2>1, PlaceKept
<1>7. ASSUME NEW w \in Worker, GatherResult(w)
      PROVE  OnePlace' /\ WaitingIsPlaced'
  <2>1. Carries(w) /\ gather[w] # None /\ outbox[w] # <<>>
    BY <1>7 DEF WorkersCarry, GatherResult
  <2>2. Head(outbox[w]) = task[w] /\ task[w] \in Request
    BY <2>1 DEF Carries, Types
  <2>3. /\ queue' = queue /\ phase' = [phase EXCEPT ![task[w]] = "set"]
        /\ task' = [task EXCEPT ![w] = None]
    BY <1>7, <2>2 DEF GatherResult
  <2>4. \A r \in Request : WithWorker(r)' <=> WithWorker(r) /\ r # task[w]
    BY <2>2, <2>3, BaselineWorkerAssumption DEF OnePlace, WithWorker, Types
  <2>5. \A u, v \in Worker : task'[u] = task'[v] /\ task'[u] # None => u = v
    BY <2>3 DEF OnePlace, Types
  <2>6. WithWorker(task[w]) /\ ~Occurs(queue, task[w])
    BY <2>2 DEF OnePlace, WithWorker
  <2>7. \A r \in Request : phase'[r] = "waiting" <=> phase[r] = "waiting" /\ r # task[w]
    BY <2>2, <2>3 DEF Types
  <2>8. OnePlace'
    BY <2>3, <2>4, <2>5 DEF OnePlace
  <2>9. WaitingIsPlaced'
    BY <2>3, <2>4, <2>6, <2>7 DEF WaitingIsPlaced
  <2> QED
    BY <2>8, <2>9
<1>8. ASSUME NEW w \in Worker,
             SendTask(w) \/ StartGathering(w) \/ GiveUp(w) \/ Start(w) \/ Complete(w)
      PROVE  OnePlace' /\ WaitingIsPlaced'
  <2>1. queue' = queue /\ task' = task /\ phase' = phase
    BY <1>8 DEF SendTask, StartGathering, GiveUp, Start, Complete, coordinatorVars
  <2> QED
    BY <2>1, PlaceKept
<1> QED
  BY <1>1, <1>2, <1>3, <1>4, <1>5, <1>6, <1>7, <1>8 DEF Next, Loop

\* The invariant of the coordinator and its workers.
THEOREM Invariant == Spec => []IInv
<1>1. IInv /\ [Next]_vars => IInv'
  BY TypesStep, CarryStep, PlaceStep DEF IInv
<1> QED
  BY InitIInv, <1>1, PTL DEF Spec

-----------------------------------------------------------------------------
(* The properties.                                                         *)

\* At most one element of a set makes its cardinality at most one.
LEMMA AtMostOne ==
    ASSUME NEW S, NEW x, S \subseteq {x}
    PROVE  Cardinality(S) = IF x \in S THEN 1 ELSE 0
<1>1. CASE x \in S
  <2>1. S = {x}
    BY <1>1
  <2> QED
    BY <1>1, <2>1, FS_Singleton
<1>2. CASE x \notin S
  <2>1. S = {}
    BY <1>2
  <2> QED
    BY <1>2, <2>1, FS_EmptySet
<1> QED
  BY <1>1, <1>2

\* Three counts of which at most one is 1.
LEMMA SumAtMostOne ==
    ASSUME NEW a \in {0, 1}, NEW b \in {0, 1}, NEW c \in {0, 1},
           a = 1 => b = 0, c = 1 => a = 0 /\ b = 0
    PROVE  a + b + c <= 1
  OBVIOUS

\* A worker is idle exactly when it has no task, and nothing of an earlier task
\* is left with it, though tasks are given up and results come late
\* (_process_task_queue_loop, _gather_result_for_task).
THEOREM StatusAlwaysMatches == Spec => []WorkerStatusMatches
<1>1. IInv => WorkerStatusMatches
  <2> SUFFICES ASSUME IInv, NEW w \in Worker
               PROVE  /\ status[w] = "idle" <=> task[w] = None
                      /\ Held(w) \cup Carried(w) \subseteq {task[w]}
                      /\ Len(inbox[w]) + Len(outbox[w])
                            + Cardinality({running[w]} \ {None}) <= 1
    BY DEF WorkerStatusMatches
  <2>1. Carries(w)
    BY DEF IInv, WorkersCarry
  <2>2. Held(w) \subseteq {task[w]}
    BY <2>1 DEF Carries, Held
  <2>3. ToSet(<<>>) = {} /\ ToSet(<<task[w]>>) = {task[w]}
    BY DEF ToSet
  <2>4. Carried(w) \subseteq {task[w]}
    BY <2>1, <2>3 DEF Carries, Carried
  <2>5. Len(<<>>) = 0 /\ Len(<<task[w]>>) = 1
    OBVIOUS
  <2>6. /\ Len(inbox[w]) \in {0, 1} /\ Len(outbox[w]) \in {0, 1}
        /\ Len(inbox[w]) = 1 => Len(outbox[w]) = 0 /\ running[w] = None
        /\ running[w] # None => Len(inbox[w]) = 0 /\ Len(outbox[w]) = 0
    BY <2>1, <2>5 DEF Carries
  <2>7. Cardinality({running[w]} \ {None}) = IF running[w] # None THEN 1 ELSE 0
    <3> DEFINE run == {running[w]} \ {None}
    <3>1. run \subseteq {running[w]} /\ (running[w] \in run <=> running[w] # None)
      OBVIOUS
    <3> HIDE DEF run
    <3>2. Cardinality(run) = IF running[w] # None THEN 1 ELSE 0
      BY <3>1, AtMostOne
    <3> QED
      BY <3>2 DEF run
  <2>8. Len(inbox[w]) + Len(outbox[w]) + Cardinality({running[w]} \ {None}) <= 1
    <3> DEFINE c == Cardinality({running[w]} \ {None})
    <3>1. c = IF running[w] # None THEN 1 ELSE 0
      BY <2>7
    <3> HIDE DEF c
    <3>2. c \in {0, 1} /\ (c = 1 => Len(inbox[w]) = 0 /\ Len(outbox[w]) = 0)
      BY <2>6, <3>1
    <3>3. Len(inbox[w]) + Len(outbox[w]) + c <= 1
      BY <2>6, <3>2, SumAtMostOne
    <3> QED
      BY <3>3 DEF c
  <2>9. status[w] = "idle" <=> task[w] = None
    BY <2>1 DEF Carries
  <2> QED
    BY <2>2, <2>4, <2>8, <2>9
<1> QED
  BY <1>1, Invariant, PTL

\* The result a gathering task takes is that of its own request
\* (_gather_result_for_task).
THEOREM ResultsAreTheirs == Spec => []ResultsOfTheirTask
<1>1. IInv => ResultsOfTheirTask
  <2> SUFFICES ASSUME IInv, NEW w \in Worker, gather[w] # None,
                      NEW j \in 1 .. Len(outbox[w])
               PROVE  outbox[w][j] = gather[w]
    BY DEF ResultsOfTheirTask
  <2>1. Carries(w)
    BY DEF IInv, WorkersCarry
  <2>2. outbox[w] = <<task[w]>> /\ gather[w] = task[w]
    BY <2>1 DEF Carries
  <2> QED
    BY <2>2
<1> QED
  BY <1>1, Invariant, PTL

\* A request that waits is in the queue or with one worker, once; nothing else
\* is anywhere (execute_workflow, _process_task_queue_loop).
THEOREM RequestsInOnePlace == Spec => []EveryRequestInOnePlace
<1>1. IInv => EveryRequestInOnePlace
  <2> SUFFICES ASSUME IInv, NEW r \in Request
               PROVE  LET queued == { j \in 1 .. Len(queue) : queue[j] = r }
                          holders == { w \in Worker : task[w] = r }
                      IN  Cardinality(queued) + Cardinality(holders)
                            = IF phase[r] = "waiting" THEN 1 ELSE 0
    BY DEF EveryRequestInOnePlace
  <2> DEFINE queued == { j \in 1 .. Len(queue) : queue[j] = r }
             holders == { w \in Worker : task[w] = r }
  <2>1. Cardinality(queued) = IF Occurs(queue, r) THEN 1 ELSE 0
    <3>1. CASE Occurs(queue, r)
      <4>1. PICK j \in 1 .. Len(queue) : queue[j] = r
        BY <3>1 DEF Occurs
      <4>2. queued = {j}
        BY <4>1 DEF IInv, OnePlace, Once
      <4> QED
        BY <3>1, <4>2, FS_Singleton
    <3>2. CASE ~Occurs(queue, r)
      <4>1. queued = {}
        BY <3>2 DEF Occurs
      <4> QED
        BY <3>2, <4>1, FS_EmptySet
    <3> QED
      BY <3>1, <3>2
  <2>2. Cardinality(holders) = IF WithWorker(r) THEN 1 ELSE 0
    <3>1. CASE WithWorker(r)
      <4>1. PICK w \in Worker : task[w] = r
        BY <3>1 DEF WithWorker
      <4>2. holders = {w}
        BY <4>1, BaselineWorkerAssumption DEF IInv, OnePlace
      <4> QED
        BY <3>1, <4>2, FS_Singleton
    <3>2. CASE ~WithWorker(r)
      <4>1. holders = {}
        BY <3>2 DEF WithWorker
      <4> QED
        BY <3>2, <4>1, FS_EmptySet
    <3> QED
      BY <3>1, <3>2
  <2>3. /\ ~(Occurs(queue, r) /\ WithWorker(r))
        /\ phase[r] = "waiting" <=> Occurs(queue, r) \/ WithWorker(r)
    BY DEF IInv, OnePlace, WaitingIsPlaced
  <2> HIDE DEF queued, holders
  <2>4. Cardinality(queued) + Cardinality(holders) = IF phase[r] = "waiting" THEN 1 ELSE 0
    BY <2>1, <2>2, <2>3
  <2> QED
    BY <2>4 DEF queued, holders
<1> QED
  BY <1>1, Invariant, PTL

-----------------------------------------------------------------------------
(* What is on the GPUs.                                                    *)

\* The memory that pipelines take is a sum over their set.
LEMMA UsageSum == ASSUME NEW S PROVE Usage(S) = SumFunctionOnSet(Size, S)
BY DEF Usage, MapThenSumSet, SumFunctionOnSet, FoldFunctionOnSet, MapThenFoldSet

\* The pipelines placed on a worker are cached one after the other, those that fit.
LEMMA CachedUnfolded ==
    ASSUME NEW w
    PROVE  Cached(w) =
             (CHOOSE g : g = [T \in SUBSET DOMAIN Placed[w] |->
                IF T = {} THEN {}
                ELSE IF Fits(g[T \ {Max(T)}], Placed[w][Max(T)])
                     THEN g[T \ {Max(T)}] \cup {Placed[w][Max(T)]}
                     ELSE g[T \ {Max(T)}]])[DOMAIN Placed[w]]
BY DEF Cached, FoldLeft, MapThenFoldSet

\* The greatest index of a set of them that is not empty is one of them.
LEMMA MaxInSet ==
    ASSUME NEW n \in Nat, NEW T \in SUBSET (1 .. n), T # {}
    PROVE  Max(T) \in T
<1> DEFINE Q == { m \in Nat : \E t \in T : m = n - t }
<1>1. \A t \in T : t \in Int /\ n - t \in Nat
  OBVIOUS
<1>2. Q # {} /\ Q \in SUBSET Nat
  BY <1>1
<1>3. PICK m \in Q : \A k \in Q : m <= k
  BY <1>2, LeastNatural
<1>4. PICK t \in T : m = n - t
  BY <1>3
<1>5. ASSUME NEW u \in T PROVE t >= u
  <2>1. n - t <= n - u
    BY <1>1, <1>3, <1>4, <1>5
  <2> QED
    BY <1>1, <2>1
<1> QED
  BY <1>4, <1>5 DEF Max

\* The sets of pipelines that a GPU has room for.
Fitting == { C \in SUBSET Pipeline : IsFiniteSet(C) /\ Usage(C) <= Memory }

\* Fewer pipelines do not take more memory.
LEMMA UsageType ==
    ASSUME NEW C \in SUBSET Pipeline, IsFiniteSet(C), NEW D \in SUBSET C
    PROVE  /\ IsFiniteSet(D) /\ Usage(C) \in Nat /\ Usage(D) \in Nat
           /\ Usage(D) <= Usage(C)
<1>1. \A p \in C : Size[p] \in Nat
  BY BaselineWorkerAssumption
<1>2. IsFiniteSet(D)
  BY FS_Subset
<1> QED
  BY <1>1, <1>2, SumMonotone, UsageSum

\* What is kept or offloaded fits where it was, and so does a pipeline that is
\* put in when it fits.
LEMMA FittingKept ==
    ASSUME NEW C \in Fitting
    PROVE  /\ SUBSET C \subseteq Fitting
           /\ \A p \in Pipeline : Fits(C, p) => C \cup {p} \in Fitting
<1>1. ASSUME NEW D \in SUBSET C PROVE D \in Fitting
  <2>1. IsFiniteSet(D) /\ Usage(C) \in Nat /\ Usage(D) \in Nat /\ Usage(D) <= Usage(C)
    BY UsageType DEF Fitting
  <2> QED
    BY <2>1, BaselineWorkerAssumption DEF Fitting
<1>2. ASSUME NEW p \in Pipeline, Fits(C, p) PROVE C \cup {p} \in Fitting
  <2>1. CASE p \in C
    <3>1. C \cup {p} = C
      BY <2>1
    <3> QED
      BY <3>1
  <2>2. CASE p \notin C
    <3>1. IsFiniteSet(C) /\ Size[p] \in Nat /\ \A q \in C : Size[q] \in Int
      BY BaselineWorkerAssumption DEF Fitting
    <3>2. SumFunctionOnSet(Size, C \cup {p}) = Size[p] + SumFunctionOnSet(Size, C)
      BY <2>2, <3>1, SumAdd
    <3>3. Usage(C) \in Nat
      BY UsageType DEF Fitting
    <3>4. \A a, b \in Nat : a + b = b + a
      OBVIOUS
    <3>5. Usage(C \cup {p}) = Usage(C) + Size[p]
      BY <3>1, <3>2, <3>3, <3>4, UsageSum
    <3>6. IsFiniteSet(C \cup {p})
      BY <3>1, FS_AddElement
    <3> QED
      BY <1>2, <3>5, <3>6 DEF Fits, Fitting
  <2> QED
    BY <2>1, <2>2
<1> QED
  BY <1>1, <1>2

\* One pipeline after the other is taken while there is room.
LEMMA CachedFits == ASSUME NEW w \in Worker PROVE Cached(w) \in Fitting
<1> DEFINE q == Placed[w]
           S == DOMAIN q
           Add(C, p) == IF Fits(C, p) THEN C \cup {p} ELSE C
           pick == [T \in SUBSET S |-> Max(T)]
           h == [x \in S \X Fitting |-> Add(x[2], q[x[1]])]
           Body(g) == [T \in SUBSET S |->
                IF T = {} THEN {} ELSE Add(g[T \ {Max(T)}], q[Max(T)])]
<1>1. q \in Seq(Pipeline) /\ S = 1 .. Len(q) /\ Len(q) \in Nat
  BY BaselineWorkerAssumption
<1>2. IsFiniteSet(S) /\ \A i \in S : q[i] \in Pipeline
  <2> HIDE DEF q, S
  <2>1. IsFiniteSet(1 .. Len(q))
    BY <1>1, FS_Interval
  <2> QED
    BY <1>1, <2>1 DEF S
<1>3. \A T \in SUBSET S : T # {} => Max(T) \in T
  BY <1>1, MaxInSet
<1>4. {} \in Fitting
  BY UsageSum, SumEmpty, FS_EmptySet, BaselineWorkerAssumption DEF Fitting
<1>5. \A C \in Fitting, p \in Pipeline : Add(C, p) \in Fitting
  BY FittingKept
<1> HIDE DEF q, S, Add
<1>6. h \in [S \X Fitting -> Fitting]
  BY <1>2, <1>5
<1>7. PICK g : IsFold(g, S, Fitting, {}, h, pick)
  <2>1. \A T \in SUBSET S : T # {} => pick[T] \in T
    BY <1>3
  <2> HIDE DEF h, pick
  <2> QED
    BY <1>2, <1>4, <1>6, <2>1, FoldExists
<1>8. g = Body(g)
  <2>1. g \in [SUBSET S -> Fitting]
    BY <1>7 DEF IsFold
  <2>2. ASSUME NEW T \in SUBSET S PROVE g[T] = Body(g)[T]
    <3>1. CASE T = {}
      BY <1>7, <3>1 DEF IsFold
    <3>2. CASE T # {}
      <4>1. pick[T] = Max(T) /\ Max(T) \in S /\ T \ {Max(T)} \in SUBSET S
        BY <1>3, <3>2
      <4>2. g[T] = h[<<Max(T), g[T \ {Max(T)}]>>] /\ g[T \ {Max(T)}] \in Fitting
        BY <1>7, <3>2, <4>1 DEF IsFold
      <4>3. \A i \in S, C \in Fitting : h[<<i, C>>] = Add(C, q[i])
        OBVIOUS
      <4> HIDE DEF h
      <4>4. g[T] = Add(g[T \ {Max(T)}], q[Max(T)])
        BY <4>1, <4>2, <4>3
      <4> QED
        BY <3>2, <4>4
    <3> QED
      BY <3>1, <3>2
  <2> QED
    BY <2>1, <2>2
<1> DEFINE s == CHOOSE k : k = Body(k)
<1>9. s = Body(s)
  BY <1>8
<1>10. Cached(w) = s[S]
  BY CachedUnfolded DEF q, S, Add
<1> HIDE DEF s
<1>11. \A T \in SUBSET S : s[T] = IF T = {} THEN {} ELSE Add(s[T \ {Max(T)}], q[Max(T)])
  BY <1>9
<1> DEFINE P == { T \in SUBSET S : s[T] \in Fitting }
<1>12. ASSUME NEW T \in SUBSET S, \A U \in SUBSET T : U # T => U \in P
       PROVE  T \in P
  <2>1. CASE T = {}
    BY <1>4, <1>11, <2>1
  <2>2. CASE T # {}
    <3>1. Max(T) \in T /\ T \ {Max(T)} \in P /\ q[Max(T)] \in Pipeline
      BY <1>2, <1>3, <1>12, <2>2
    <3>2. s[T] = Add(s[T \ {Max(T)}], q[Max(T)])
      BY <1>11, <2>2
    <3> QED
      BY <1>5, <3>1, <3>2
  <2> QED
    BY <2>1, <2>2
<1>13. SUBSET S \subseteq P
  <2> HIDE DEF P
  <2> QED
    BY <1>2, <1>12, SubsetInduction
<1> QED
  BY <1>10, <1>13

\* What is on a GPU fits there under Clockwork, and what runs is on it.
OnGpuInv ==
    /\ onGpu \in [Worker -> SUBSET Pipeline]
    /\ baseline = "clockwork" => \A w \in Worker : onGpu[w] \in Fitting
    /\ \A w \in Worker : running[w] # None => PipelineOf[running[w]] \in onGpu[w]

\* A task runs only when its pipeline could be put on the GPU, and while it
\* runs nothing else is put there or offloaded.
LEMMA OnGpuStep == Types /\ OnGpuInv /\ [Next]_vars => OnGpuInv'
<1> SUFFICES ASSUME Types, OnGpuInv, [Next]_vars PROVE OnGpuInv'
    OBVIOUS
<1>1. ASSUME UNCHANGED <<baseline, onGpu, running>> PROVE OnGpuInv'
  BY <1>1 DEF OnGpuInv
<1>2. ASSUME NEW w \in Worker, Start(w) PROVE OnGpuInv'
  <2> DEFINE r == Head(inbox[w])
             p == PipelineOf[r]
             new == OnGpuFor(w, p)
  <2>1. r \in Request /\ p \in Pipeline
    BY <1>2, BaselineWorkerAssumption DEF Start, StartTask, Types
  <2>2. /\ baseline' = baseline /\ running[w] = None
        /\ onGpu' = [onGpu EXCEPT ![w] = new]
        /\ running' = IF p \in new /\ fate[r] # "raises"
                      THEN [running EXCEPT ![w] = r] ELSE running
    BY <1>2 DEF Start, StartTask
  <2>3. new \in SUBSET Pipeline
    BY <2>1 DEF OnGpuFor, OnGpuInv
  <2>4. ASSUME baseline = "clockwork" PROVE new \in Fitting
    <3>1. onGpu[w] \in Fitting
      BY <2>4 DEF OnGpuInv
    <3>2. onGpu[w] \ Offloaded(w, p) \in Fitting
      BY <3>1, FittingKept
    <3> QED
      BY <2>1, <3>1, <3>2, FittingKept DEF OnGpuFor
  <2> HIDE DEF r, p, new
  <2>5. onGpu' \in [Worker -> SUBSET Pipeline]
    BY <2>2, <2>3 DEF OnGpuInv
  <2>6. baseline' = "clockwork" => \A v \in Worker : onGpu'[v] \in Fitting
    BY <2>2, <2>4 DEF OnGpuInv
  <2>7. ASSUME NEW v \in Worker, running'[v] # None
        PROVE  PipelineOf[running'[v]] \in onGpu'[v]
    <3>1. CASE v = w
      <4>1. p \in new /\ running'[v] = r /\ onGpu'[v] = new
        BY <2>2, <2>7, <3>1 DEF Types, OnGpuInv
      <4> QED
        BY <4>1 DEF p
    <3>2. CASE v # w
      <4>1. running'[v] = running[v] /\ onGpu'[v] = onGpu[v]
        BY <2>2, <3>2 DEF Types, OnGpuInv
      <4> QED
        BY <2>7, <4>1 DEF OnGpuInv
    <3> QED
      BY <3>1, <3>2
  <2> QED
    BY <2>5, <2>6, <2>7 DEF OnGpuInv, Fitting
<1>3. ASSUME NEW w \in Worker, Complete(w) PROVE OnGpuInv'
  <2>1. /\ UNCHANGED <<baseline, onGpu>>
        /\ running' = [running EXCEPT ![w] = None]
    BY <1>3 DEF Complete, CompleteTask
  <2>2. \A v \in Worker : running'[v] # None => running'[v] = running[v]
    BY <2>1 DEF Types
  <2> QED
    BY <2>1, <2>2 DEF OnGpuInv
<1>4. CASE UNCHANGED vars \/ FailLateTask \/ PutBack
  <2>1. UNCHANGED <<baseline, onGpu, running>>
    BY <1>4 DEF vars, workerVars, FailLateTask, PutBack
  <2> QED
    BY <2>1, <1>1
<1>5. ASSUME NEW w \in Worker,
             Assign(w) \/ SendTask(w) \/ StartGathering(w) \/ GatherResult(w) \/ GiveUp(w)
      PROVE  OnGpuInv'
  <2>1. UNCHANGED <<baseline, onGpu, running>>
    BY <1>5 DEF workerVars, Assign, SendTask, StartGathering, GatherResult, GiveUp
  <2> QED
    BY <2>1, <1>1
<1>6. ASSUME NEW r \in Request, ExecuteWorkflow(r) \/ DeadlinePasses(r) \/ Return(r)
      PROVE  OnGpuInv'
  <2>1. UNCHANGED <<baseline, onGpu, running>>
    BY <1>6 DEF workerVars, ExecuteWorkflow, DeadlinePasses, Return
  <2> QED
    BY <2>1, <1>1
<1> QED
  BY <1>2, <1>3, <1>4, <1>5, <1>6 DEF Next, Loop

\* The pipelines that are on the GPUs at first fit there.
LEMMA InitOnGpu == Init => OnGpuInv
<1> SUFFICES ASSUME Init PROVE OnGpuInv
    OBVIOUS
<1>1. \A w \in Worker : ToSet(Placed[w]) \in SUBSET Pipeline
  BY BaselineWorkerAssumption DEF ToSet
<1>2. \A w \in Worker : Cached(w) \in Fitting
  BY CachedFits
<1>3. \A w \in Worker : running[w] = None
  BY DEF Init, WorkerInit
<1>4. onGpu = [w \in Worker |-> IF baseline = "clockwork" THEN Cached(w) ELSE ToSet(Placed[w])]
  BY DEF Init, WorkerInit
<1>5. Fitting \subseteq SUBSET Pipeline
  BY DEF Fitting
<1>6. \A w \in Worker : onGpu[w] \in SUBSET Pipeline
  BY <1>1, <1>2, <1>4, <1>5
<1>7. onGpu \in [Worker -> SUBSET Pipeline]
  BY <1>4, <1>6
<1> QED
  BY <1>2, <1>3, <1>4, <1>7 DEF OnGpuInv

\* The pipelines on a GPU fit there under Clockwork, after __init__ and after
\* every offloading, and a request runs on a pipeline that is on the GPU
\* (__init__, _process_task of src/baselines/worker.py).
THEOREM PipelinesAlwaysFit == Spec => []PipelinesFit
<1>1. IInv /\ OnGpuInv /\ [Next]_vars => OnGpuInv'
  BY OnGpuStep DEF IInv
<1>2. OnGpuInv => PipelinesFit
  BY DEF OnGpuInv, PipelinesFit, Fitting
<1> QED
  BY InitOnGpu, <1>1, <1>2, Invariant, PTL DEF Spec

=============================================================================
