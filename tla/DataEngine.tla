----------------------------- MODULE DataEngine -----------------------------
(***************************************************************************)
(* The data engine of one worker: a freeing and a fetching thread, each    *)
(* with a queue, the tensors that arrived, the events a getter waits on,   *)
(* and the arena behind the native backend.  All threads share the         *)
(* interpreter lock; a native allocation that waits for room keeps it      *)
(* (the binding of create_tensor and fetch_tensor does not release it), so *)
(* from then on no other thread of the worker moves.                       *)
(*                                                                         *)
(* A tensor is one unit of the arena; its contents and size are abstracted.*)
(***************************************************************************)
EXTENDS Naturals, Sequences, FiniteSets

CONSTANTS
    Key,    \* tensor ids
    Arena   \* how many tensors the arena holds

ASSUME DataEngineAssumption == IsFiniteSet(Key) /\ Arena \in Nat

VARIABLES
    engineRunning,  \* engine.running
    backendUp,      \* engine.backend is not None
    freeQueue,      \* number of tasks in freeing_task_queue
    fetchQueue,     \* fetching_task_queue: keys
    received,       \* keys of received_tensors
    event,          \* [Key -> "none", "clear" or "set"] tensor_arrival
    allocated,      \* tensors in the arena
    gil,            \* the thread that waits for room in the arena, or "none"
    freeing,        \* next step of SendingThread
    fetching,       \* next step of FetchingThread
    fetched         \* the key it is working on

engineVars == <<engineRunning, backendUp, freeQueue, fetchQueue, received,
                event, allocated, gil, freeing, fetching, fetched>>

EngineInit ==
    /\ engineRunning = TRUE /\ backendUp = TRUE
    /\ freeQueue = 0 /\ fetchQueue = <<>>
    /\ received = {} /\ event = [k \in Key |-> "none"]
    /\ allocated = 0 /\ gil = "none"
    /\ freeing = "check" /\ fetching = "check"
    /\ fetched = CHOOSE k \in Key : TRUE

\* A Python thread steps only while none waits inside a native call.
Interpreter == gil = "none"

AfterAllocation == allocated + 1

(***************************************************************************)
(* BuddyAllocator::allocate, called with the interpreter lock: it returns  *)
(* when there is room and otherwise waits, the lock still held.            *)
(***************************************************************************)
Allocate(t) ==
    /\ gil \in {"none", t}
    /\ allocated < Arena
    /\ allocated' = AfterAllocation /\ gil' = "none"

WaitForRoom(t) ==
    /\ gil = "none" /\ allocated >= Arena
    /\ gil' = t

-----------------------------------------------------------------------------
\* A queue.get with a timeout of 30 seconds comes back empty-handed.
\* Mutant: it has no timeout, like the one of ProcessTaskThread.
TimesOut_Never == FALSE

TimesOut == TRUE

\* SendingThread.run
FreeingCheck ==
    /\ Interpreter /\ freeing = "check"
    /\ freeing' = IF engineRunning \/ freeQueue > 0 THEN "get" ELSE "done"
    /\ UNCHANGED <<engineRunning, backendUp, freeQueue, fetchQueue, received,
                   event, allocated, gil, fetching, fetched>>

FreeingGet ==
    /\ Interpreter /\ freeing = "get"
    /\ \/ freeQueue > 0 /\ freeQueue' = freeQueue - 1 /\ freeing' = "free"
       \/ freeQueue = 0 /\ TimesOut /\ freeing' = "check" /\ UNCHANGED freeQueue
    /\ UNCHANGED <<engineRunning, backendUp, fetchQueue, received, event,
                   allocated, gil, fetching, fetched>>

FreeTensor ==
    /\ Interpreter /\ freeing = "free"
    /\ allocated' = allocated - 1
    /\ freeing' = "check"
    /\ UNCHANGED <<engineRunning, backendUp, freeQueue, fetchQueue, received,
                   event, gil, fetching, fetched>>

\* Mutant: the thread ends with its queue unread.
FetchingContinues_Running == engineRunning

FetchingContinues == engineRunning \/ fetchQueue # <<>>

\* FetchingThread.run
FetchingCheck ==
    /\ Interpreter /\ fetching = "check"
    /\ fetching' = IF FetchingContinues THEN "get" ELSE "done"
    /\ UNCHANGED <<engineRunning, backendUp, freeQueue, fetchQueue, received,
                   event, allocated, gil, freeing, fetched>>

FetchingGet ==
    /\ Interpreter /\ fetching = "get"
    /\ \/ /\ fetchQueue # <<>>
          /\ fetched' = Head(fetchQueue) /\ fetchQueue' = Tail(fetchQueue)
          /\ fetching' = "fetch"
       \/ /\ fetchQueue = <<>> /\ TimesOut
          /\ fetching' = "check" /\ UNCHANGED <<fetched, fetchQueue>>
    /\ UNCHANGED <<engineRunning, backendUp, freeQueue, received, event,
                   allocated, gil, freeing>>

\* backend.fetch_tensor
FetchTensor ==
    /\ fetching = "fetch"
    /\ \/ Allocate("fetching") /\ fetching' = "store"
       \/ WaitForRoom("fetching") /\ UNCHANGED <<fetching, allocated>>
    /\ UNCHANGED <<engineRunning, backendUp, freeQueue, fetchQueue, received,
                   event, freeing, fetched>>

StoreArrival(k) == received' = received \cup {k} /\ UNCHANGED event

\* Mutant: only a getter creates the event.
SignalArrival_IfWaited(k) ==
    /\ event' = [event EXCEPT ![k] = IF @ = "none" THEN @ ELSE "set"]
    /\ UNCHANGED received

\* arrive: setdefault of the event, then set.
SignalArrival(k) == event' = [event EXCEPT ![k] = "set"] /\ UNCHANGED received

ArriveStore ==
    /\ Interpreter /\ fetching = "store"
    /\ StoreArrival(fetched)
    /\ fetching' = "signal"
    /\ UNCHANGED <<engineRunning, backendUp, freeQueue, fetchQueue, allocated,
                   gil, freeing, fetched>>

ArriveSignal ==
    /\ Interpreter /\ fetching = "signal"
    /\ SignalArrival(fetched)
    /\ fetching' = "check"
    /\ UNCHANGED <<engineRunning, backendUp, freeQueue, fetchQueue, allocated,
                   gil, freeing, fetched>>

FreeingThread == FreeingCheck \/ FreeingGet \/ FreeTensor

FetchingThread ==
    \/ FetchingCheck \/ FetchingGet \/ FetchTensor \/ ArriveStore \/ ArriveSignal

=============================================================================
