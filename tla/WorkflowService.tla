-------------------------- MODULE WorkflowService --------------------------
(***************************************************************************)
(* What Coordinator.execute_workflow promises its caller, without queues,  *)
(* policies or workers.  The nodes of an accepted request complete one by  *)
(* one, each once, after its non-lazy prerequisites and with every input   *)
(* known; the outputs of a generator may become known before it completes, *)
(* but not before it could run; and the request returns when, and only     *)
(* when, all its nodes have completed.                                     *)
(***************************************************************************)
EXTENDS Workflow

CONSTANT Request

VARIABLES
    status,   \* [Request -> "new", "starting", "live" or "done"]
    done,     \* [Request -> SUBSET Node] completed nodes
    known     \* [Request -> SUBSET Tensor] tensors some worker holds

serviceVars == <<status, done, known>>

ServiceInit ==
    /\ status = [r \in Request |-> "new"]
    /\ done = [r \in Request |-> {}]
    /\ known = [r \in Request |-> {}]

MayRun(r, n) ==
    status[r] = "live" /\ n \notin done[r] /\ NonLazyPrerequisites(n) \subseteq done[r]

Accept(requests) ==
    /\ requests # {} /\ \A r \in requests : status[r] = "new"
    /\ status' = [r \in Request |-> IF r \in requests THEN "starting" ELSE status[r]]
    /\ UNCHANGED <<done, known>>

Start(r) ==
    /\ status[r] = "starting"
    /\ status' = [status EXCEPT ![r] = "live"]
    /\ UNCHANGED <<done, known>>

\* One announcement may carry outputs for several requests (a batch).
Announce(early) ==
    /\ \A r \in Request : \A t \in early[r] :
         Producer[t] \in Generator /\ MayRun(r, Producer[t])
    /\ known' = [r \in Request |-> known[r] \cup early[r]]
    /\ UNCHANGED <<status, done>>

Complete(r, n) ==
    /\ MayRun(r, n)
    /\ Inputs[n] \subseteq known[r]
    /\ known' = [known EXCEPT ![r] = @ \cup Outputs(n)]
    /\ done' = [done EXCEPT ![r] = @ \cup {n}]
    /\ UNCHANGED status

Return(r) ==
    /\ status[r] = "live" /\ done[r] = Node
    /\ status' = [status EXCEPT ![r] = "done"]
    /\ done' = [done EXCEPT ![r] = {}]
    /\ known' = [known EXCEPT ![r] = {}]

ServiceNext ==
    \/ \E requests \in SUBSET Request : Accept(requests)
    \/ \E r \in Request : Start(r) \/ Return(r) \/ \E n \in Node : Complete(r, n)
    \/ \E early \in [Request -> SUBSET Tensor] : Announce(early)

ServiceSpec == ServiceInit /\ [][ServiceNext]_serviceVars
=============================================================================
