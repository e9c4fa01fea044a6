------------------------------ MODULE Workflow ------------------------------
(***************************************************************************)
(* The unrolled workflow graph of one request and what                     *)
(* Coordinator._build_dependency_graph computes from it: prerequisites     *)
(* (all, lazy, non-lazy), successors, depth, and the reference count of    *)
(* each tensor.                                                            *)
(*                                                                         *)
(* A node is one operator invocation of the unrolled workflow and a tensor *)
(* one of its outputs; workflow inputs (SourceType.INPUT) and outputs that *)
(* are not tensors do not travel between workers and are left out.         *)
(***************************************************************************)
EXTENDS Integers, FiniteSets

CONSTANTS
    Node,         \* nodes of the unrolled workflow
    Tensor,       \* tensor outputs (NodeIO names)
    Producer,     \* [Tensor -> Node]: the node with that output
    Inputs,       \* [Node -> SUBSET Tensor]: inputs with SourceType.NODE
    LazyInputs,   \* [Node -> SUBSET Tensor]: the inputs declared lazy=True
    Generator,    \* nodes whose execute is a generator (ControlNets)
    SchedulerOp,  \* nodes whose operator is a BaseScheduler (denoise step)
    IndexedOp,    \* nodes whose operator is IndexedTensor
    Slow,         \* nodes whose latency exceeds worker_latency_threshold
    Unprofiled,   \* those whose latency is infinite: no entry in model_configs
    OpId,         \* [Node -> operator id]
    Variant       \* [Node -> the mode and patches of the operator]

ASSUME WorkflowAssumption ==
    /\ IsFiniteSet(Node) /\ IsFiniteSet(Tensor)
    /\ Producer \in [Tensor -> Node]
    /\ Inputs \in [Node -> SUBSET Tensor]
    /\ LazyInputs \in [Node -> SUBSET Tensor]
    /\ \A n \in Node : LazyInputs[n] \subseteq Inputs[n]
    \* Else _schedule_task_group may look a request up that has no tensor yet.
    /\ \A n \in Node : LazyInputs[n] # {} => LazyInputs[n] # Inputs[n]
    /\ Generator \subseteq Node /\ SchedulerOp \subseteq Node
    /\ IndexedOp \subseteq Node /\ Slow \subseteq Node
    /\ Unprofiled \subseteq Slow
    /\ SchedulerOp \cap (IndexedOp \cup Slow \cup Generator) = {}
    \* These classes are classes of operators.
    /\ \A m, n \in Node : OpId[m] = OpId[n] =>
         \A C \in {Generator, SchedulerOp, IndexedOp} : m \in C <=> n \in C

Outputs(n) == { t \in Tensor : Producer[t] = n }

EagerInputs(n) == Inputs[n] \ LazyInputs[n]

\* _get_node_dependencies: the other nodes that produce an input of n.
Prerequisites(n) == { Producer[t] : t \in Inputs[n] } \ {n}

\* _get_lazy_input_dependencies: the same, for the lazy inputs only.
LazyPrerequisites(n) == { Producer[t] : t \in LazyInputs[n] } \ {n}

\* A node with one lazy and one eager input from the same producer counts it
\* as lazy: the code subtracts the sets of nodes.
NonLazyPrerequisites(n) == Prerequisites(n) \ LazyPrerequisites(n)

\* Then a node is scheduled with an eager input that is not there, so workflows
\* give the outputs of a node that another takes lazily to it as lazy inputs only.
ASSUME EagerInputsAwaited ==
    \A n \in Node : \A t \in EagerInputs(n) : Producer[t] \in NonLazyPrerequisites(n)

Successors(n) == { m \in Node : n \in Prerequisites(m) }

\* _topological_sort raises on a cycle: some order puts every prerequisite first.
Acyclic ==
    \A S \in SUBSET Node : S # {} => \E n \in S : Prerequisites(n) \cap S = {}

\* The breadth-first walk from the nodes without successors towards their
\* prerequisites: Layer[k] holds the nodes with a path of k nodes to a sink.
Layer ==
    LET L[k \in Nat \ {0}] ==
            IF k = 1 THEN { n \in Node : Successors(n) = {} }
                     ELSE UNION { Prerequisites(n) : n \in L[k - 1] }
    IN  L

\* Mutant: the tasks of a request are in no order.
Depth_Flat == [n \in Node |-> 1]

\* node_depth: the first time the walk meets n.
Depth ==
    [n \in Node |->
        CHOOSE k \in 1 .. Cardinality(Node) :
            /\ n \in Layer[k]
            /\ \A j \in 1 .. (k - 1) : n \notin Layer[j]]

\* Mutant: the lazy inputs are not counted.
Consumers_EagerOnly(t) == { n \in Node : t \in EagerInputs(n) }

\* tensor_reference_count: how many nodes take t as an input.
Consumers(t) == { n \in Node : t \in Inputs[n] }
=============================================================================
