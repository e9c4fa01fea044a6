SPECIFICATION Spec
CONSTANTS
    Node <- CfgNode
    Tensor <- CfgTensor
    Producer <- CfgProducer
    Inputs <- CfgInputs
    LazyInputs <- CfgLazy
    Generator = {"cu", "ct"}
    SchedulerOp = {"step"}
    IndexedOp = {}
    Slow = {"txt", "img", "cu", "ct", "tu", "tt"}
    Unprofiled = {}
    OpId <- CfgOp
    Variant <- CfgVariant
    LatencyBatch <- CfgLatency
    ThroughputBatch <- CfgThroughput
    Request = {r1}
    Worker = {w1, w2}
    Policy = "DYNAMIC"
    None = None
INVARIANTS
    ScheduledNodesHaveInputs
    QueuedLocationsHeld
    ArrivingTensorsHeld
    RefCountsConsumers
    NoLostLazyArrival
    NoDanglingTensor
