SPECIFICATION FairSpec
CONSTANTS
    Node <- IndexNode
    Tensor <- IndexTensor
    Producer <- IndexProducer
    Inputs <- IndexInputs
    LazyInputs <- IndexLazy
    Generator = {}
    SchedulerOp = {"init", "step"}
    IndexedOp = {"i1", "i2"}
    Slow = {}
    Unprofiled = {}
    OpId <- IndexOpId
    Variant <- IndexVariant
    LatencyBatch <- IndexBatch
    ThroughputBatch <- IndexBatch
    Request = {r1, r2, r3}
    Worker = {w1}
    Policy = "EXCLUSIVE"
    None = None
INVARIANTS
    DedicatedWorkers
PROPERTIES
    ImplementsService
    RequestsComplete
