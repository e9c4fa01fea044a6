SPECIFICATION Spec
CONSTANTS
    Node <- PipeNode
    Tensor <- PipeTensor
    Producer <- PipeProducer
    Inputs <- PipeInputs
    LazyInputs <- PipeLazy
    Generator = {}
    SchedulerOp = {"init", "step"}
    IndexedOp = {}
    Slow = {"dit", "vae"}
    Unprofiled = {}
    OpId <- PipeOp
    Variant <- PipeVariant
    LatencyBatch <- PipeLatency
    ThroughputBatch <- PipeThroughput
    Request = {r1, r2}
    Worker = {w1, w2}
    Policy = "DYNAMIC"
    None = None
INVARIANTS
    EveryTaskInOnePlace
    StatusMatchesWork
    ResultsOfLiveRequests
    SchedulerAffinity
    CopiesReleased
