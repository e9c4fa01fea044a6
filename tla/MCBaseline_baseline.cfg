SPECIFICATION Spec
\* All requests may be answered, or all workers lost.
CHECK_DEADLOCK FALSE
CONSTANTS
    r1 = r1
    r2 = r2
    r3 = r3
    None = None
    Request <- Requests
    Worker <- Ranks
    Pipeline <- Pipelines
    PipelineOf <- PipelineOfRequest
    Placed <- Placements
    Size <- Sizes
    Memory = 114
    Fates <- OneAtMost
    Deadlines <- SomeDeadlines
INVARIANTS
    WorkerStatusMatches
    ResultsOfTheirTask
    EveryRequestInOnePlace
    PipelinesFit
PROPERTIES
    RequestsAnswered
