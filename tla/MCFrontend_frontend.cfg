SPECIFICATION Spec
\* The server may be shut down.
CHECK_DEADLOCK FALSE
CONSTANTS
    r1 = r1
    r2 = r2
    r3 = r3
    Worker <- Ranks
    Prefetch <- Models
    Preload <- Models
    Quick = {1}
    Request <- Requests
    Name = {"A"}
    Body <- Bodies
    Tasks <- TasksOfBody
    Latency <- Latencies
    EarlyAbort = TRUE
    Registrations <- Registered
    RequestOf <- RequestKinds
INVARIANTS
    ServesReadyWorkers
    PreloadsComeFirst
    ReportedModelsMoved
PROPERTIES
    RejectedOnlyWhenBusy
    PreloadsHandled
    AlwaysAnswered
