CONSTANTS
    latents = latents
    residuals = residuals
    Key <- Keys
    Arena = 5
    Inboxes <- Engine
SPECIFICATION Spec
INVARIANTS ArrivalSeen DrainedAtRelease
PROPERTIES TasksFinish EngineStops
CHECK_DEADLOCK FALSE
