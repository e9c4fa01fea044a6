CONSTANTS
    flux = flux
    t5 = t5
    vae = vae
    lora = lora
    Model <- Models
    Patch <- Patches
    Base <- Bases
    PreloadPeak <- Peaks
    Task <- Tasks
    Prefetched <- Prefetch
    Preload <- PreloadTwo
    EarlyTasks = TRUE
    Capacity = 12
    TaskBound = 1
    CopyBound = 3
SPECIFICATION Spec
INVARIANT EnsureSucceeds
CHECK_DEADLOCK FALSE
