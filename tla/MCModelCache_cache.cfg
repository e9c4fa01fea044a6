CONSTANTS
    flux = flux
    t5 = t5
    vae = vae
    lora = lora
    Model <- Models
    Patch <- Patches
    Base <- Bases
    PreloadPeak <- Peaks
    Task <- Tasks
    Prefetched <- Prefetch
    Preload <- PreloadTwo
    EarlyTasks = FALSE
    Capacity = 5
    TaskBound = 4
    CopyBound = 3
SPECIFICATION Spec
INVARIANTS LruOrder CacheConsistent RunsWithItsPatches LoadedModelFits
CHECK_DEADLOCK FALSE
