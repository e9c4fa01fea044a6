CONSTANTS
    latents = latents
    residuals = residuals
    Key <- Keys
    Arena = 1
    Inboxes <- Full
SPECIFICATION Spec
PROPERTY WaitEnds
CHECK_DEADLOCK FALSE
