SPECIFICATION Spec
\* An unrolled request stops once everything is computed.
CHECK_DEADLOCK FALSE
CONSTANT
    Requests <- GuidedXLRequests
INVARIANT
    StepTakesUnscaledLatents
