SPECIFICATION Spec
\* An unrolled request stops once everything is computed.
CHECK_DEADLOCK FALSE
CONSTANT
    Requests <- AllRequests
INVARIANTS
    CallsGetTheirArguments
    SamplesMatchTheirCall
    GuidedStepCombinesItsBranches
    OnlyFirstIterationOvertakes
PROPERTIES
    CallsFindTheirStepIndex
    RequestComputes
