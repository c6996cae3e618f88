CONSTANTS
    MaxAttempts = 3
    RecursionLimit = 25
    MaxPolls = 3
SPECIFICATION Spec
INVARIANT
    RejectionStops
CHECK_DEADLOCK FALSE
