\* Two overlapping POSTs, thread backend, every fault, cancels and deletes.
CONSTANTS
    s1 = s1
    s2 = s2
    Submissions <- TwoPosts
    Backend = "thread"
    Registered <- MCRegistered
    Unregistered <- MCUnregistered
    Brief <- MCBrief
    Plan <- FullPlan
SPECIFICATION Spec
SYMMETRY Symmetry
INVARIANTS
    TypeOK
    ProgressMatchesPhases
    RowCoherent
    CancelFlagCoherent
    CancelStopsRuns
    SuccessMeansPlanPassed
PROPERTIES
    VerdictIsFinal
CHECK_DEADLOCK FALSE
