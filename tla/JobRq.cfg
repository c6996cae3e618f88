\* Two overlapping POSTs, rq backend, every fault: the service keeps its
\* promise to the reader of the row, and every job gets its verdict.
CONSTANTS
    s1 = s1
    s2 = s2
    Submissions <- TwoPosts
    Backend = "rq"
    Registered <- MCRegistered
    Unregistered <- MCUnregistered
    Brief <- MCBrief
    Plan <- OneStep
SPECIFICATION FairSpec
PROPERTIES
    KeepsPromise
    KeepsPromiseLive
CHECK_DEADLOCK FALSE
