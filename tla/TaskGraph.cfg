CONSTANTS
    MaxAttempts = 2
    RecursionLimit = 25
    MaxPolls = 3
SPECIFICATION FairSpec
INVARIANTS
    TypeOK
    VerdictsAreFresh
    OnlyVerifiedCodeLeaves
    QaBudget
    RetryBound
    RiskyRoundsAreGated
    FeedbackNamesTheCause
PROPERTIES
    Terminates
CHECK_DEADLOCK FALSE
