SPECIFICATION FairSpec
CONSTANTS
    r1 = r1
    r2 = r2
    None = None
    Runs = {r1}
    MaxRepair = 2
    Design <- OneDesign
    Facts <- MCFacts
    MaxFaults = 2
INVARIANTS
    TypeOK
    NoAttemptLeftOpen
    StopIsHeard
    RepairBudget
    AloneIsRefused
PROPERTIES
    Terminates
    KeepsPromise
CHECK_DEADLOCK FALSE
