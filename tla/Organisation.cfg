SPECIFICATION Spec
CONSTANTS
    d1 = d1
    d2 = d2
    lead0 = lead0
    main0 = main0
    Lead = lead0
    Main = main0
    Tasks = {d1, d2}
    Order <- TwoTasks
    Costs = {1, 2}
    Budget = 4
    MaxCalls = 1
    MaxRuns = 2
    MaxFaults = 1
INVARIANTS
    TypeOK
    ChainBreaksOnlyByRace
    LedgerAgrees
    CommitIsOwn
CHECK_DEADLOCK FALSE
