SPECIFICATION Spec
CONSTANTS
    r1 = r1
    r2 = r2
    Runs = {r1, r2}
    Words <- MCWords
    Lower <- MCLower
    Payloads <- MCPayloads
    DefaultFeatures <- MCDefaultFeatures
    MaxFaults = 1
SYMMETRY AnyRun
CONSTRAINT OneWaits
INVARIANTS
    TypeOK
    ImportsResolve
    InputsAreOwn
    ArchiveIsComplete
    UnsupportedTouchesNothing
CHECK_DEADLOCK FALSE
