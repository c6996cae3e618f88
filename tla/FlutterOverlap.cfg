SPECIFICATION Spec
CONSTANTS
    r1 = r1
    r2 = r2
    None = None
    Runs = {r1, r2}
    MaxRepair = 0
    Design <- NoDesign
    Facts <- OneFact
    MaxFaults = 0
CONSTRAINT SideBySide
ACTION_CONSTRAINT Uninterrupted
INVARIANTS
    GateIsFresh
    AttemptNumbers
CHECK_DEADLOCK FALSE
