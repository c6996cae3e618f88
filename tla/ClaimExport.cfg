SPECIFICATION Spec
CONSTANTS
    r1 = r1
    r2 = r2
    None = None
    Runs = {r1}
    MaxRepair = 1
    Design <- NoDesign
    Facts <- OneFact
    MaxFaults = 0
INVARIANTS
    CleanRunIsExported
CHECK_DEADLOCK FALSE
