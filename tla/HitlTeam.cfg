CONSTANTS
    t1 = t1
    t2 = t2
    a = a
    b = b
    r = r
    Teams = {a, b}
    Tasks = {t1, t2}
    Reviewers = {r}
    TeamOf <- OneTeam
    Steps = {"s0", "s1", "s2"}
    Lessons <- SomeLessons
    SeedSteps = {"s0"}
    MaxCheckpoints = 1
    MaxExperiences = 3
    MaxMemories = 2
    MaxDecisions = 2
SPECIFICATION Spec
INVARIANTS
    TypeOK
    OnlyApprovedLessons
    VersionsGrow
PROPERTIES
    KeepsPromise
CHECK_DEADLOCK FALSE
