CONSTANTS
    t1 = t1
    t2 = t2
    a = a
    b = b
    r = r
    Teams = {a, b}
    Tasks = {t1, t2}
    Reviewers = {r}
    TeamOf <- TwoTeams
    Steps = {"s0", "s1", "s2"}
    Lessons <- SomeLessons
    SeedSteps = {"s0"}
    MaxCheckpoints = 1
    MaxExperiences = 3
    MaxMemories = 2
    MaxDecisions = 1
SPECIFICATION Spec
INVARIANTS
    TeamsStayApart
CHECK_DEADLOCK FALSE
