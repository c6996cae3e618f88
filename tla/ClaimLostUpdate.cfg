CONSTANTS
    t1 = t1
    t2 = t2
    a = a
    b = b
    r = r
    Teams = {a, b}
    Tasks = {t1, t2}
    Reviewers = {r}
    TeamOf <- OneTeam
    Steps = {"s0", "s1", "s2"}
    Lessons <- SomeLessons
    SeedSteps = {"s0"}
    MaxCheckpoints = 4
    MaxExperiences = 4
    MaxMemories = 4
    MaxDecisions = 1
SPECIFICATION Spec
INVARIANT
    DecisionStands
CHECK_DEADLOCK FALSE
