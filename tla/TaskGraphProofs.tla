-------------------------- MODULE TaskGraphProofs --------------------------
(***************************************************************************)
(* Theorems about TaskGraph for every max_attempts, every recursion limit  *)
(* and every waiting time.                                                 *)
(***************************************************************************)
EXTENDS TaskGraph, TLAPS

\* Where the two routing functions lead.
LEMMA Routes ==
    /\ \A v : RouteAfterReviewer(v) \in {"fix", "qa"}
    /\ \A r : RouteAfterQa(r) \in {"git", "end", "fix"}
BY DEF RouteAfterReviewer, RouteAfterQa

\* A node that runs leaves node and steps in range.
LEMMA RunType ==
    ASSUME TypeOK, NEW n, NEW next \in Nodes \cup {"end"}, Run(n, next)
    PROVE  /\ node' \in Nodes \cup {"waiting", "end", "crashed"}
           /\ steps' \in Nat
BY DEF TypeOK, Run

LEMMA TypeStep == TypeOK /\ [Next]_vars => TypeOK'
<1> SUFFICES ASSUME TypeOK, [Next]_vars PROVE TypeOK'
    OBVIOUS
<1> USE DEF store, verdicts, ending, observers
<1>1. CASE PassCheckpoint
    BY <1>1, RunType DEF PassCheckpoint, TypeOK, Nodes
<1>2. CASE OpenCheckpoint
    BY <1>2 DEF OpenCheckpoint, TypeOK
<1>3. CASE Poll
    <2>1. /\ polls' \in Nat
          /\ UNCHANGED <<task, code, verdicts, attempts, feedback, checkpoint,
                         commit, ending, approved, passed, tests>>
        BY <1>3 DEF Poll, TypeOK
    <2>2. CASE Resume("approved", error)
        BY <2>1, <2>2 DEF Resume, TypeOK, Nodes
    <2>3. CASE Resume("rejected", "rejected")
        BY <2>1, <2>3 DEF Resume, TypeOK, Nodes
    <2>4. CASE Resume("timeout", "timeout")
        BY <2>1, <2>4 DEF Resume, TypeOK, Nodes
    <2>5. CASE UNCHANGED <<steps, node, decision, error, gated>>
        BY <2>1, <2>5 DEF TypeOK
    <2> QED  BY <1>3, <2>2, <2>3, <2>4, <2>5 DEF Poll
<1>4. CASE Dev
    BY <1>4, RunType DEF Dev, TypeOK, Nodes
<1>5. CASE Reviewer
    BY <1>5, Routes, RunType DEF Reviewer, TypeOK, Nodes
<1>6. CASE Qa
    BY <1>6, Routes, RunType DEF Qa, TypeOK, Nodes
<1>7. CASE Fix
    <2>1. node' \in Nodes /\ steps' \in Nat
        BY <1>7 DEF Fix, Run, TypeOK, Nodes
    <2>2. gated' \in BOOLEAN
        BY <1>7 DEF Fix
    <2> QED  BY <1>7, <2>1, <2>2 DEF Fix, TypeOK
<1>8. CASE Clarification
    BY <1>8, RunType DEF Clarification, TypeOK, Nodes
<1>9. CASE Git
    BY <1>9, RunType DEF Git, TypeOK, Nodes
<1>10. CASE OutOfSteps \/ NodeRaises
    BY <1>10 DEF OutOfSteps, NodeRaises, Crash, TypeOK
<1>11. CASE Finish
    BY <1>11 DEF Finish, TypeOK
<1>12. CASE FinishRaises
    BY <1>12 DEF FinishRaises, TypeOK
<1>13. CASE \E verdict \in {"approved", "rejected"} : HumanDecides(verdict)
    BY <1>13 DEF HumanDecides, TypeOK
<1>14. CASE StoreOverwritten
    BY <1>14 DEF StoreOverwritten, TypeOK
<1>15. CASE UNCHANGED vars
    BY <1>15 DEF vars, TypeOK
<1> QED
    BY <1>1, <1>2, <1>3, <1>4, <1>5, <1>6, <1>7, <1>8, <1>9, <1>10, <1>11,
       <1>12, <1>13, <1>14, <1>15
    DEF Next, Step

\* Type correctness.
THEOREM TypeCorrect == Spec => []TypeOK
<1>1. Init => TypeOK
    <2> SUFFICES ASSUME Init PROVE TypeOK
        OBVIOUS
    <2>1. experience \in BOOLEAN /\ gated \in BOOLEAN
        BY DEF Init
    <2> QED  BY <2>1 DEF Init, TypeOK, Nodes
<1> QED  BY <1>1, TypeStep, PTL DEF Spec

-----------------------------------------------------------------------------
(* What stands in the state of the graph at each node.  The verdicts were  *)
(* given to the code in the state; QA runs only after an approval, and a   *)
(* passing test leads to the git node and the end, so nothing replaces the *)
(* code between the verdicts and the commit.                               *)

EvidenceAtNode ==
    /\ VerdictsAreFresh
    /\ node = "qa" => review = "approved"
    /\ test = "pass" => Verified(code) /\ node \in {"git", "end", "crashed"}
    /\ node = "git" => test = "pass"
    /\ commit > 0 => commit = code /\ test = "pass" /\ node = "end"
    /\ outcome = "done" => test = "pass" /\ node = "end"
    /\ node = "end" /\ test = "pass" /\ task.git =>
          commit = code \/ error = "git"

\* Actions that touch neither code nor verdicts, and stay before the tests.
LEMMA EvidenceFrame ==
    ASSUME TypeOK, EvidenceAtNode,
           node \notin {"git", "end", "crashed"},
           node' \in Nodes \cup {"waiting"},
           node' \in {"reviewer", "qa", "git"} => node' = node,
           UNCHANGED <<code, review, test, approved, passed, commit, outcome>>
    PROVE  EvidenceAtNode'
BY DEF TypeOK, EvidenceAtNode, VerdictsAreFresh, Verified, Nodes

LEMMA EvidenceStep ==
    TypeOK /\ EvidenceAtNode /\ [Next]_vars => EvidenceAtNode'
<1> SUFFICES ASSUME TypeOK, EvidenceAtNode, [Next]_vars PROVE EvidenceAtNode'
    OBVIOUS
<1> USE DEF store, verdicts, ending, observers
<1>1. CASE PassCheckpoint
    BY <1>1, EvidenceFrame DEF PassCheckpoint, Run, Nodes
<1>2. CASE OpenCheckpoint
    BY <1>2, EvidenceFrame DEF OpenCheckpoint, Nodes
<1>3. CASE Poll
    <2>1. /\ node = "waiting" /\ node' \in {"waiting", "dev"}
          /\ UNCHANGED <<code, review, test, approved, passed, commit, outcome>>
        BY <1>3 DEF Poll, Resume
    <2> QED  BY <2>1, EvidenceFrame DEF Nodes
<1>4. CASE Dev
    BY <1>4 DEF Dev, Run, TypeOK, EvidenceAtNode, VerdictsAreFresh, Nodes
<1>5. CASE Reviewer
    BY <1>5
    DEF Reviewer, RouteAfterReviewer, Run, TypeOK, EvidenceAtNode,
        VerdictsAreFresh, Nodes
<1>6. CASE Qa
    <2> PICK result \in {"pass", "fail"} :
            /\ result = "pass" => code > 0
            /\ Run("qa", RouteAfterQa(result))
            /\ test' = result
            /\ passed' = IF result = "pass" THEN code ELSE passed
            /\ UNCHANGED <<code, review, approved, commit, outcome>>
        BY <1>6 DEF Qa
    <2>1. node = "qa" /\ review = "approved" /\ approved = code /\ commit = 0
          /\ outcome # "done"
        BY DEF Run, TypeOK, EvidenceAtNode, VerdictsAreFresh
    <2>2. CASE result = "pass"
        BY <2>1, <2>2
        DEF RouteAfterQa, Run, EvidenceAtNode, VerdictsAreFresh, Verified
    <2>3. CASE result = "fail"
        <3>1. node' \in {"end", "fix"}
            BY <2>3 DEF RouteAfterQa, Run
        <3> QED
            BY <2>1, <2>3, <3>1
            DEF EvidenceAtNode, VerdictsAreFresh, Verified
    <2> QED  BY <2>2, <2>3
<1>7. CASE Fix
    BY <1>7, EvidenceFrame DEF Fix, Run, Nodes
<1>8. CASE Clarification
    BY <1>8, EvidenceFrame DEF Clarification, Run, Nodes
<1>9. CASE Git
    <2>1. /\ node = "git" /\ node' = "end"
          /\ commit' \in {commit, code}
          /\ task.git => commit' = code \/ error' = "git"
          /\ UNCHANGED <<task, code, review, test, approved, passed, outcome>>
        BY <1>9 DEF Git, Run
    <2> QED  BY <2>1 DEF EvidenceAtNode, VerdictsAreFresh, Verified
<1>10. CASE OutOfSteps \/ NodeRaises
    <2>1. /\ node \notin {"end", "crashed"} /\ node' = "crashed"
          /\ outcome' = "failed"
          /\ UNCHANGED <<code, review, test, approved, passed, commit>>
        BY <1>10 DEF OutOfSteps, NodeRaises, Crash, Nodes
    <2> QED  BY <2>1 DEF EvidenceAtNode, VerdictsAreFresh, Verified
<1>11. CASE Finish \/ FinishRaises
    <2>1. /\ node = "end" /\ node' = "end"
          /\ outcome' = "done" => test = "pass"
          /\ UNCHANGED <<task, code, review, test, approved, passed, commit,
                         error>>
        BY <1>11 DEF Finish, FinishRaises
    <2> QED  BY <2>1 DEF EvidenceAtNode, VerdictsAreFresh, Verified
<1>12. CASE StoreOverwritten
            \/ \E verdict \in {"approved", "rejected"} : HumanDecides(verdict)
    BY <1>12
    DEF StoreOverwritten, HumanDecides, EvidenceAtNode, VerdictsAreFresh,
        Verified
<1>13. CASE UNCHANGED vars
    BY <1>13 DEF vars, EvidenceAtNode, VerdictsAreFresh, Verified
<1> QED
    BY <1>1, <1>2, <1>3, <1>4, <1>5, <1>6, <1>7, <1>8, <1>9, <1>10, <1>11,
       <1>12, <1>13
    DEF Next, Step

THEOREM EvidenceCorrect == Spec => []EvidenceAtNode
<1>1. Init => EvidenceAtNode
    BY DEF Init, EvidenceAtNode, VerdictsAreFresh
<1> QED  BY <1>1, TypeCorrect, EvidenceStep, PTL DEF Spec

\* A verdict never outlives the code it was given to.
THEOREM VerdictsCorrect == Spec => []VerdictsAreFresh
<1>1. EvidenceAtNode => VerdictsAreFresh
    BY DEF EvidenceAtNode
<1> QED  BY <1>1, EvidenceCorrect, PTL

\* Only reviewed and tested code is committed or reported as done, and a task
\* that is done without its commit says so.
THEOREM OnlyVerifiedLeaves == Spec => []OnlyVerifiedCodeLeaves
<1>1. EvidenceAtNode => OnlyVerifiedCodeLeaves
    BY DEF EvidenceAtNode, OnlyVerifiedCodeLeaves
<1> QED  BY <1>1, EvidenceCorrect, PTL

-----------------------------------------------------------------------------
(* What the two counters have left at each node.  A failed test is followed *)
(* by a fix only below max_attempts, so the test runs stay behind the       *)
(* fixes; a reviewer's rejection adds to the fixes alone, and only the      *)
(* supersteps bound those.                                                  *)

TestsBehindFixes ==
    /\ QaBudget
    /\ node \in {"checkpoint", "waiting", "dev", "reviewer", "qa",
                 "clarification"} => tests <= attempts /\ tests <= MaxAttempts
    /\ node = "fix" => tests <= attempts + 1 /\ tests <= MaxAttempts

FixesBehindSteps ==
    /\ steps <= RecursionLimit
    /\ node = "waiting" => steps < RecursionLimit
    /\ 5 * attempts <= steps + 1
    /\ node \in {"checkpoint", "waiting"} => 5 * attempts <= steps
    /\ node = "dev" => 5 * attempts + 1 <= steps
    /\ node = "reviewer" => 5 * attempts + 2 <= steps
    /\ node \in {"qa", "fix"} => 5 * attempts + 3 <= steps

Counters == TestsBehindFixes /\ FixesBehindSteps

\* One superstep that neither tests nor fixes and moves one place on.
LEMMA CountersRun ==
    ASSUME TypeOK, Counters, NEW n, NEW next,
           <<n, next>> \in {<<"checkpoint", "dev">>, <<"dev", "reviewer">>,
                            <<"reviewer", "qa">>, <<"reviewer", "fix">>,
                            <<"clarification", "checkpoint">>,
                            <<"git", "end">>},
           Run(n, next), UNCHANGED <<attempts, tests>>
    PROVE  Counters'
BY GraphAssumption
DEF TypeOK, Counters, TestsBehindFixes, FixesBehindSteps, QaBudget, Run

\* A step within a node, or one that ends the graph.
LEMMA CountersFrame ==
    ASSUME TypeOK, Counters, UNCHANGED <<steps, attempts, tests>>,
           \/ node' = node
           \/ node' = "waiting" /\ node = "checkpoint" /\ steps < RecursionLimit
           \/ node' = "crashed"
    PROVE  Counters'
BY DEF TypeOK, Counters, TestsBehindFixes, FixesBehindSteps, QaBudget

LEMMA CountersStep == TypeOK /\ Counters /\ [Next]_vars => Counters'
<1> SUFFICES ASSUME TypeOK, Counters, [Next]_vars PROVE Counters'
    OBVIOUS
<1> USE DEF store, verdicts, ending, observers
<1>1. CASE PassCheckpoint
    BY <1>1, CountersRun DEF PassCheckpoint
<1>2. CASE OpenCheckpoint
    BY <1>2, CountersFrame DEF OpenCheckpoint
<1>3. CASE Poll
    <2>1. node = "waiting" /\ UNCHANGED <<attempts, tests>>
        BY <1>3 DEF Poll
    <2>2. \/ node' = node /\ steps' = steps
          \/ node' = "dev" /\ steps' = steps + 1
        BY <1>3 DEF Poll, Resume
    <2>3. CASE node' = node /\ steps' = steps
        BY <2>1, <2>3, CountersFrame
    <2>4. CASE node' = "dev" /\ steps' = steps + 1
        BY <2>1, <2>4, GraphAssumption
        DEF TypeOK, Counters, TestsBehindFixes, FixesBehindSteps, QaBudget
    <2> QED  BY <2>2, <2>3, <2>4
<1>4. CASE Dev
    BY <1>4, CountersRun DEF Dev
<1>5. CASE Reviewer
    <2>1. /\ Run("reviewer", "fix") \/ Run("reviewer", "qa")
          /\ UNCHANGED <<attempts, tests>>
        BY <1>5 DEF Reviewer, RouteAfterReviewer
    <2> QED  BY <2>1, CountersRun
<1>6. CASE Qa
    <2>1. /\ node = "qa" /\ steps < RecursionLimit /\ steps' = steps + 1
          /\ tests' = tests + 1 /\ attempts' = attempts
          /\ \/ node' \in {"git", "end"}
             \/ node' = "fix" /\ ~(attempts >= MaxAttempts)
        BY <1>6 DEF Qa, Run, RouteAfterQa
    <2> QED
        BY <2>1, GraphAssumption
        DEF TypeOK, Counters, TestsBehindFixes, FixesBehindSteps, QaBudget
<1>7. CASE Fix
    <2>1. /\ node = "fix" /\ node' = "clarification"
          /\ steps < RecursionLimit /\ steps' = steps + 1
          /\ attempts' = attempts + 1 /\ tests' = tests
        BY <1>7 DEF Fix, Run
    <2> QED
        BY <2>1, GraphAssumption
        DEF TypeOK, Counters, TestsBehindFixes, FixesBehindSteps, QaBudget
<1>8. CASE Clarification
    BY <1>8, CountersRun DEF Clarification
<1>9. CASE Git
    BY <1>9, CountersRun DEF Git
<1>10. CASE OutOfSteps \/ NodeRaises
    BY <1>10, CountersFrame DEF OutOfSteps, NodeRaises, Crash
<1>11. CASE Finish \/ FinishRaises
    BY <1>11, CountersFrame DEF Finish, FinishRaises
<1>12. CASE StoreOverwritten
            \/ \E verdict \in {"approved", "rejected"} : HumanDecides(verdict)
    BY <1>12, CountersFrame DEF StoreOverwritten, HumanDecides
<1>13. CASE UNCHANGED vars
    BY <1>13, CountersFrame DEF vars
<1> QED
    BY <1>1, <1>2, <1>3, <1>4, <1>5, <1>6, <1>7, <1>8, <1>9, <1>10, <1>11,
       <1>12, <1>13
    DEF Next, Step

THEOREM CountersCorrect == Spec => []Counters
<1>1. Init => Counters
    BY GraphAssumption
    DEF Init, Counters, TestsBehindFixes, FixesBehindSteps, QaBudget
<1> QED  BY <1>1, TypeCorrect, CountersStep, PTL DEF Spec

\* QA runs at most max_attempts + 1 times, for any max_attempts.
THEOREM QaBudgetHolds == Spec => []QaBudget
<1>1. Counters => QaBudget
    BY DEF Counters, TestsBehindFixes
<1> QED  BY <1>1, CountersCorrect, PTL

\* The recursion limit bounds the fixes, whatever max_attempts is.
THEOREM RetryBoundHolds == Spec => []RetryBound
<1>1. TypeOK /\ Counters => RetryBound
    BY GraphAssumption DEF TypeOK, Counters, FixesBehindSteps, RetryBound
<1> QED  BY <1>1, TypeCorrect, CountersCorrect, PTL

-----------------------------------------------------------------------------

\* A risky round starts behind a checkpoint.  The invariant is inductive: dev
\* is entered by the two steps of the checkpoint node alone.
THEOREM RiskyRoundsGated == Spec => []RiskyRoundsAreGated
<1>1. Init => RiskyRoundsAreGated
    BY DEF Init, RiskyRoundsAreGated
<1>2. RiskyRoundsAreGated /\ [Next]_vars => RiskyRoundsAreGated'
    <2> SUFFICES ASSUME RiskyRoundsAreGated, [Next]_vars, node' = "dev",
                        (task.dangerous \/ attempts >= 2)'
                 PROVE  gated'
        BY DEF RiskyRoundsAreGated
    <2> USE DEF store, verdicts, ending, observers
    <2>1. CASE PassCheckpoint
        BY <2>1 DEF PassCheckpoint, NeedsHumanApproval
    <2>2. CASE Poll
        BY <2>2 DEF Poll, Resume
    <2>3. CASE \/ OpenCheckpoint \/ Dev \/ Fix \/ Clarification \/ Git
               \/ OutOfSteps \/ NodeRaises
        BY <2>3
        DEF OpenCheckpoint, Dev, Fix, Clarification, Git, Run, OutOfSteps,
            NodeRaises, Crash
    <2>4. CASE Reviewer \/ Qa
        BY <2>4, Routes DEF Reviewer, Qa, Run
    <2>5. CASE \/ Finish \/ FinishRaises \/ StoreOverwritten
               \/ \E v \in {"approved", "rejected"} : HumanDecides(v)
        BY <2>5
        DEF Finish, FinishRaises, StoreOverwritten, HumanDecides
    <2>6. CASE UNCHANGED vars
        BY <2>6 DEF vars, RiskyRoundsAreGated
    <2> QED  BY <2>1, <2>2, <2>3, <2>4, <2>5, <2>6 DEF Next, Step
<1> QED  BY <1>1, <1>2, PTL DEF Spec

\* The feedback dev works from is about the verdict that sent the task back.
\* The invariant is inductive: a fix leads to the clarification alone, and
\* only dev and reviewer replace the verdict.
THEOREM FeedbackCorrect == Spec => []FeedbackNamesTheCause
<1>1. Init => FeedbackNamesTheCause
    BY DEF Init, FeedbackNamesTheCause
<1>2. FeedbackNamesTheCause /\ [Next]_vars => FeedbackNamesTheCause'
    <2> SUFFICES ASSUME FeedbackNamesTheCause, [Next]_vars
                 PROVE  FeedbackNamesTheCause'
        OBVIOUS
    <2> USE DEF store, verdicts, ending, observers
    <2>1. CASE PassCheckpoint \/ OpenCheckpoint
        BY <2>1
        DEF PassCheckpoint, OpenCheckpoint, Run, FeedbackNamesTheCause
    <2>2. CASE Poll
        <3>1. /\ node = "waiting" /\ node' \in {"waiting", "dev"}
              /\ UNCHANGED <<attempts, feedback, review>>
            BY <2>2 DEF Poll, Resume
        <3> QED  BY <3>1 DEF FeedbackNamesTheCause
    <2>3. CASE Dev \/ Fix \/ Git \/ OutOfSteps \/ NodeRaises
        BY <2>3
        DEF Dev, Fix, Git, Run, OutOfSteps, NodeRaises, Crash,
            FeedbackNamesTheCause
    <2>4. CASE Reviewer \/ Qa
        BY <2>4, Routes DEF Reviewer, Qa, Run, FeedbackNamesTheCause
    <2>5. CASE Clarification
        BY <2>5 DEF Clarification, Run, FeedbackNamesTheCause
    <2>6. CASE \/ Finish \/ FinishRaises \/ StoreOverwritten
               \/ \E v \in {"approved", "rejected"} : HumanDecides(v)
        BY <2>6
        DEF Finish, FinishRaises, StoreOverwritten, HumanDecides,
            FeedbackNamesTheCause
    <2>7. CASE UNCHANGED vars
        BY <2>7 DEF vars, FeedbackNamesTheCause
    <2> QED
        BY <2>1, <2>2, <2>3, <2>4, <2>5, <2>6, <2>7 DEF Next, Step
<1> QED  BY <1>1, <1>2, PTL DEF Spec

-----------------------------------------------------------------------------
(* The store behind the checkpoint.  ReviewPromise, which HitlStore keeps,  *)
(* says how the entry of one wait may change; given holds the verdicts that *)
(* humans gave on it.                                                       *)

VARIABLE given

Store == INSTANCE ReviewPromise WITH
    Items <- {"cp"},
    shown <- [i \in {"cp"} |-> checkpoint],
    given <- given

\* The entry changes, and no variable of the task does, while it waits.
EntryChanges ==
    /\ node = "waiting"
    /\ UNCHANGED <<task, node, steps, code, verdicts, attempts, error,
                   feedback, decision, polls, commit, ending, observers>>

\* What TaskGraph lets happen to it.
StoreStep ==
    \/ \E verdict \in {"approved", "rejected"} : HumanDecides(verdict)
    \/ StoreOverwritten

GivenOK == given["cp"] \subseteq Store!Verdicts

LEMMA GivenStep == GivenOK /\ [Store!Next]_(Store!vars) => GivenOK'
<1> SUFFICES ASSUME GivenOK, [Store!Next]_(Store!vars) PROVE GivenOK'
    OBVIOUS
<1>1. CASE Store!Next
    <2>1. \/ Store!Opens("cp")
          \/ Store!IsAnswered("cp")
          \/ Store!IsOverwritten("cp")
        BY <1>1 DEF Store!Next
    <2> QED
        BY <2>1
        DEF Store!Opens, Store!IsAnswered, Store!IsOverwritten, GivenOK,
            Store!Verdicts
<1>2. CASE UNCHANGED Store!vars
    BY <1>2 DEF Store!vars, GivenOK, Store!Verdicts
<1> QED  BY <1>1, <1>2

LEMMA EntryStep ==
    GivenOK /\ Store!Next /\ EntryChanges => StoreStep \/ UNCHANGED vars
<1> SUFFICES ASSUME GivenOK, Store!Next, EntryChanges
             PROVE  StoreStep \/ UNCHANGED vars
    OBVIOUS
<1>1. Store!Opens("cp") \/ Store!IsAnswered("cp") \/ Store!IsOverwritten("cp")
    BY DEF Store!Next
<1>2. \/ checkpoint' = checkpoint
      \/ checkpoint' \in {"approved", "rejected"}
      \/ checkpoint' \in {"pending", "lost"} \ {checkpoint}
    BY <1>1
    DEF Store!Opens, Store!IsAnswered, Store!IsOverwritten, GivenOK,
        Store!Verdicts
<1>3. CASE checkpoint' = checkpoint
    BY <1>3
    DEF EntryChanges, vars, verdicts, ending, observers
<1>4. CASE checkpoint' \in {"approved", "rejected"}
    BY <1>4 DEF EntryChanges, StoreStep, HumanDecides
<1>5. CASE checkpoint' \in {"pending", "lost"} \ {checkpoint}
    BY <1>5 DEF EntryChanges, StoreStep, StoreOverwritten
<1> QED  BY <1>2, <1>3, <1>4, <1>5

\* Whatever the store may do to the entry of a waiting checkpoint, TaskGraph
\* lets happen to it, so its theorems hold of a task over that store: answers
\* that are undone, repeated, or given on an entry that is lost.
THEOREM StoreIsCovered ==
    Store!Spec =>
        [][EntryChanges => StoreStep \/ UNCHANGED vars]_(Store!vars)
<1>1. Store!Init => GivenOK
    BY DEF Store!Init, GivenOK
<1>2. GivenOK /\ [Store!Next]_(Store!vars) =>
          [EntryChanges => StoreStep \/ UNCHANGED vars]_(Store!vars)
    BY EntryStep
<1> QED  BY <1>1, <1>2, GivenStep, PTL DEF Store!Spec

=============================================================================
