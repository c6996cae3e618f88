----------------------------- MODULE TaskGraph -----------------------------
(***************************************************************************)
(* One task of the software organisation: workflows/dev_pipeline.run_task  *)
(* and the LangGraph workflow of core/graph/engine.py,                     *)
(*                                                                         *)
(*   checkpoint -> dev -> reviewer -> qa -> git -> end                     *)
(*                           |        |                                    *)
(*                           +------ fix -> clarification -> checkpoint    *)
(*                                                                         *)
(* Each action is one node, which LangGraph counts as one superstep, or    *)
(* one poll of the checkpoint store while the checkpoint node waits for a  *)
(* human.  What the language models answer is arbitrary.  The status field *)
(* is left out: every node writes it, none reads it, and run_task computes *)
(* its final value anew.                                                   *)
(***************************************************************************)
EXTENDS Naturals

CONSTANTS
    MaxAttempts,      \* max_attempts of run_task
    RecursionLimit,   \* supersteps LangGraph allows one ainvoke
    MaxPolls          \* polls that fit into the checkpoint's waiting time

ASSUME GraphAssumption ==
    /\ MaxAttempts \in Nat
    /\ RecursionLimit \in Nat
    /\ MaxPolls \in Nat \ {0}

VARIABLES
    task,             \* what the caller asked for: [dangerous, git]
    node,             \* the node to run next, or how the graph ended
    steps,            \* supersteps taken
    code,             \* number of the version in current_code, 0 for none
    review,           \* review_result
    test,             \* test_result
    attempts,         \* fix_attempts
    error,            \* error
    feedback,         \* what reviewer_feedback is about
    decision,         \* human_decision
    checkpoint,       \* status the store shows for cp_id, "lost" if none
    polls,            \* polls of the current wait
    commit,           \* version git_commit refers to, 0 for none
    outcome,          \* what run_task returned
    experience,       \* an experience waits in the approval queue
    approved,         \* observer: the version approved last
    passed,           \* observer: the version whose tests passed last
    tests,            \* observer: runs of the QA node
    gated             \* observer: a checkpoint was decided since the last fix

store == <<checkpoint, polls>>
verdicts == <<review, test>>
observers == <<approved, passed, tests, gated>>
ending == <<outcome, experience>>
vars == <<task, node, steps, code, review, test, attempts, error, feedback,
          decision, checkpoint, polls, commit, outcome, experience, approved,
          passed, tests, gated>>

Nodes == {"checkpoint", "dev", "reviewer", "qa", "fix", "clarification", "git"}

Init ==
    /\ task \in [dangerous : BOOLEAN, git : BOOLEAN]
    /\ node = "checkpoint" /\ steps = 0
    /\ code = 0 /\ review = "none" /\ test = "none" /\ attempts = 0
    /\ error = "none" /\ feedback = "none" /\ decision = "none"
    /\ checkpoint = "none" /\ polls = 0
    /\ commit = 0 /\ outcome = "none" /\ experience = FALSE
    /\ approved = 0 /\ passed = 0 /\ tests = 0 /\ gated = FALSE

\* Mutant of Run: a graph compiled without a recursion limit.
RunUnlimited(n, next) ==
    /\ node = n /\ steps <= RecursionLimit
    /\ node' = next
    /\ UNCHANGED steps

\* LangGraph runs node n, which completes a superstep.
Run(n, next) ==
    /\ node = n /\ steps < RecursionLimit
    /\ node' = next
    /\ steps' = steps + 1

-----------------------------------------------------------------------------
(* The checkpoint node and the humans behind the store.                    *)

\* Mutant of NeedsHumanApproval: one fix too late.
NeedsApprovalLate == task.dangerous \/ attempts > 2

\* needs_human_approval: a dangerous word in the task, or two fixes.
NeedsHumanApproval == task.dangerous \/ attempts >= 2

PassCheckpoint ==
    /\ ~NeedsHumanApproval
    /\ Run("checkpoint", "dev")
    /\ UNCHANGED <<task, code, verdicts, attempts, error, feedback, decision,
                   store, commit, ending, observers>>

\* checkpoint_store.submit, before the first poll.
OpenCheckpoint ==
    /\ NeedsHumanApproval
    /\ node = "checkpoint" /\ steps < RecursionLimit
    /\ node' = "waiting"
    /\ checkpoint' = "pending" /\ polls' = 0
    /\ decision' = "none"
    /\ UNCHANGED <<task, steps, code, verdicts, attempts, error, feedback,
                   commit, ending, observers>>

\* approve and reject look the entry up by id and not at its status, and may
\* save a copy that still has an entry the document has lost.  HitlStore keeps
\* the promise (ReviewPromise) that this action and the next one rely on.
HumanDecides(verdict) ==
    /\ node = "waiting"
    /\ checkpoint' = verdict
    /\ UNCHANGED <<task, node, steps, code, verdicts, attempts, error,
                   feedback, decision, polls, commit, ending, observers>>

\* Another writer of the storage document saves a copy that it loaded before
\* the decision, or before the entry was there, or without the oldest of 101
\* entries.
StoreOverwritten ==
    /\ node = "waiting"
    /\ checkpoint' \in {"pending", "lost"} \ {checkpoint}
    /\ UNCHANGED <<task, node, steps, code, verdicts, attempts, error,
                   feedback, decision, polls, commit, ending, observers>>

\* The node returns; the edge to dev does not depend on the answer.
Resume(answer, failure) ==
    /\ steps' = steps + 1
    /\ node' = "dev"
    /\ decision' = answer
    /\ error' = failure
    /\ gated' = TRUE

\* Mutant of Poll: the waiting time is not added up.
PollForever ==
    /\ node = "waiting"
    /\ \/ checkpoint = "approved" /\ Resume("approved", error)
       \/ checkpoint = "rejected" /\ Resume("rejected", "rejected")
       \/ /\ checkpoint \in {"pending", "lost"}
          /\ UNCHANGED <<steps, node, decision, error, gated>>
    /\ UNCHANGED <<task, code, verdicts, attempts, feedback, store,
                   commit, ending, approved, passed, tests>>

\* One read of the store.  A missing entry counts as pending, and the time
\* that passes is bounded, so the last poll without an answer is a timeout.
Poll ==
    /\ node = "waiting"
    /\ polls' = polls + 1
    /\ \/ checkpoint = "approved" /\ Resume("approved", error)
       \/ checkpoint = "rejected" /\ Resume("rejected", "rejected")
       \/ /\ checkpoint \in {"pending", "lost"} /\ polls + 1 >= MaxPolls
          /\ Resume("timeout", "timeout")
       \/ /\ checkpoint \in {"pending", "lost"} /\ polls + 1 < MaxPolls
          /\ UNCHANGED <<steps, node, decision, error, gated>>
    /\ UNCHANGED <<task, code, verdicts, attempts, feedback, checkpoint,
                   commit, ending, approved, passed, tests>>

-----------------------------------------------------------------------------
(* The agents.                                                             *)

\* Mutant of Dev: the verdicts on the old code are kept.
DevKeepsVerdicts ==
    /\ Run("dev", "reviewer")
    /\ code' \in {code, code + 1}
    /\ UNCHANGED <<task, verdicts, attempts, error, feedback, decision, store,
                   commit, ending, observers>>

\* dev_node: a failed call keeps the code; either way the verdicts on the
\* code are reset.
Dev ==
    /\ Run("dev", "reviewer")
    /\ code' \in {code, code + 1}
    /\ review' = "none" /\ test' = "none"
    /\ UNCHANGED <<task, attempts, error, feedback, decision, store, commit,
                   ending, observers>>

\* Mutant of RouteAfterReviewer: the verdict is taken for the next node.
RouteByName(verdict) == verdict

\* Mutant of RouteAfterReviewer: a rejected version is tested all the same.
RouteToQa(verdict) == IF verdict = "rejected" THEN "qa" ELSE "qa"

RouteAfterReviewer(verdict) == IF verdict = "rejected" THEN "fix" ELSE "qa"

\* reviewer_node; a failed call counts as a rejection.
Reviewer ==
    \E verdict \in {"approved", "rejected"} :
        /\ Run("reviewer", RouteAfterReviewer(verdict))
        /\ review' = verdict
        /\ approved' = IF verdict = "approved" THEN code ELSE approved
        /\ UNCHANGED <<task, code, test, attempts, error, feedback, decision,
                       store, commit, ending, passed, tests, gated>>

\* Mutant of RouteAfterQa: one attempt more.
RouteAfterQaLate(result) ==
    IF result = "pass" THEN "git"
    ELSE IF attempts > MaxAttempts THEN "end" ELSE "fix"

RouteAfterQa(result) ==
    IF result = "pass" THEN "git"
    ELSE IF attempts >= MaxAttempts THEN "end" ELSE "fix"

\* qa_node; without code the agent fails at once.
Qa ==
    \E result \in {"pass", "fail"} :
        /\ result = "pass" => code > 0
        /\ Run("qa", RouteAfterQa(result))
        /\ test' = result
        /\ passed' = IF result = "pass" THEN code ELSE passed
        /\ tests' = tests + 1
        /\ UNCHANGED <<task, code, review, attempts, error, feedback, decision,
                       store, commit, ending, approved, gated>>

Fix ==
    /\ Run("fix", "clarification")
    /\ attempts' = attempts + 1
    /\ gated' = FALSE
    /\ UNCHANGED <<task, code, verdicts, error, feedback, decision, store,
                   commit, ending, approved, passed, tests>>

\* Mutant of Clarification: the reply of an earlier round is received.
ClarifyStale ==
    /\ Run("clarification", "checkpoint")
    /\ feedback' = IF feedback # "none" THEN feedback
                   ELSE IF review = "rejected" THEN "review" ELSE "qa"
    /\ UNCHANGED <<task, code, verdicts, attempts, error, decision, store,
                   commit, ending, observers>>

\* reviewer_clarification_node: the answer is built from the state and comes
\* back over the message bus in the same node.
Clarification ==
    /\ Run("clarification", "checkpoint")
    /\ feedback' = IF review = "rejected" THEN "review" ELSE "qa"
    /\ UNCHANGED <<task, code, verdicts, attempts, error, decision, store,
                   commit, ending, observers>>

\* workflow_git_node: disabled, committed, or failed.  Its test for empty
\* code never holds here, since QA fails without code.
Git ==
    /\ Run("git", "end")
    /\ \/ ~task.git /\ UNCHANGED <<commit, error>>
       \/ task.git /\ commit' = code /\ UNCHANGED error
       \/ task.git /\ error' = "git" /\ UNCHANGED commit
    /\ UNCHANGED <<task, code, verdicts, attempts, feedback, decision, store,
                   ending, observers>>

-----------------------------------------------------------------------------
(* How the graph and run_task end.                                         *)

\* ainvoke raises, and run_task returns its initial state as failed.
Crash ==
    /\ node' = "crashed"
    /\ outcome' = "failed"
    /\ UNCHANGED <<task, steps, code, verdicts, attempts, error, feedback,
                   decision, store, commit, experience, observers>>

\* LangGraph reaches its recursion limit with a node still to run.
OutOfSteps == node \in Nodes /\ steps >= RecursionLimit /\ Crash

\* A node raises; the git node catches what it raises.
NodeRaises == node \in (Nodes \ {"git"}) \cup {"waiting"} /\ Crash

\* run_task after ainvoke: an experience is queued when there was a fix.
Finish ==
    /\ node = "end" /\ outcome = "none"
    /\ outcome' = IF test = "pass" THEN "done" ELSE "failed"
    /\ experience' = (attempts > 0)
    /\ UNCHANGED <<task, node, steps, code, verdicts, attempts, error,
                   feedback, decision, store, commit, observers>>

\* approval_queue.submit raises a MemoryStorageError, which nobody catches.
FinishRaises ==
    /\ node = "end" /\ outcome = "none" /\ attempts > 0
    /\ outcome' = "raised"
    /\ UNCHANGED <<task, node, steps, code, verdicts, attempts, error,
                   feedback, decision, store, commit, experience, observers>>

-----------------------------------------------------------------------------

\* What run_task does when nothing raises.
Step ==
    \/ PassCheckpoint \/ OpenCheckpoint \/ Poll
    \/ Dev \/ Reviewer \/ Qa \/ Fix \/ Clarification \/ Git
    \/ OutOfSteps \/ Finish

Next ==
    \/ Step
    \/ NodeRaises \/ FinishRaises
    \/ \E verdict \in {"approved", "rejected"} : HumanDecides(verdict)
    \/ StoreOverwritten

Spec == Init /\ [][Next]_vars

\* The event loop keeps running the task, and every call of a model, a sandbox
\* or git returns or raises.  No human has to answer.
FairSpec == Spec /\ WF_vars(Step)

-----------------------------------------------------------------------------
(* Correctness.                                                            *)

\* Every variable stays in its range.
TypeOK ==
    /\ task \in [dangerous : BOOLEAN, git : BOOLEAN]
    /\ node \in Nodes \cup {"waiting", "end", "crashed"}
    /\ steps \in Nat /\ code \in Nat /\ attempts \in Nat
    /\ review \in {"none", "approved", "rejected"}
    /\ test \in {"none", "pass", "fail"}
    /\ error \in {"none", "rejected", "timeout", "git"}
    /\ feedback \in {"none", "review", "qa"}
    /\ decision \in {"none", "approved", "rejected", "timeout"}
    /\ checkpoint \in {"none", "pending", "approved", "rejected", "lost"}
    /\ polls \in Nat /\ commit \in Nat
    /\ outcome \in {"none", "done", "failed", "raised"}
    /\ experience \in BOOLEAN
    /\ approved \in Nat /\ passed \in Nat /\ tests \in Nat
    /\ gated \in BOOLEAN

\* A verdict in the state is about the code in the state, across retries,
\* failed model calls and rejected versions.
VerdictsAreFresh ==
    /\ review = "approved" => approved = code
    /\ test = "pass" => passed = code
    /\ node \in {"reviewer", "qa"} => test = "none"

\* A commit, and a task reported as done, hold code that exists and of which
\* this very version was approved by the reviewer and passed its tests.  A task
\* that is done and was to be committed names its commit, or the error it met:
\* run_task computes the status from the test alone.
Verified(v) == v > 0 /\ approved = v /\ passed = v
OnlyVerifiedCodeLeaves ==
    /\ commit > 0 => commit = code /\ Verified(commit)
    /\ outcome = "done" => Verified(code)
    /\ outcome = "done" /\ task.git => commit = code \/ error = "git"

\* max_attempts bounds the test runs: QA runs at most once more than that,
\* however reviewer rejections and test failures alternate.
QaBudget == tests <= MaxAttempts + 1

\* What bounds the retries is LangGraph: five nodes for each of them.  The
\* reviewer may reject more often than max_attempts.
RetryBound == 5 * attempts <= RecursionLimit + 1

\* No agent writes code for a dangerous task, or after two fixes, unless a
\* checkpoint was answered or timed out since the last fix.
RiskyRoundsAreGated ==
    node = "dev" /\ (task.dangerous \/ attempts >= 2) => gated

\* The feedback about the verdict that caused a retry is still the one in the
\* state when dev runs, however long the checkpoint in between has waited.
FeedbackNamesTheCause ==
    node \in {"checkpoint", "waiting", "dev"} /\ attempts > 0 =>
        feedback = IF review = "rejected" THEN "review" ELSE "qa"

\* Every task ends, whether or not a human ever answers.
Terminates == <>(outcome # "none")

=============================================================================
