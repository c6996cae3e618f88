---------------------------- MODULE Organisation ----------------------------
(***************************************************************************)
(* The software organisation at work on a requirement: PM and planner,     *)
(* then the planned tasks one after the other (run_full_pipeline) or at    *)
(* once (create_master_workflow), over what they share in the process and  *)
(* on disk: the cost tracker, the audit log, and one git checkout.         *)
(*                                                                         *)
(* What happens within a task is TaskGraph's; here a task is a number of   *)
(* model calls, one after the other, that end with a verdict, and its git  *)
(* node.  An action ends where the code awaits.                            *)
(***************************************************************************)
EXTENDS AuditLog, SequencesExt

CONSTANTS
    Tasks,        \* the dev tasks of every plan
    Order,        \* their order in it
    Lead,         \* the pipeline itself, which asks for PM and planner
    Main,         \* the branch the checkout is on at first
    Costs,        \* what a model call may cost
    Budget,       \* LLM_BUDGET_USD
    MaxCalls,     \* bound: model calls of a task
    MaxRuns,      \* bound: pipelines run
    MaxFaults     \* bound: failing writes, failing git calls, crashes

Actors == Tasks \cup {Lead}
Branches == Tasks \cup {Main}

ASSUME OrganisationAssumption ==
    /\ Order \in Seq(Tasks)
    /\ Tasks = {Order[i] : i \in 1..Len(Order)}
    /\ IsInjective(Order)
    /\ Lead \notin Tasks /\ Main \notin Tasks
    /\ Costs \subseteq Nat /\ Budget \in Nat
    /\ MaxCalls \in Nat /\ MaxRuns \in Nat /\ MaxFaults \in Nat

VARIABLES
    parallel,     \* parameter of run_full_pipeline
    lead,         \* its stage
    pc,           \* where an actor is
    calls,        \* model calls an actor has made
    answered,     \* its last call came back and was recorded
    spent,        \* global_cost_tracker.spent_usd
    entry,        \* what an actor is about to log: its kind and cost
    seen,         \* the hash it has read for prev_hash
    log,          \* logs/agent_actions.jsonl
    made,         \* entries made so far
    head,         \* the branch that is checked out
    staged,       \* the index: files to be committed, one per task
    history,      \* branch -> the commits made on it
    commit,       \* task -> git_commit: [branch, number], or None
    beside,       \* observer: some pipeline so far was parallel
    raced,        \* observer: two actors were between read and append
    unlogged,     \* observer: recorded by this process, never readable
    base,         \* observer: the log when the process started
    abandoned,    \* observer: files that a commit did not take
    runs, faults

meter == <<spent, entry, calls, answered, unlogged>>
audit == <<seen, log, made, raced>>
git == <<head, staged, history, commit, abandoned>>
bounds == <<parallel, beside, base, runs, faults>>
vars == <<lead, pc, meter, audit, git, bounds>>

None == [branch |-> Main, number |-> 0]
Nothing == [kind |-> "none", cost |-> 0]

Init ==
    /\ parallel \in BOOLEAN /\ beside = parallel
    /\ lead = "pm"
    /\ pc = [a \in Actors |-> IF a = Lead THEN "work" ELSE "idle"]
    /\ calls = [a \in Actors |-> 0]
    /\ answered = [a \in Actors |-> FALSE]
    /\ spent = 0
    /\ entry = [a \in Actors |-> Nothing]
    /\ seen = [a \in Actors |-> GenesisHash]
    /\ log = <<>> /\ made = 0
    /\ head = Main /\ staged = {}
    /\ history = [b \in Branches |-> <<>>]
    /\ commit = [t \in Tasks |-> None]
    /\ raced = FALSE /\ unlogged = 0 /\ base = 0 /\ abandoned = {}
    /\ runs = 1 /\ faults = 0

Goto(a, place) == pc' = [pc EXCEPT ![a] = place]

Fault == faults < MaxFaults /\ faults' = faults + 1

-----------------------------------------------------------------------------
(* A model call of an agent, and an entry of the log.                      *)

Allowed(a) ==
    IF a # Lead THEN MaxCalls
    ELSE IF lead = "pm" THEN 1 ELSE IF lead = "planner" THEN 2 ELSE 0

\* Mutant of Record: the sum is written before it is compared.
RecordFirst(a, cost) ==
    /\ spent' = spent + cost
    /\ IF spent + cost > Budget
       THEN /\ answered' = [answered EXCEPT ![a] = FALSE]
            /\ UNCHANGED <<entry, pc>>
       ELSE /\ answered' = [answered EXCEPT ![a] = TRUE]
            /\ entry' = [entry EXCEPT ![a] = [kind |-> "llm_cost",
                                              cost |-> cost]]
            /\ Goto(a, "read")

\* Mutant of Record: what is refused is logged all the same.
RecordRefused(a, cost) ==
    /\ spent' = IF spent + cost > Budget THEN spent ELSE spent + cost
    /\ answered' = [answered EXCEPT ![a] = spent + cost <= Budget]
    /\ entry' = [entry EXCEPT ![a] = [kind |-> "llm_cost", cost |-> cost]]
    /\ Goto(a, "read")

\* CostTracker.record after the answer, and the entry that record_llm_usage
\* makes of it.  The agent catches the BudgetExceededError: its call failed.
Record(a, cost) ==
    IF spent + cost > Budget
    THEN /\ answered' = [answered EXCEPT ![a] = FALSE]
         /\ UNCHANGED <<spent, entry, pc>>
    ELSE /\ spent' = spent + cost
         /\ answered' = [answered EXCEPT ![a] = TRUE]
         /\ entry' = [entry EXCEPT ![a] = [kind |-> "llm_cost",
                                           cost |-> cost]]
         /\ Goto(a, "read")

\* The model answers, or the call raises.
AskModel(a) ==
    /\ pc[a] = "work" /\ calls[a] < Allowed(a)
    /\ calls' = [calls EXCEPT ![a] = @ + 1]
    /\ \/ \E cost \in Costs : Record(a, cost)
       \/ /\ answered' = [answered EXCEPT ![a] = FALSE]
          /\ UNCHANGED <<spent, entry, pc>>
    /\ UNCHANGED <<lead, unlogged, audit, git, bounds>>

\* _append_to_file runs in a thread: first it reads the file.  The lock is
\* that of a logger made for this one entry.
ReadLast(a) ==
    /\ pc[a] = "read"
    /\ seen' = [seen EXCEPT ![a] = LastEntryHash(log)]
    /\ raced' = (raced \/ \E b \in Actors \ {a} : pc[b] = "append")
    /\ Goto(a, "append")
    /\ UNCHANGED <<lead, log, made, meter, git, bounds>>

\* Where an actor goes on when its entry is written.
AfterEntry(a) == IF entry[a].kind = "llm_cost" THEN "work" ELSE "done"

\* ... then it writes the line.
AppendLine(a) ==
    /\ pc[a] = "append"
    /\ log' = AppendToFile(log, Entry(made + 1, seen[a], a, entry[a].cost))
    /\ made' = made + 1
    /\ unlogged' = unlogged + IF IsOpen(log) THEN entry[a].cost ELSE 0
    /\ entry' = [entry EXCEPT ![a] = Nothing]
    /\ Goto(a, AfterEntry(a))
    /\ UNCHANGED <<lead, seen, raced, spent, calls, answered, git, bounds>>

\* The write raises, maybe half-way.  An agent takes it for a failed call;
\* run_task passes it on, and run_full_pipeline ends without a result.
AppendFails(a) ==
    /\ Fault
    /\ pc[a] = "append"
    /\ log' \in {log, AppendTorn(log)}
    /\ unlogged' = unlogged + entry[a].cost
    /\ entry' = [entry EXCEPT ![a] = Nothing]
    /\ answered' = [answered EXCEPT ![a] = FALSE]
    /\ Goto(a, AfterEntry(a))
    /\ lead' = IF entry[a].kind = "llm_cost" THEN lead ELSE "raised"
    /\ UNCHANGED <<seen, made, raced, spent, calls, git, parallel, beside,
                   base, runs>>

-----------------------------------------------------------------------------
(* The pipeline.                                                           *)

\* PM and planner: a failed call, an answer that is no JSON, or a plan
\* without tasks ends the pipeline with an error.
LeadReturns ==
    /\ pc[Lead] = "work" /\ lead \in {"pm", "planner"}
    /\ calls[Lead] = Allowed(Lead)
    /\ \/ /\ answered[Lead]
          /\ lead' = IF lead = "pm" THEN "planner" ELSE "tasks"
       \/ lead' = "end"
    /\ UNCHANGED <<pc, meter, audit, git, bounds>>

\* _run_dev_task for the next one, or the Send of each.
StartTask(i) ==
    /\ lead = "tasks" /\ pc[Order[i]] = "idle"
    /\ parallel \/ \A j \in 1..i - 1 : pc[Order[j]] = "done"
    /\ Goto(Order[i], "work")
    /\ UNCHANGED <<lead, meter, audit, git, bounds>>

\* After the graph run_task logs the outcome; sub_task_wrapper does not.
Return(t) ==
    IF parallel THEN Goto(t, "done") /\ UNCHANGED entry
    ELSE /\ entry' = [entry EXCEPT ![t] = [kind |-> "workflow", cost |-> 0]]
         /\ Goto(t, "read")

\* The tests pass and the git node is next, or the graph ends without it.
GraphEnds(t) ==
    /\ pc[t] = "work" /\ calls[t] > 0
    /\ \/ answered[t] /\ Goto(t, "branch") /\ UNCHANGED entry
       \/ Return(t)
    /\ UNCHANGED <<lead, spent, calls, answered, unlogged, audit, git, bounds>>

\* The graph raises: both callers make a failed result of it at once.
GraphRaises(t) ==
    /\ pc[t] = "work"
    /\ Goto(t, "done")
    /\ UNCHANGED <<lead, meter, audit, git, bounds>>

\* Every task has its result.
Join ==
    /\ lead = "tasks"
    /\ \A t \in Tasks : pc[t] = "done"
    /\ lead' = "end"
    /\ UNCHANGED <<pc, meter, audit, git, bounds>>

\* Another requirement, to the same process; planners name their tasks D1,
\* D2 and so on every time.
Reset ==
    /\ runs < MaxRuns /\ runs' = runs + 1
    /\ parallel' \in BOOLEAN /\ beside' = (beside \/ parallel')
    /\ lead' = "pm"
    /\ pc' = [a \in Actors |-> IF a = Lead THEN "work" ELSE "idle"]
    /\ calls' = [a \in Actors |-> 0]
    /\ answered' = [a \in Actors |-> FALSE]
    /\ entry' = [a \in Actors |-> Nothing]
    /\ commit' = [t \in Tasks |-> None]

NewRequirement ==
    /\ lead \in {"end", "raised"}
    /\ \A a \in Actors : pc[a] \in {"idle", "work", "done"}
    /\ Reset
    /\ UNCHANGED <<spent, unlogged, audit, head, staged, history, abandoned,
                   base, faults>>

\* The process dies, maybe in the middle of a write, and is started again.
Crash ==
    /\ Fault
    /\ Reset
    /\ \/ (\E a \in Actors : pc[a] = "append") /\ log' = AppendTorn(log)
       \/ UNCHANGED log
    /\ base' = Len(log')
    /\ spent' = 0 /\ unlogged' = 0
    /\ abandoned' = abandoned \cup staged
    /\ UNCHANGED <<seen, made, raced, head, staged, history>>

-----------------------------------------------------------------------------
(* The git node, on one checkout for all tasks.                            *)

\* Mutant of CreateBranch: any task branch will do.
CreateBranchOnce(t) ==
    /\ pc[t] = "branch"
    /\ head' = IF head = Main THEN t ELSE head
    /\ Goto(t, "add")
    /\ UNCHANGED <<lead, staged, history, commit, abandoned, meter, audit,
                   bounds>>

\* create_branch: a new branch starts from where the checkout is, and the
\* index comes along.
CreateBranch(t) ==
    /\ pc[t] = "branch"
    /\ head' = t
    /\ Goto(t, "add")
    /\ UNCHANGED <<lead, staged, history, commit, abandoned, meter, audit,
                   bounds>>

\* commit_code: the file is written and added, which puts it into the index
\* when it differs from what is checked out, and takes it out when it does
\* not ...
AddFile(t) ==
    /\ pc[t] = "add"
    /\ staged' \in {staged \cup {t}, staged \ {t}}
    /\ Goto(t, "commit")
    /\ UNCHANGED <<lead, head, history, commit, abandoned, meter, audit,
                   bounds>>

\* ... the index is committed to whatever is checked out ...
Commit(t) ==
    /\ pc[t] = "commit" /\ staged # {}
    /\ history' = [history EXCEPT ![head] =
                      Append(@, [by |-> t, files |-> staged])]
    /\ staged' = {}
    /\ Goto(t, "sha")
    /\ UNCHANGED <<lead, head, commit, abandoned, meter, audit, bounds>>

\* ... and HEAD is read for git_commit.
ReadHead(t) ==
    /\ pc[t] = "sha"
    /\ commit' = [commit EXCEPT ![t] = [branch |-> head,
                                        number |-> Len(history[head])]]
    /\ Return(t)
    /\ UNCHANGED <<lead, head, staged, history, abandoned, spent, calls,
                   answered, unlogged, audit, bounds>>

InGit == {"branch", "add", "commit", "sha"}

\* A git call fails, for want of something to commit or for any reason; the
\* node catches it, and what is staged stays.
GitFails(t) ==
    /\ pc[t] \in InGit
    /\ IF pc[t] = "commit" /\ staged = {} THEN UNCHANGED faults ELSE Fault
    /\ abandoned' = abandoned \cup staged
    /\ Return(t)
    /\ UNCHANGED <<lead, head, staged, history, commit, spent, calls,
                   answered, unlogged, audit, parallel, beside, base,
                   runs>>

Next ==
    \/ \E a \in Actors :
          \/ AskModel(a) \/ ReadLast(a) \/ AppendLine(a) \/ AppendFails(a)
    \/ LeadReturns \/ Join \/ NewRequirement \/ Crash
    \/ \E i \in 1..Len(Order) : StartTask(i)
    \/ \E t \in Tasks :
          \/ GraphEnds(t) \/ GraphRaises(t)
          \/ CreateBranch(t) \/ AddFile(t) \/ Commit(t) \/ ReadHead(t)
          \/ GitFails(t)

Spec == Init /\ [][Next]_vars

-----------------------------------------------------------------------------
(* Correctness.                                                            *)

\* Every variable stays in its range; the tracker stays within its budget.
TypeOK ==
    /\ parallel \in BOOLEAN /\ beside \in BOOLEAN
    /\ lead \in {"pm", "planner", "tasks", "end", "raised"}
    /\ pc \in [Actors -> {"idle", "work", "read", "append", "done"} \cup InGit]
    /\ calls \in [Actors -> Nat]
    /\ answered \in [Actors -> BOOLEAN]
    /\ spent \in 0..Budget
    /\ entry \in [Actors -> [kind : {"none", "llm_cost", "workflow"},
                             cost : Nat]]
    /\ seen \in [Actors -> Nat] /\ made \in Nat /\ unlogged \in Nat
    /\ base \in Nat
    /\ head \in Branches /\ staged \subseteq Tasks
    /\ abandoned \subseteq Tasks
    /\ commit \in [Tasks -> [branch : Branches, number : Nat]]
    /\ raced \in BOOLEAN /\ runs \in Nat /\ faults \in Nat

\* Torn lines aside the file verifies, unless two actors were between reading
\* the last hash and writing their entry at once: never with tasks one after
\* the other, whatever fails or dies in between.
ChainBreaksOnlyByRace ==
    /\ ~raced => Linked(log)
    /\ raced => beside

\* The sums of the first numbers of a sequence.
Sums(costs) ==
    LET sum[n \in 0..Len(costs)] ==
            IF n = 0 THEN 0 ELSE sum[n - 1] + costs[n]
    IN  sum

SumOf(costs) == Sums(costs)[Len(costs)]

\* What a line of the log adds to the sum of a reader.
CostOf(line) == IF line.readable THEN line.cost ELSE 0

\* What this process has logged.
Logged == SumOf([i \in 1..Len(log) - base |-> CostOf(log[base + i])])

\* What agents have spent and are about to log.
UnderWay ==
    entry[Lead].cost + SumOf([i \in 1..Len(Order) |-> entry[Order[i]].cost])

\* What the tracker has spent is in the log, once, is on its way there, or
\* was lost by a write that failed or that followed a torn line: the sums of
\* the dashboard and of the daily guard are those of the tracker, whatever
\* the agents do at the same time.
LedgerAgrees == spent = Logged + UnderWay + unlogged

\* With tasks one after the other every commit of a task is on its branch and
\* changes, beside the file of the task, only files that a failed git node
\* left in the index; and git_commit names it.  A commit may hold nothing but
\* such files, when the task's own code was there already.
CommitIsOwn ==
    ~beside =>
        /\ \A b \in Branches : \A n \in 1..Len(history[b]) :
              LET c == history[b][n]
              IN  c.by = b /\ c.files \ {b} \subseteq abandoned
        /\ \A t \in Tasks :
              commit[t] # None =>
                  /\ commit[t].branch = t
                  /\ history[t][commit[t].number].by = t

=============================================================================
