# AISoftwareOrg in TLA+

A model of the parts of AISoftwareOrg whose correctness depends on order,
interleaving and failure: the generation jobs of the dashboard, the Flutter and
the modular pipeline that carry them out with the files they leave behind, the
agent graph of the software organisation, the human-in-the-loop store that joins
it to reviewers, and what its tasks share: budget, audit log and git checkout.
TLC checks small instances, TLAPS proves the safety theorems for every value of
the constants. Paths below are relative to `src/`.

    tlc -workers 2 -config TaskGraph.cfg MCTaskGraph     # one run, see "Runs"
    tlapm TaskGraphProofs.tla                            # one module of proofs

`PROJECT.json` lists the components, the runs, for each property a mutant of
the model that breaks it, the source lines of every definition, the findings
and the hazards.

## 1. Inventory

The repository holds two agent systems behind one dashboard.

| Component | Sources | State it keeps | Operations | Talks to |
|---|---|---|---|---|
| Generation job | `dashboard/database.py`, `dashboard/routers/jobs.py`, `dashboard/queue_manager.py`, `factory_core/pipeline_runner.py` | rows of `jobs`, `job_phases`, `job_phase_attempts`, `job_logs` (SQLite) | POST, cancel, delete, read; one run per POST in a thread or an rq worker | both pipelines; the JavaScript frontend polls it |
| Task graph | `core/graph/engine.py`, `core/graph/state.py`, `workflows/dev_pipeline.py` | the `WorkflowState` of one task | checkpoint, dev, reviewer, qa, fix, clarification, git; `run_task` | agents, message bus, checkpoint store, approval queue |
| HITL store | `memory/storage.py`, `memory/manager.py`, `system/learning/*`, `dashboard/routers/hitl.py` | one JSON document: checkpoints and experiences per team | submit, record outcome, approve, reject | task graph on one side, reviewers on the other |
| Skill versions | `system/skills/versioner.py`, `system/skills/registry.py` | version files of each skill | a new version from an approved experience; latest | HITL store |
| Flutter pipeline | `agents/flutter_factory/orchestrator.py`, `qa_agent.py`, `security_agent.py`, `reviewer_agent.py` | rows of `job_phases` and `job_phase_attempts`, reports under `docs/` | 12 phases, repair loop, gate, export | job, app directory |
| Flutter agents' files | `agents/flutter_factory/dev_agent.py`, `ba_agent.py`, `architect_agent.py`, `uiux_agent.py`, `backend_agent.py` | the app directory of a slug, the archive | write documents and source, pack them | both pipelines |
| Modular pipeline planning | `factory_core/pipeline_builder.py`, `stack_resolver.py`, registries, `workflows/*.yaml`, `modules/**` | none (files read once) | normalise a payload, resolve a stack, order the steps | job |
| Module executor | `factory_core/module_executor.py` | the app directory of a slug | one step of a plan | job |
| Master workflow | `core/graph/orchestrator.py`, `workflows/full_pipeline.py` | plan, sub-task results | PM, planner, tasks in turn or at once, join | task graph, git checkout |
| Message bus | `core/messaging/bus.py` | queues per (scope, agent) | send, receive with timeout | task graph |
| Audit log | `core/logging/*` | hash-chained JSON lines | append, rotate, verify | every agent |
| Cost and routing | `core/cost/tracker.py`, `core/llm/router.py`, `agents/flutter_factory/openrouter_*.py` | spent sum, daily sum | reserve, refuse, record | every LLM call |
| Agents, sandbox, auth, other routers, frontend | see `PROJECT.json` | files, tokens, views | text generation, process calls, CRUD | the above |

How they interact:

- A POST writes the job row and hands a run to a daemon thread or to Redis. From
  then on handlers and runs know of each other only through the database: the
  run polls `is_cancel_requested`, the handlers never look for a run.
- `run_task` drives one LangGraph `ainvoke`. Its checkpoint node writes an entry
  into the shared document and polls it; a reviewer's HTTP request changes the
  entry in another process. After the graph, `run_task` records the outcome
  (in a thread) and may queue an experience in the same document.
- An approved experience goes to the skill versioner inside the reviewer's
  request, and so into the prompts of later tasks.
- A job of a slug works in the app directory of that slug, which earlier jobs,
  perhaps of the other pipeline, have filled. Its phases talk through the files
  there: the repair loop and the gate read reports, not return values.
- The tasks of a requirement share one process, so one cost tracker, one log file
  with a hash chain, and one git checkout.

What is hard here:

- **Interleaving.** Two POSTs for one slug share one row; every write of the
  HITL document is load, change, load, save without a lock around it.
- **Stale state.** `_upsert_job` writes back a flag it read earlier; a verdict of
  the reviewer or of QA may outlive the code it was about; a save of the
  document carries copies of other teams' lists; the gate of the Flutter pipeline
  reads report files, and those of the run before are still there.
- **Crashes.** Daemon threads die with the dashboard; rq workers stop; a version
  file or a line of the audit log may stay half written, and the source of an app
  may end after any of its files.
- **Files taken away.** A delete with purge asks neither for the status of the job
  nor for a run, and removes the app directory under whoever works in it.
- **Ambiguous failures.** `Queue.enqueue` may raise after Redis took the job; the
  write in an `except` clause may raise in turn.
- **Bounds.** `max_attempts` against LangGraph's recursion limit; the caps of 100
  and 200 on lists that several writers share; the waiting time of a checkpoint.
- **Long legal sequences.** Rejections and failed tests over one fix counter;
  approve, reject and approve again; delete and resubmit under a live run.

What makes each component correct:

- *Job*: progress and phases agree; a row shows a download only while it
  succeeded; the stop flag fits the status; a stop request halts each run after
  at most one more phase; success was earned; a live row is owed a verdict, and
  gets one unless a process is lost.
- *Task graph*: only code that this review approved and these tests passed is
  committed or reported as done; retries and test runs are bounded; risky rounds
  wait for a human or for a timeout; feedback is about the verdict that caused
  the retry; every task ends.
- *HITL store and skills*: teams never see each other's items; a verdict that is
  shown was given; nothing is learned without an approval; versions only grow.
- *Flutter pipeline*: the gate decides on this run's reports about the source it
  would export; attempts of a phase are numbered without a gap and each one is
  finished; tests and refactorings keep to the attempt limit; a stop request is
  heard when the phase at hand ends; every run ends.
- *Planning, executor and app directory*: a request that cannot be planned fails
  before anything is touched; the imports of the app resolve, whatever earlier jobs
  left there and whoever writes beside; the documents and files a phase asks for by
  name are its own job's; an archive holds the work of its job.
- *Master workflow*: a commit of a task is on its branch, made by that task, and
  takes along no file of another but abandoned ones.
- *Audit log*: one chain, whatever writes fail or are torn.
- *Cost tracker*: what was spent and what the log says agree; the budget holds
  while calls of parallel tasks are under way.

## 2. Modules

| Module | Role |
|---|---|
| `JobLifecycle` | the row of one slug, the HTTP handlers and the modular runs |
| `JobPromise` | what somebody who polls the row may rely on, whichever pipeline does the work |
| `MCJobLifecycle` | instances for TLC |
| `JobLifecycleProofs`, `JobPromiseProofs` | theorems; the refinement |
| `TaskGraph` | one task through the LangGraph workflow and `run_task` |
| `MCTaskGraph` | a claim of a comment |
| `TaskGraphProofs` | theorems; that its environment is what `ReviewPromise` allows |
| `HitlStore` | the document, its writers and readers, the skill files |
| `ReviewPromise` | what a program that polls an item may rely on |
| `MCHitlStore` | instances for TLC; a claim of the storage module |
| `HitlStoreProofs`, `ReviewPromiseProofs` | theorems; the refinement |
| `FlutterPipeline` | runs of the full pipeline: phases, attempts, repair loop, reports, gate |
| `MCFlutterPipeline` | instances for TLC |
| `FlutterPipelineProofs` | theorems; the refinement of `JobPromise` |
| `AppFiles` | files of an app directory, writes as functions, what archives leave out |
| `FactoryPlan` | from a payload to the steps of the modular pipeline, and what each step writes |
| `FlutterFiles` | what each phase of the full pipeline reads, looks over and writes, the order of the app's files, their imports, the archive |
| `AppDirectory`, `MCAppDirectory` | jobs of one slug over one directory, in either pipeline, with purges |
| `AppDirectoryProofs` | theorems |
| `AuditLog` | the hash-chained file: append, torn lines, verification |
| `Organisation`, `MCOrganisation` | PM, planner, tasks, with tracker, log and checkout |
| `OrganisationProofs` | theorems |

Which composes which: `JobLifecycle` has the row and the handlers in full and
takes a run as a plan of steps; `FlutterPipeline` has the run in full, and of
the row its status and its phases; both implement `JobPromise`. `AppDirectory`
takes both kinds of runs step by step and looks at the files, with the plans of
`FactoryPlan` and `FlutterFiles`. `TaskGraph` is one task and relies on
`ReviewPromise`, which `HitlStore` implements; `Organisation` runs several
tasks, each reduced to its model calls, its verdict and its git node, over
`AuditLog`.

In the state machines an operator `X` is preceded by variants ("Mutant of X"):
plausible bugs of that code. `PROJECT.json` names, for each checked property,
the variant under which TLC finds it violated.

### JobLifecycle

| Model | Code |
|---|---|
| `status`, `cancel`, `export` | columns `status`, `cancel_requested`, `export_path` of the row; `"absent"` without a row |
| `phases`, `progress` | `job_phases.status`; `jobs.progress` as a count of passed phases |
| `pc[s]`, `step[s]`, `snap[s]` | where the POST, then the run, of submission `s` is; its index in the plan; the flag its `_upsert_job` has read |
| `failing` | POSTs in the `except` clause of a failed enqueue |
| `late`, `disturbed` | observers: phases started since the stop request; resubmitted or deleted |

One action is one transaction or one read, with the control flow up to the
next. `_upsert_job` is two (`ReadFlag`, `WriteRunning`), because its SELECT is
outside the transaction of its INSERT. `RecordPhase` is the whole transaction of
`start_phase` and `finish_phase`: default rows, the update, the progress.
Foreign keys are modelled: a phase write for a deleted job raises, a verdict
inserts the row again without phases, and the next read fills them in. Faults
are actions: a statement raises (`Raise`), a handler's own write raises
(`HandlerRaises`), an enqueue raises before or after Redis stored the job
(`EnqueueRaises`), the dashboard or a worker stops.

### TaskGraph

Every node is one action that LangGraph counts as a superstep; the checkpoint
node is split into opening and polls, because humans act in between. `code`
numbers the versions dev produced, and `approved` and `passed` (observers) hold
the version a verdict was about. Models, sandbox and git answer arbitrarily. The
checkpoint entry may be decided again, set back or lost at any time
(`HumanDecides`, `StoreOverwritten`); that this is what the store may do to it
is `ReviewPromise`, which `HitlStore` implements: the theorem `StoreIsCovered`
joins the two.

The field `status` is left out: every node writes it and none reads it. The bus
is left out too: the reply is received in the node that sent it.

### HitlStore

| Model | Code |
|---|---|
| `doc[k]` | the lists of team `k` in the JSON document |
| `skills` | `v1.json`, `v2.json`, ... of one skill; `torn`: a file that was opened and not finished |
| `at[p]`, `frame[p]` | where a task or a dashboard is in an operation, and its local variables: the lists it loaded, the document its save loaded, the version to be written |
| `stage[t]` | which of its three writes a task does next |
| `submitted`, `given` | observers: items a save put into the document; verdicts saved for each |

An operation is three steps, `Load`, `Reload` (`TenantAwareStorage.save` reads
the whole document again) and a save. A save is one step, since it renames a
complete file over the old one. The caps are those of the code: checkpoints,
experiences of the queue, and the smaller one that `add_experience` applies to
the same list. `approve` goes on to the skills: read the latest version, open
the new file, write it; the process may stop between any two of these.

A lesson is a member of a small set (`_improved_steps` adds the step of a lesson
when it is missing). Every task is taken to match the skill.

### FlutterPipeline

| Model | Code |
|---|---|
| `job`, `rows` | `jobs.status`, `"absent"` without a row; `job_phases.status` |
| `attempts` | rows of `job_phase_attempts`: phase, number, status, and the run that inserted it |
| `tree` | the app directory exists (a delete with purge removes it) |
| `reports` | the report files of `docs/`: status, the run that wrote it, and whether the source is still the one it is about |
| `pc[r]`, `at[r]` | the place of run `r` in `run_full_pipeline`, `_run_recorded_phase` or `_run_repair_loop`; the phase it is in |
| `rec[r]`, `num[r]`, `sub[r]`, `round[r]`, `events[r]` | the local variables `should_record`, `attempt` of the phase, `attempt` of a step in the loop, the loop's counter, the last entries of the repair history |
| `overlapped`, `disturbed`, `late` | observers: runs that shared the slug; runs that met a deleted row or a database error; attempts begun since the stop request |

One action is one database transaction or one operation on the files, with the
control flow up to the next. The beginning of `_run_flutter_job` is `Start` (the
first check) and `Upsert` (the row, the directories, the default rows); the
brief between that and the pipeline is `JobLifecycle`'s. `next_phase_attempt`
and `start_phase_attempt` are two actions (`Begin`, `Insert`; `QaCount`,
`QaInsert` and so on), because they use a connection each. A check writes its
reports and the loop reads them back in another action (`QaWork`, `QaRead`).
What the tools say of a source (`flutter analyze`, tests, builds, scans) is an
arbitrary member of `Facts`; the verdicts computed from it (`TestVerdict`,
`ProductionVerdict`, `ReviewVerdict`, `GatePasses`) are those of the code. Any
agent, any database call and the process may fail (`Raises`,
`BookkeepingRaises`, `Dies`), and an operation fails when the files it reads are
gone (`InputMissing`).

### AppFiles, FactoryPlan, FlutterFiles and AppDirectory

The first three have no state. `FactoryPlan` goes from the payload to the plan
(`Normalize`, `Workflows`, `StackModules`, `ResolveSelectedModule`, `Build`) and
says what each module of the plan writes. `FlutterFiles` has the names: feature
keys made by `FeatureKey` and the slightly different `CheckedKey` of QA, the
files in the order they are written, the imports of each file, and for each
phase what it writes (`PhaseWrites`), asks for by name (`PhaseReads`), raises
without (`PhaseNeeds`, `PhaseMustRead`) and comes upon by looking over a directory
(`PhaseScans`: the analyser, the tests and the builds, the scan for secrets, the
reviewer's list). `refactor_report.md` is written when a round of repairs is run or
when there is none, so one of an earlier job may stay (`RunRepairLoop`). Archives
leave out what lies under a directory of `ExcludedParts`. A name is a sequence of
words and separators, and `SlugTo` is the loop over its characters as a recursive
function of its length.

| `AppDirectory` | Code |
|---|---|
| `files`, `dirs` | the app directory: for each file the run that wrote it last, and which text; which of `docs`, `source`, `backend` are there |
| `req[r]`, `as[r]`, `plan[r]`, `at[r]` | request of run `r` after normalisation, the `FACTORY_PIPELINE_MODE` of the process that took it, its steps, the next one |
| `app[r]` | how far run `r` is in `write_flutter_source`: feature and file |
| `fit` | runs whose last check found the files it could pass with |
| `archive` | the zip of the slug: whose it is, and for each file in it whose that is |
| `shared`, `purged` | observers: runs that worked side by side; runs at work when a purge came |

A step is one action that writes its files at once, except for phase 06: every
file of `write_flutter_source` is an action (`DevShared`, `DevPart`,
`DevReport`), so two runs may write into each other's app, and a run may stop
after any file. `Purge` is `delete_single_job` with its `rmtree` as one step,
and waits for nobody: the phases after it find no directory or not their input
(`PhaseRaises`), or make the directory again (the dev and the backend agent, and
every module). No job clears the directory. A gate of the full pipeline opens or
not as `FlutterPipeline` decides it; here it opens for runs in `fit` only, since
a missing required file or acceptance test makes a check fail.

### AuditLog and Organisation

| Model | Code |
|---|---|
| `log`, `seen` | `logs/agent_actions.jsonl`; the hash a writer has read for `prev_hash`. A hash is the number of its entry: two entries never share one |
| `lead`, `pc`, `calls`, `answered` | stage of `run_full_pipeline`; where an actor is; its model calls; whether the last was answered |
| `spent`, `entry` | `global_cost_tracker.spent_usd`; the cost or verdict an actor is about to log |
| `head`, `staged`, `history`, `commit` | the checked-out branch, the index, the commits of each branch, `git_commit` of each task |
| `beside`, `raced`, `unlogged`, `base`, `abandoned` | observers: some pipeline was parallel; two actors were between read and append; costs that no readable line has; the log at the start of the process; files a commit did not take |

An action ends where the code awaits or a helper thread turns from one file
operation to the next, so tasks that run at once interleave there. An entry is a
read of the last hash and an append, under a lock that belongs to one logger,
made for that entry; a write may fail or be torn, and an entry behind a torn
line becomes part of that line. The git node is four actions, one per git
command. `git add` of code that equals what the branch holds stages nothing, so
a commit may consist of files abandoned before it. A crash starts a new process
(the tracker is empty, the file and the checkout are as they were).

## 3. Runs

| Run | Instance | States | Shows |
|---|---|---|---|
| `job_thread` | two overlapping POSTs, thread backend, a plan with the brief again, a registered phase and one without a row; cancels, deletes, reads, all faults | 41,899 | `TypeOK`, `ProgressMatchesPhases`, `RowCoherent`, `CancelFlagCoherent`, `CancelStopsRuns`, `SuccessMeansPlanPassed`, `VerdictIsFinal` |
| `job_rq` | two POSTs, rq backend, one step, fairness | 167,786 | `KeepsPromise`, `KeepsPromiseLive` |
| `task_graph` | `max_attempts` 2, recursion limit 25, three polls | 74,400 | `TypeOK`, `VerdictsAreFresh`, `OnlyVerifiedCodeLeaves`, `QaBudget`, `RetryBound`, `RiskyRoundsAreGated`, `FeedbackNamesTheCause`, `Terminates` |
| `hitl_team` | two tasks and a dashboard of one team, two decisions, caps 1, 3 and 2 | 890,916 | `TypeOK`, `OnlyApprovedLessons`, `VersionsGrow`, `KeepsPromise` |
| `hitl_teams` | two teams with a task each, one decision | 126,664 | `TeamsStayApart` |
| `flutter_run` | one run, `MaxRepair` 2, one design phase, tools that agree or one that does not, two faults or requests, fairness | 24,335 | `TypeOK`, `NoAttemptLeftOpen`, `StopIsHeard`, `RepairBudget`, `AloneIsRefused`, `Terminates`, `KeepsPromise` |
| `flutter_overlap` | two runs, `MaxRepair` 0, no design phase, tools that agree, no faults | 475,682 | `GateIsFresh`, `AttemptNumbers` |
| `app_directory` | two jobs, four requests, either mode, purges between the jobs, and one fault: a failure, a stop request or a purge under a run | 570,752 | `TypeOK`, `ImportsResolve`, `InputsAreOwn`, `ArchiveIsComplete`, `UnsupportedTouchesNothing` |
| `organisation` | two tasks, two requirements, costs 1 and 2, a budget of 4, a call per task, one fault | 832,230 | `TypeOK`, `ChainBreaksOnlyByRace`, `LedgerAgrees`, `CommitIsOwn` |
| `claim_reject`, `claim_lost_update`, `claim_export` | the smallest instance that shows the violation | | one finding each, section 6 |

Bounds, and why they are enough:

- *Two submissions.* Everything submissions share is one row; a run meets at
  most one other writer between two of its own steps, and a third run adds no
  new pair. The theorems hold for any number. `job_thread` uses the symmetry of
  the two; `job_rq`, which has liveness properties, does not.
- *Plans of one and three steps* (jobs). Three steps hold the cases that differ: a
  phase that already passed, a registered phase, one without a row.
- *`max_attempts` 2.* The code's default of 3 gives the same kinds of rounds; with
  2 the budget ends the task before the recursion limit on some paths and the
  limit ends it on others. `ClaimReject` uses the default 3.
  Recursion limit 25 is LangGraph's default.
- *Three polls.* An answer before, between and after polls; the real
  `max_wait_seconds` allows more polls and adds no new order.
- *Caps 1, 3, 2.* A list is shortened by the second entry; the shared list may be
  longer than the cap of `add_experience`, as 200 is to 100 in the code.
- *Two decisions.* A verdict and its reversal, or verdicts on two items; one
  dashboard, because one process serves its requests one after the other.
- *`MaxRepair` 2 and 0* (Flutter). 2 is the default and has a first, a middle and
  a last round. With two runs 0 is enough, because the loop then still tests,
  refactors and tests again before it gives up. The phases before 06 all write
  documents and differ in nothing the pipeline sees; one stands for them, or none.
- *Facts.* Each of the tools that decide different reports fails alone; two that
  fail together give no verdict that one does not. The theorems hold for any set.
- *Two Flutter runs, interrupted in phases 07 and 08 only* (`Uninterrupted`,
  `SideBySide`). Both properties of that run are about attempts of 07 and 08 and
  about the reports those write; the theorems `NumbersCorrect` and `GateFresh`
  have neither bound.
- *Four requests* (`MCPayloads`). The old form and the new one, no features, names
  with capitals and separators of each kind, two that are a fixed screen, one that
  archives leave out, a type without a workflow and a stack without a module. The
  router's default features are cut to one of the three. Two jobs give every pair
  of requests, one after the other.
- *`OneWaits`* keeps pairs side by side to those where one of the two waits: before
  its modular plan, before the files every app has, or before those of the first
  feature. The other then goes through all of its steps or meets it there. The
  theorems have no such bound. The two jobs are interchangeable.
- *One fault* (app directory). One stop, failure or purge meets a run; purges while
  none is at work are not counted.
- *Two tasks, one call each, two requirements.* Two tasks race, a second requirement
  meets what the first left (the log, the branches, the index), and a budget of 4
  runs out after two to four calls, within the first requirement or as the
  second begins.
- `CHECK_DEADLOCK FALSE` everywhere: jobs, tasks, pipelines and bounded reviews end.

Fairness: `JobLifecycle!FairSpec` has weak fairness for what each run or handler
does next (`RunStep(s)`, `RecordEnqueueFailure(s)`): the operating system keeps
scheduling threads and workers that can run. No user has to act, no fault has to
happen, and a lost process releases the promise (`"lost"`).
`TaskGraph!FairSpec` has weak fairness for `Step`: the event loop goes on and
each call of a model, a sandbox or git returns or raises. No human has to
answer; it is the polls that run out. `FlutterPipeline!FairSpec` has weak fairness
for `RunStep(r)` of each run: its thread or worker goes on, and every subprocess
of an agent has a timeout. `HitlStore`, `AppDirectory` and `Organisation` state
safety only.

## 4. Proofs

All theorems are about `Spec`, for any values of the constants that satisfy the
named assumptions: `JobAssumption` (finite set of registered phases, which holds
the brief; any plan over registered and unregistered ids; either backend),
`GraphAssumption` (natural numbers; at least one poll), `StoreAssumption`
(each task has a team; lessons are steps; caps are positive; tasks and
dashboards are different processes), `PipelineAssumption` (any design phases
before 06, any facts, natural numbers), `FlutterFilesAssumption` and
`AppDirectoryAssumption` (separators are no words, and a word in lower case is a
word; any set of payloads with any feature names; the router's default features
are not empty) and `OrganisationAssumption` (an order without repetition over the
tasks; natural numbers). Two theorems assume more,
because the property is false without it: `VerdictStays` is about threads,
`VersionsOfOneGrow` about one dashboard.

| Theorem | Property | Argument |
|---|---|---|
| `JobLifecycleProofs!TypeCorrect` | `TypeOK` | inductive |
| `ProgressCorrect`, `RowCorrect`, `CancelFlagCorrect` | `ProgressMatchesPhases`, `RowCoherent`, `CancelFlagCoherent` | `NextRow`: every step is one of the few ways a row changes (`RowStep`); each preserves the invariant. `CancelFlagCoherent` holds although the flag is read before it is written back, because a stale flag is written with the status `running` only |
| `CancelBound` | `CancelStopsRuns` | strengthened by where a run stands: after a check that saw the request no start follows, so a run that has started a late phase is past its start |
| `SuccessIsEarned` | `SuccessMeansPlanPassed` | `SoleInv`: while there is one undisturbed submission, the steps below `step[s]` have passed, and a plan may name a phase twice, so a running phase may be one of those |
| `VerdictStays` | `VerdictIsFinal` | `FinalInv` with `SoleInv`: no run is active once there is a verdict, and no read has rows to fill in |
| `JobPromiseProofs!PromiseKept` | `KeepsPromise` | `MapInv`, then each step maps to a step of `JobPromise` or a stutter |
| `LiveOwed` | `LiveJobIsOwed` | from the refinement |
| `TaskGraphProofs!TypeCorrect`, `VerdictsCorrect`, `OnlyVerifiedLeaves` | `TypeOK`, `VerdictsAreFresh`, `OnlyVerifiedCodeLeaves` | `EvidenceAtNode`: which verdicts, and after git which commit or error, the state must hold at each node; the routes are not enough, dev's reset is needed |
| `QaBudgetHolds`, `RetryBoundHolds` | `QaBudget`, `RetryBound` | `Counters`: tests against fixes, fixes against supersteps, node by node |
| `RiskyRoundsGated` | `RiskyRoundsAreGated` | inductive as it stands |
| `FeedbackCorrect` | `FeedbackNamesTheCause` | inductive as it stands: a fix leads to the clarification alone, and only dev and the reviewer replace the verdict |
| `StoreIsCovered` | | every step that `ReviewPromise` allows to the entry of a waiting checkpoint is one of `HumanDecides` and `StoreOverwritten`, or no change; with `ReviewPromiseProofs!PromiseKept`, the theorems about a task hold of a task over the store |
| `HitlStoreProofs!TypeCorrect`, `LearningIsApproved`, `TeamsAreApart` | `TypeOK`, `OnlyApprovedLessons`, `TeamsStayApart` | `StoreInv`: every copy a process holds has the properties of the lists of the document, so saving a stale one does no harm; a task's later items are not in any list yet; whoever is about to write a version holds an approved experience |
| `VersionsOfOneGrow` | `VersionsGrow` | `VersionInv`: while the dashboard holds a draft, the version it was read from is whole, smaller, and still the last |
| `ReviewPromiseProofs!PromiseKept` | `KeepsPromise` | `PromiseInv`: copies show given verdicts only, and a decision is about an item of its own copy; each step then maps to a step of `ReviewPromise` for every item at once |
| `FlutterPipelineProofs!TypeCorrect` | `TypeOK` | `TypeInv`: the numbers in use have a maximum, without which `next_phase_attempt` would have no value; and each place belongs to a phase (`Placed`); a run that writes its verdict has one (`Decided`) |
| `NumbersCorrect` | `AttemptNumbers` | `Reservations`: a run about to insert holds a number whose predecessors are all there, and who shares it was at work beside the run (`Aware`) |
| `NoneLeftOpen` | `NoAttemptLeftOpen` | `RunningIsHeld`: each running attempt is held by its run at its place; `RowThere`: the row is there while a phase is under way |
| `StopHeard` | `StopIsHeard` | `LateInv`: for each place, how many attempts may have begun since the request (`Allowed`); `RoundsInv` bounds the rounds |
| `GateFresh` | `GateIsFresh` | `FreshInv`: the plan passes one place for each report after which the report is the run's own (`Slot`), and nothing rewrites the source behind it; `RefactorKept` |
| `BudgetKept` | `RepairBudget` | `BudgetInv`: the cardinality of a run's attempts against a bound for each place (`QaAllowed`, `FixAllowed`) |
| `AloneRefused` | `AloneIsRefused` | `RefusedInv`: a check of the loop writes a production report that fails, the entry read from it is in the history until the history is written, the history then fails, and the gate reads that (finding 3) |
| `PromiseKept`, `LiveOwed` | `KeepsPromise`; a live row has a run that will record an outcome, or a process was lost | `Decided`, then each step maps to a step of `JobPromise` or a stutter |
| `AppDirectoryProofs!TypeCorrect` | `TypeOK` | `RunOK`: a run past its plan's making has the plan its request gives, in the mode it was taken in; `DevOK`: phase 06 begins with nothing written and ends with everything |
| `UnsupportedHolds` | `UnsupportedTouchesNothing` | `UnsupportedInv`: such a run owns nothing but the intake documents, for `Build` gives it no plan |
| `ImportsAlwaysResolve` | `ImportsResolve` | `ImportsInv`: what a run has behind it in the order of writing is there, whoever wrote it last (`Behind`), and a part of a feature is there only with the parts before it and with the files every app has (`AppFile`). The order of writing then settles each import (`PartImports`, `SharedImports`) |
| `InputsAlwaysOwn` | `InputsAreOwn` | `OwnInv`: a run that never had another beside it owns what its steps so far wrote (`OwnFiles`), and after a purge there is nothing but what it wrote since (`LeftFiles`); `PlainSlug`: dev's key and QA's key of a plain name are one; `ImportsAlwaysResolve` for what a phase comes upon |
| `ArchivesComplete` | `ArchiveIsComplete` | from `OwnInv` at the export. In the mode `full` a purged run stops in its first phase or never finds acceptance tests again, so no check it makes afterwards can pass, and one purged behind the last check has no directory left to go on in |
| `OrganisationProofs!TypeCorrect` | `TypeOK` | inductive; includes that the budget holds |
| `ChainHolds` | `ChainBreaksOnlyByRace` | `OrderInv`: PM and planner come before the tasks, and tasks in turn one after the other; `Intact`: who is about to append is alone and has read the last hash |
| `CommitsAreOwn` | `CommitIsOwn` | `GitInv`: without parallel tasks the one in git has its branch checked out, and in the index nobody else's files but abandoned ones |
| `LedgerCorrect` | `LedgerAgrees` | `LedgerInv`: only who is in the log holds a cost; each step changes one term of the sum over lines, entries and losses |

`LiveOwed`, here and for the job, is a consequence of the refinement and states
in the variables of the detailed module what `JobPromise!LiveIsOwed` says.

The inductive invariants that are not obvious (`SoleInv`, `Counters` with
`EvidenceAtNode`, `StoreInv`, those of the Flutter pipeline and of the
organisation) also hold on the instances of the runs, by TLC; that of the app
directory ranges over all files there could be and is proved only. The Flutter proofs split a step by the group of places it starts from
(phase, loop, job, fault), then by place: `NextCases`, `LoopMove` and
`OuterMove` say once where a run may go.

Only model-checked is liveness (`KeepsPromiseLive`, both `Terminates`): the prover
supports neither ENABLED nor fairness. Every invariant and action property of a
passing run is also a theorem.

The induction theorems of the library take an operator as a parameter, which the
backends cannot instantiate. Where a theorem needs an induction (the running
sums of the ledger, `Sums`, and the loop that makes a feature key, `SlugTo`), both
are recursive functions, and the proof takes a least counterexample, from
`LeastExists`, and has the step contradict it. No module has a RECURSIVE operator.

## 5. What is not modelled

`PROJECT.json` lists every component with its status. In short:

- Job: `job_logs`, `current_phase`, timestamps (nothing reads them to decide).
- Task graph: prompts, logs and what answers say. It is modelled with every
  answer.
- HITL store: the facts list, the storage without a `TEAM_ID`, several
  checkpoints of one task, the text of lessons, skills that match no task, the
  Postgres storage and its embeddings.
- Flutter and modular pipelines: the text of documents and source beyond its
  imports, what the subprocesses do, the phase registry's checks of single files
  (their failure is an exception of the phase). Of the steps that write into the
  app directory only `write_flutter_source` is split into its files; a purge is one
  step. A feature with the key `build` is left out of the scans as a whole.
- Organisation: prompts, the parsing of answers, prices and token estimates, the
  `depends_on` of a plan (the code ignores it, see below).
- Audit log: rotation (nothing sets `max_entries`), the Postgres copy, queries,
  the upgrade of a file without hashes.
- OpenRouter client and runner: nothing in the repository calls the runner; the
  agents of the Flutter pipeline write templates.
- Message bus: request and reply are sent and received within one node of the
  graph, on queues of its task; nothing else uses it.
- Skill matching, sandbox, authentication, the other routers, the frontend: text
  scoring, process calls, single statements and views, without control that a
  state machine would show.

Hazards of the code that no property covers (in `PROJECT.json` they have no
properties, and a note): a stop request that `_upsert_job` overwrites, a process
that is lost, a skill update that fails after its approval was saved, an attempt
whose finish meets a database error. Each is a step of a module, and the properties
around it say how far it reaches; the code has no means to prevent or mend it, so
there is no promise to state. Others are covered in part, as their notes say: a
reply that stays on the message bus (the bus is left out), an answer that comes
when the last poll is over (no property relates the task to what the store then
shows), git nodes of parallel tasks (`Organisation` has them, `CommitIsOwn`
excepts them).

## 6. Findings

Each is a run that finds a claim of the repository violated.

1. `claim_reject`, `core/graph/engine.py:472`. A rejected checkpoint goes to dev
   like an approved one; `checkpoint_store.py:117` says the task stops.
2. `claim_lost_update`, `memory/storage.py:65`. The lock covers one load, so a
   decision that was saved and answered is overwritten by an operation that
   loaded the document before it; `storage.py:35` calls it cross-process safe.
3. `claim_export`, `agents/flutter_factory/orchestrator.py:160`. The checks of
   the repair loop run without a release build, which the production gate asks
   for (`qa_agent.py:257`), so no round passes, every repair history ends in a
   FAIL (`orchestrator.py:119`) and the gate refuses a run of which every check
   passed. `AloneRefused` proves that of every run that has the slug to itself.
   `README.md:85` says the loop ends when the project passes validation. The
   repository's tests replace the loop and the gate.

Remarks that a reader of the models meets; no run claims them.

Jobs and the Flutter pipeline:

- A stop request between the SELECT and the INSERT of `_upsert_job` is overwritten
  (`dashboard/database.py:551`; `docs/phase3_agent_pipeline.md:1258` promises a
  check before each phase). One after the last check is answered with 200 and
  followed by `succeeded`.
- The modular run starts the brief again after it has passed
  (`factory_core/pipeline_runner.py:132`); step ids of `workflows/mobile_app.yaml`
  that the registry lacks leave no record, and the job succeeds.
- The `except` clause for a cancellation in `_run_flutter_job` calls
  `finish_phase`, which the module does not import; the error is swallowed.
- A GET of a job that fills in phase rows may meet a DELETE (`database.py:651`).
- Two runs side by side share attempt numbers, and a finish then marks both rows.

App directory and planning:

- QA and dev make different keys of a feature name with a dash
  (`qa_agent.py:84`, `dev_agent.py:21`), so QA misses files that are there; the
  properties that depend on it are stated for plain names.
- Two features may have one key and then one set of files. A feature called
  settings, one of the router's defaults (`routers/jobs.py:161`), shares the path
  of a fixed screen, and the generated widget test expects its title once
  (`dev_agent.py:1325`).
- A request of the old form never gets a backend from the modular pipeline.
- The `required_inputs` of manifests are not enforced.
- A feature with the key `build` or `node_modules` is generated and imported by
  `app.dart`, and left out of the archive (`orchestrator.py:288`).
- A purge under a modular run takes what it has written so far; the run goes on,
  succeeds, and packs what it wrote afterwards (`routers/jobs.py:99`,
  `pipeline_runner.py:82`). A full run stops instead.
- QA's tools, the security scan and the reviewer look over whatever is under
  `source`, files of earlier requests included, and an archive holds those too. When
  no round of repairs is run, `refactor_report.md` may be an earlier job's
  (`orchestrator.py:226`), for the reviewer, the gate and the archive.
- A write of the app that stops half-way leaves an `app.dart` or a test that names
  screens which are not there, until the next job of that slug; the files of the
  features resolve.
- Since the gate refuses a run that was alone (finding 3), what `ArchiveIsComplete`
  says of the mode `full` is about `export_source_archive` once a gate opens.

Organisation:

- `run_task` computes its status from `test_result` alone, so a task whose commit
  failed is done with an error (`OnlyVerifiedCodeLeaves`: it has one of the two).
  The file it staged goes into the next commit, which may hold nothing else
  when the next task's code is what its branch already has.
- A rejection never looks at `max_attempts` (`core/graph/engine.py:418`); the
  recursion limit ends such a task, and also one that fails its tests with
  `max_attempts` of 4 and more, since a round takes six supersteps.
- Planners name their tasks D1, D2 and so on every time, so requirements share
  branches, and the second starts from the first one's; `depends_on` is ignored.
- Tasks in parallel race on the checkout and on the hash chain; their results
  bypass what `run_task` logs and remembers.
- A call that exceeds the budget has been made and paid, but not recorded.
- A line of the log that was torn makes verification fail for ever and swallows
  the entry behind it. Verification does not look at the first entry's `prev_hash`.
- Every request of a clarification stays in a queue nobody reads
  (`core/messaging/bus.py:31`).

HITL store:

- A dashboard that stops between `open` and the end of `json.dump` leaves an
  empty latest version; the registry refuses it, and so does the versioner, so
  the skill stays as it is until somebody removes the file.
- Two dashboards may write one version (`versioner.py:76`), and `VersionsGrow` is
  then false.
- The store a dashboard writes is chosen by the team of the token, the one a task
  polls by `TEAM_ID`; if they differ the checkpoint times out.

## 7. Plan

1. `JobLifecycle`, `JobPromise`, with proofs: done.
2. `TaskGraph`, with proofs: done.
3. `HitlStore`, `ReviewPromise`, with proofs: done.
4. `FlutterPipeline`, with proofs: done.
5. Planning and the executor (`FactoryPlan`), the files of both pipelines
   (`FlutterFiles`, `AppDirectory`), with proofs: done.
6. Master workflow, git, budget and audit chain (`Organisation`, `AuditLog`), with
   proofs: done.
7. What joins the parts: both pipelines implement `JobPromise`, and `ReviewPromise`
   stands between `HitlStore` and `TaskGraph`, with proofs: done.
8. Open: an abstract specification of the organisation (a requirement owes each
   task a result) and the refinement from it; the lemma that every plan of
   `FactoryPlan` satisfies `JobAssumption`; several checkpoints of one task;
   rotation of the audit log, should anything ever turn it on.
