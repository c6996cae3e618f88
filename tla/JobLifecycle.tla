---------------------------- MODULE JobLifecycle ----------------------------
(***************************************************************************)
(* One generation job of the dashboard: the row of table jobs for one      *)
(* slug, its rows of job_phases, the HTTP handlers of                      *)
(* dashboard/routers/jobs.py that write them, and the runs of              *)
(* queue_manager._run_flutter_job in modular mode, one per accepted POST.  *)
(*                                                                         *)
(* Handlers and runs execute in threads (or, with the rq backend, in other *)
(* processes) and share nothing but the database.  Each action below is    *)
(* one database transaction, or one read, together with the control flow   *)
(* up to the next one.                                                     *)
(***************************************************************************)
EXTENDS Naturals, Sequences, FiniteSets

CONSTANTS
    Submissions,      \* the POST requests made for this slug
    Backend,          \* JOB_QUEUE_BACKEND: "thread" or "rq"
    Registered,       \* ids of PHASE_CONTRACTS: the phases with a row
    Unregistered,     \* ids a workflow file uses that have no row
    Brief,            \* "01_create_brief"
    Plan              \* phase ids of the steps PipelineBuilder returned

ASSUME JobAssumption ==
    /\ Backend \in {"thread", "rq"}
    /\ IsFiniteSet(Registered)
    /\ Registered \cap Unregistered = {}
    /\ Brief \in Registered
    /\ Plan \in Seq(Registered \cup Unregistered)

VARIABLES
    status,           \* jobs.status, "absent" while there is no row
    cancel,           \* jobs.cancel_requested
    export,           \* jobs.export_path is set
    progress,         \* jobs.progress, as the number of passed phases
    phases,           \* job_phases.status by phase, "none" without a row
    pc,               \* where the POST or the run of each submission is
    step,             \* index in Plan of the step a run is at
    snap,             \* the flag a run's _upsert_job has read
    failing,          \* POSTs whose enqueue raised, about to record it
    late,             \* observer: phases started since the stop request
    disturbed         \* observer: the job was resubmitted or deleted

jobVars == <<status, cancel, export>>
phaseVars == <<phases, progress>>
vars == <<status, cancel, export, progress, phases, pc, step, snap, failing,
          late, disturbed>>

JobStatuses == {"queued", "running", "succeeded", "failed", "cancelled",
                "cancel_requested"}
PhaseStatuses == {"pending", "running", "passed", "failed", "skipped",
                  "cancelled"}

\* Places of a run where an exception reaches "except Exception".
Body == {"check_start", "read_flag", "write_running", "init_phases",
         "check_brief", "start_brief", "pass_brief", "check_pipe",
         "step_check", "step_start", "step_failed", "step_cancel",
         "check_end", "write_succeeded"}
Handlers == {"write_cancelled", "write_failed"}
Running == Body \cup Handlers \cup {"step_run"}
Active  == Running \cup {"posted"}
Places  == Active \cup {"new", "done", "lost"}

LiveStatuses == {"queued", "running", "cancel_requested"}

-----------------------------------------------------------------------------
(* The job store: dashboard/database.py.                                   *)

Present == status # "absent"

\* is_cancel_requested: a missing row reads as "no".
IsCancelRequested == cancel \/ status \in {"cancel_requested", "cancelled"}

\* _passed_progress, before scaling to percent.
Passed(f) == Cardinality({p \in Registered : f[p] = "passed"})

\* _insert_default_phases: INSERT OR IGNORE of one pending row per contract.
WithDefaults(f) ==
    [p \in Registered |-> IF f[p] = "none" THEN "pending" ELSE f[p]]

\* Mutant of RecordPhase: the progress of the job is left to the next read.
RecordPhaseOnly(p, st) ==
    /\ phases' = [q \in Registered |->
                    IF q = p THEN st ELSE WithDefaults(phases)[q]]
    /\ UNCHANGED progress

\* The transaction of start_phase and finish_phase.  The UPDATE of a phase
\* without a row matches nothing and is not an error.
RecordPhase(p, st) ==
    /\ phases' = [q \in Registered |->
                    IF q = p THEN st ELSE WithDefaults(phases)[q]]
    /\ progress' = Passed(phases')

\* Mutant of UpsertJob: the flag is never reset.
UpsertKeepsFlag(st, flag, exported) ==
    /\ status' = st
    /\ cancel' = (cancel \/ flag)
    /\ export' = exported
    /\ UNCHANGED phaseVars

\* The INSERT ... ON CONFLICT DO UPDATE of _upsert_job, for any status but
\* "queued": a missing row is inserted again, without phases.
UpsertJob(st, flag, exported) ==
    /\ status' = st
    /\ cancel' = flag
    /\ export' = exported
    /\ UNCHANGED phaseVars

\* initialize_job_phases, which every read of a job runs too.
InitializePhases ==
    /\ phases' = WithDefaults(phases)
    /\ progress' = Passed(phases')

\* Observer: starters begin a phase in this step; the count is kept while a
\* stop request stands and forgotten once it no longer does.
Observe(starters) ==
    late' = [t \in Submissions |->
               IF ~IsCancelRequested' THEN 0
               ELSE IF t \in starters THEN late[t] + 1 ELSE late[t]]

Goto(s, place) == pc' = [pc EXCEPT ![s] = place]

Init ==
    /\ status = "absent" /\ cancel = FALSE /\ export = FALSE
    /\ progress = 0
    /\ phases = [p \in Registered |-> "none"]
    /\ pc = [s \in Submissions |-> "new"]
    /\ step = [s \in Submissions |-> 0]
    /\ snap = [s \in Submissions |-> FALSE]
    /\ failing = {}
    /\ late = [s \in Submissions |-> 0]
    /\ disturbed = FALSE

-----------------------------------------------------------------------------
(* The HTTP handlers: dashboard/routers/jobs.py.                           *)

\* create_generation_job up to the enqueue: _upsert_job(status="queued")
\* replaces whatever the row and its phases held.
Submit(s) ==
    /\ pc[s] = "new"
    /\ status' = "queued" /\ cancel' = FALSE /\ export' = FALSE
    /\ phases' = [p \in Registered |-> "pending"]
    /\ progress' = 0
    /\ Goto(s, "posted")
    /\ disturbed' = \E t \in Submissions : pc[t] # "new"
    /\ Observe({})
    /\ UNCHANGED <<step, snap, failing>>

\* _enqueue_thread or _enqueue_rq succeeds.
Enqueue(s) ==
    /\ pc[s] = "posted"
    /\ Goto(s, "check_start")
    /\ UNCHANGED <<jobVars, phaseVars, step, snap, failing, late, disturbed>>

\* Starting the thread raises: the handler has no except clause for it.
ThreadNotStarted(s) ==
    /\ Backend = "thread"
    /\ pc[s] = "posted"
    /\ Goto(s, "lost")
    /\ UNCHANGED <<jobVars, phaseVars, step, snap, failing, late, disturbed>>

\* Queue.enqueue raises, before or after Redis has stored the job.
EnqueueRaises(s) ==
    /\ Backend = "rq"
    /\ pc[s] = "posted"
    /\ failing' = failing \cup {s}
    /\ \E stored \in BOOLEAN :
          Goto(s, IF stored THEN "check_start" ELSE "done")
    /\ UNCHANGED <<jobVars, phaseVars, step, snap, late, disturbed>>

\* The except clause of create_generation_job.
RecordEnqueueFailure(s) ==
    /\ s \in failing
    /\ failing' = failing \ {s}
    /\ UpsertJob("failed", FALSE, FALSE)
    /\ Observe({})
    /\ UNCHANGED <<pc, step, snap, disturbed>>

\* Mutant of CancelJob: the UPDATE does not look at the status.
CancelAnyJob ==
    /\ Present
    /\ status' = "cancel_requested"
    /\ cancel' = TRUE
    /\ InitializePhases
    /\ Observe({})
    /\ UNCHANGED <<export, pc, step, snap, failing, disturbed>>

\* cancel_single_job: get_job fills in missing phases, then
\* request_job_cancellation updates a live row.
CancelJob ==
    /\ status \in LiveStatuses
    /\ status' = "cancel_requested"
    /\ cancel' = TRUE
    /\ InitializePhases
    /\ Observe({})
    /\ UNCHANGED <<export, pc, step, snap, failing, disturbed>>

\* Mutant of DeleteJob: without PRAGMA foreign_keys the phases stay.
DeleteOnlyJob ==
    /\ Present
    /\ status' = "absent" /\ cancel' = FALSE /\ export' = FALSE
    /\ disturbed' = TRUE
    /\ Observe({})
    /\ UNCHANGED <<phaseVars, pc, step, snap, failing>>

\* delete_single_job: foreign keys take the phases along.
DeleteJob ==
    /\ Present
    /\ status' = "absent" /\ cancel' = FALSE /\ export' = FALSE
    /\ phases' = [p \in Registered |-> "none"]
    /\ progress' = 0
    /\ disturbed' = TRUE
    /\ Observe({})
    /\ UNCHANGED <<pc, step, snap, failing>>

\* get_job and list_jobs write the phases a resurrected row lacks.
ReadJob ==
    /\ Present
    /\ \E p \in Registered : phases[p] = "none"
    /\ InitializePhases
    /\ UNCHANGED <<jobVars, pc, step, snap, failing, late, disturbed>>

-----------------------------------------------------------------------------
(* One run: _run_flutter_job with run_modular_pipeline.                    *)

\* A call of is_cancel_requested and the branch on it.
Check(s, place, stop, continue) ==
    /\ pc[s] = place
    /\ Goto(s, IF IsCancelRequested THEN stop ELSE continue)
    /\ UNCHANGED <<jobVars, phaseVars, step, snap, failing, late, disturbed>>

\* Mutant of CheckStart: a cancelled run returns without a verdict.
ReturnIfCancelled(s) == Check(s, "check_start", "done", "read_flag")

CheckStart(s) == Check(s, "check_start", "write_cancelled", "read_flag")

\* _upsert_job(status="running") reads the flag before its transaction ...
ReadFlag(s) ==
    /\ pc[s] = "read_flag"
    /\ snap' = [snap EXCEPT ![s] = cancel]
    /\ Goto(s, "write_running")
    /\ UNCHANGED <<jobVars, phaseVars, step, failing, late, disturbed>>

\* ... and writes it back in the transaction.
WriteRunning(s) ==
    /\ pc[s] = "write_running"
    /\ UpsertJob("running", snap[s], FALSE)
    /\ Goto(s, "init_phases")
    /\ Observe({})
    /\ UNCHANGED <<step, snap, failing, disturbed>>

InitPhases(s) ==
    /\ pc[s] = "init_phases"
    /\ \/ Present /\ InitializePhases /\ Goto(s, "check_brief")
       \/ ~Present /\ UNCHANGED phaseVars /\ Goto(s, "write_failed")
    /\ UNCHANGED <<jobVars, step, snap, failing, late, disturbed>>

CheckBrief(s) == Check(s, "check_brief", "write_cancelled", "start_brief")

\* A phase row is written, or the foreign key of a deleted job refuses the
\* insert of its default phases and the statement raises.
WritePhase(s, place, p, st, ok, raised) ==
    /\ pc[s] = place
    /\ \/ Present /\ RecordPhase(p, st) /\ Goto(s, ok)
       \/ ~Present /\ UNCHANGED phaseVars /\ Goto(s, raised)
    /\ UNCHANGED <<jobVars, snap, failing, disturbed>>

StartBrief(s) ==
    /\ WritePhase(s, "start_brief", Brief, "running", "pass_brief",
                  "write_failed")
    /\ Observe({s})
    /\ UNCHANGED step

PassBrief(s) ==
    /\ WritePhase(s, "pass_brief", Brief, "passed", "check_pipe",
                  "write_failed")
    /\ UNCHANGED <<step, late>>

\* Where the loop of run_modular_pipeline continues after i steps.
LoopFrom(i) == IF i < Len(Plan) THEN "step_check" ELSE "check_end"

CheckPipe(s) ==
    /\ pc[s] = "check_pipe"
    /\ \/ /\ IsCancelRequested
          /\ Goto(s, "write_cancelled")
          /\ UNCHANGED step
       \/ /\ ~IsCancelRequested
          /\ Goto(s, LoopFrom(0))
          /\ step' = [step EXCEPT ![s] = 1]
    /\ UNCHANGED <<jobVars, phaseVars, snap, failing, late, disturbed>>

\* Mutant of StepCheck: the loop does not look for a stop request.
StepUnchecked(s) == Check(s, "step_check", "step_start", "step_start")

StepCheck(s) == Check(s, "step_check", "step_cancel", "step_start")

StepCancel(s) ==
    /\ WritePhase(s, "step_cancel", Plan[step[s]], "cancelled",
                  "write_cancelled", "write_failed")
    /\ UNCHANGED <<step, late>>

StepStart(s) ==
    /\ WritePhase(s, "step_start", Plan[step[s]], "running", "step_run",
                  "write_failed")
    /\ Observe({s})
    /\ UNCHANGED step

\* Mutant of StepPass: the loop stays at its step.
StepRepeats(s) ==
    /\ WritePhase(s, "step_run", Plan[step[s]], "passed", LoopFrom(0),
                  "step_failed")
    /\ UNCHANGED <<step, late>>

\* execute_module_step succeeds and finish_phase records it.
StepPass(s) ==
    /\ WritePhase(s, "step_run", Plan[step[s]], "passed", LoopFrom(step[s]),
                  "step_failed")
    /\ step' = [step EXCEPT ![s] = IF Present THEN @ + 1 ELSE @]
    /\ UNCHANGED late

\* execute_module_step raises.
StepRaises(s) ==
    /\ pc[s] = "step_run"
    /\ Goto(s, "step_failed")
    /\ UNCHANGED <<jobVars, phaseVars, step, snap, failing, late, disturbed>>

\* Mutant of StepFailed: the loop goes on after a failed step.
StepFailureIgnored(s) ==
    /\ WritePhase(s, "step_failed", Plan[step[s]], "failed",
                  LoopFrom(step[s]), "write_failed")
    /\ step' = [step EXCEPT ![s] = @ + 1]
    /\ UNCHANGED late

StepFailed(s) ==
    /\ WritePhase(s, "step_failed", Plan[step[s]], "failed", "write_failed",
                  "write_failed")
    /\ UNCHANGED <<step, late>>

CheckEnd(s) == Check(s, "check_end", "write_cancelled", "write_succeeded")

\* The three ways a run records its verdict.  The except clause for a
\* cancellation first calls finish_phase, a name the module does not import:
\* the NameError is swallowed and no phase changes.
Verdict(s, place, st) ==
    /\ pc[s] = place
    /\ UpsertJob(st, FALSE, st = "succeeded")
    /\ Goto(s, "done")
    /\ Observe({})
    /\ UNCHANGED <<step, snap, failing, disturbed>>

\* Mutant of WriteSucceeded: a status that is not one of JOB_STATUSES.
WriteCompleted(s) == Verdict(s, "write_succeeded", "completed")

WriteSucceeded(s) == Verdict(s, "write_succeeded", "succeeded")
WriteCancelled(s) == Verdict(s, "write_cancelled", "cancelled")
WriteFailed(s)    == Verdict(s, "write_failed", "failed")

-----------------------------------------------------------------------------
(* What goes wrong around a run.                                           *)

\* Any statement of the run raises: a full disk, a database that stays
\* locked through _with_write_retry, the job_timeout of rq.
Raise(s) ==
    /\ pc[s] \in Body
    /\ Goto(s, "write_failed")
    /\ UNCHANGED <<jobVars, phaseVars, step, snap, failing, late, disturbed>>

\* The write of an except clause raises as well and nobody catches it.
HandlerRaises(s) ==
    /\ pc[s] \in Handlers
    /\ Goto(s, "lost")
    /\ UNCHANGED <<jobVars, phaseVars, step, snap, failing, late, disturbed>>

EnqueueHandlerRaises(s) ==
    /\ s \in failing
    /\ failing' = failing \ {s}
    /\ Goto(s, IF pc[s] = "done" THEN "lost" ELSE pc[s])
    /\ UNCHANGED <<jobVars, phaseVars, step, snap, late, disturbed>>

\* The dashboard process stops.  Its handlers die with it and so do its
\* daemon threads; jobs handed to Redis do not.  No start-up code looks at
\* the rows it left behind.
DashboardStops ==
    LET dies(s) == \/ pc[s] = "posted"
                   \/ Backend = "thread" /\ pc[s] \in Running
                   \/ s \in failing /\ pc[s] = "done"
    IN  /\ \E s \in Submissions : dies(s) \/ s \in failing
        /\ pc' = [s \in Submissions |-> IF dies(s) THEN "lost" ELSE pc[s]]
        /\ failing' = {}
        /\ UNCHANGED <<jobVars, phaseVars, step, snap, late, disturbed>>

\* An rq worker process stops in the middle of a run.
WorkerStops(s) ==
    /\ Backend = "rq"
    /\ pc[s] \in Running
    /\ Goto(s, "lost")
    /\ UNCHANGED <<jobVars, phaseVars, step, snap, failing, late, disturbed>>

-----------------------------------------------------------------------------

\* What a submission's own thread or process does when nothing goes wrong.
RunStep(s) ==
    \/ Enqueue(s) \/ CheckStart(s) \/ ReadFlag(s) \/ WriteRunning(s)
    \/ InitPhases(s) \/ CheckBrief(s) \/ StartBrief(s) \/ PassBrief(s)
    \/ CheckPipe(s) \/ StepCheck(s) \/ StepCancel(s) \/ StepStart(s)
    \/ StepPass(s) \/ StepFailed(s) \/ CheckEnd(s)
    \/ WriteSucceeded(s) \/ WriteCancelled(s) \/ WriteFailed(s)

Fault(s) ==
    \/ ThreadNotStarted(s) \/ EnqueueRaises(s) \/ StepRaises(s) \/ Raise(s)
    \/ HandlerRaises(s) \/ EnqueueHandlerRaises(s) \/ WorkerStops(s)

Next ==
    \/ \E s \in Submissions :
          Submit(s) \/ RunStep(s) \/ RecordEnqueueFailure(s) \/ Fault(s)
    \/ CancelJob \/ DeleteJob \/ ReadJob \/ DashboardStops

Spec == Init /\ [][Next]_vars

\* The operating system keeps scheduling threads and processes that can run;
\* nothing obliges a user to act or a fault to happen.
FairSpec ==
    /\ Spec
    /\ \A s \in Submissions : WF_vars(RunStep(s))
                           /\ WF_vars(RecordEnqueueFailure(s))

-----------------------------------------------------------------------------
(* Correctness.                                                            *)

\* Every variable stays in its range.
TypeOK ==
    /\ status \in JobStatuses \cup {"absent"}
    /\ cancel \in BOOLEAN /\ export \in BOOLEAN
    /\ progress \in Nat
    /\ phases \in [Registered -> PhaseStatuses \cup {"none"}]
    /\ pc \in [Submissions -> Places]
    /\ step \in [Submissions -> Nat]
    /\ snap \in [Submissions -> BOOLEAN]
    /\ failing \subseteq Submissions
    /\ late \in [Submissions -> Nat]
    /\ disturbed \in BOOLEAN

\* The stored progress is the number of phases stored as passed, whichever
\* handlers and runs interleave: no write changes one without the other.
ProgressMatchesPhases == progress = Passed(phases)

\* A row has phases only while the job exists, and a download path exactly
\* when the job shows "succeeded": GET .../download never serves the archive
\* of a job that is queued again, cancelled, failed or deleted.
RowCoherent ==
    /\ ~Present => /\ ~cancel
                   /\ \A p \in Registered : phases[p] = "none"
    /\ export <=> status = "succeeded"

\* The flag and the status tell one story: a row that shows
\* "cancel_requested" carries the flag, and a flag is never left on a row
\* that is queued or has a verdict, where it would stop the next run.
CancelFlagCoherent ==
    /\ status = "cancel_requested" => cancel
    /\ cancel => status \in {"cancel_requested", "running"}

\* While a stop request stands, each run starts at most one more phase: the
\* one whose check came before the request.
CancelStopsRuns == \A s \in Submissions : late[s] <= 1

\* A live row has a handler or a run that will still give a verdict, unless a
\* process was lost.
LiveJobIsOwed ==
    status \in LiveStatuses =>
        \E s \in Submissions : pc[s] \in Active \cup {"lost"} \/ s \in failing

\* A job that was submitted once and never deleted shows "succeeded" only if
\* every step of its plan that has a phase row passed.
SuccessMeansPlanPassed ==
    status = "succeeded" /\ ~disturbed =>
        \A i \in 1..Len(Plan) :
            Plan[i] \in Registered => phases[Plan[i]] = "passed"

\* A verdict of such a job is final: no late step of the run changes the row
\* or its phases after it, and nothing but a new POST or a DELETE ever does.
KeepVerdict ==
    status \in {"succeeded", "failed", "cancelled"} /\ ~disturbed =>
        disturbed' \/ UNCHANGED <<jobVars, phases>>
VerdictIsFinal == [][KeepVerdict]_vars

\* The service keeps its promise to whoever polls the row; with FairSpec every
\* submission it took is settled, unless a process was lost.
Promise == INSTANCE JobPromise WITH
    shown <- status,
    owed  <- {s \in Submissions : pc[s] \in Active \/ s \in failing},
    lost  <- {s \in Submissions : pc[s] = "lost"}

KeepsPromise == Promise!PromiseSafety
KeepsPromiseLive == Promise!PromiseSpec

=============================================================================
