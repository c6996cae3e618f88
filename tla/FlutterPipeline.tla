--------------------------- MODULE FlutterPipeline ---------------------------
(***************************************************************************)
(* The full Flutter pipeline, FACTORY_PIPELINE_MODE "full":                *)
(* agents/flutter_factory/orchestrator.py with the checking agents it      *)
(* calls, the rows of job_phase_attempts, and the report files a slug      *)
(* keeps under docs/.                                                      *)
(*                                                                         *)
(* Runs of one slug share the job row, the attempts and the app directory: *)
(* a second POST starts a second run beside the first.  JobLifecycle has   *)
(* the row and the HTTP handlers in full; here the row is what the         *)
(* pipeline asks of it.  An action is one database transaction or one      *)
(* operation on the files, with the control flow up to the next.  The      *)
(* files one agent writes in a row are written at once.                    *)
(***************************************************************************)
EXTENDS Naturals, Sequences, FiniteSets

CONSTANTS
    Runs,         \* the POST requests made for this slug, one run each
    None,         \* the writer of a report no run wrote
    MaxRepair,    \* AppSettings.max_repair_attempts, 2 by default
    Design,       \* phases before 06: 02, 03, 04 and 05 in the code
    Facts,        \* what the tools may say about a source, see FactNames
    MaxFaults     \* bound: exceptions, crashes and requests in a behaviour

FactNames == {"files", "analyze", "tests", "coverage", "backend",
              "acceptance", "build", "format", "devices", "secure"}

ASSUME PipelineAssumption ==
    /\ None \notin Runs
    /\ MaxRepair \in Nat /\ MaxFaults \in Nat
    /\ Design \in Seq({"02_business_analysis", "03_backend_design",
                       "04_architecture_design", "05_uiux_design"})
    /\ Facts \subseteq [FactNames -> BOOLEAN]

Qa     == "07_static_qa"
Repair == "08_refactor_repair"
Review == "11_release_review"

\* Mutant of Plan: no checks after the repair loop.
PlanWithoutRelease == Design \o
    <<"06_flutter_dev", Qa, Repair, "09_runtime_test",
      "10_security_audit", Review, "12_export_package">>

\* run_full_pipeline.
Plan == Design \o
    <<"06_flutter_dev", Qa, Repair, Qa, "09_runtime_test",
      "10_security_audit", Review, "12_export_package">>

Phases == {Plan[i] : i \in 1..Len(Plan)}

VARIABLES
    job,          \* jobs.status, or "absent" without a row
    rows,         \* job_phases.status by phase
    attempts,     \* job_phase_attempts
    tree,         \* the app directory exists
    reports,      \* what the files of docs/ say
    pc,           \* where each run is
    at,           \* index in Plan of the phase a run is in
    rec,          \* should_record of the phase
    num,          \* attempt number of the phase
    sub,          \* attempt number within the repair loop
    round,        \* attempt of the repair loop
    events,       \* the last three events of the repair loop
    outcome,      \* how a run ends
    faults,       \* number of faults and requests so far
    overlapped,   \* observer: runs that shared the slug with another run
    disturbed,    \* observer: runs that met a deleted row or a database error
    late          \* observer: attempts begun since the stop request

vars == <<job, rows, attempts, tree, reports, pc, at, rec, num, sub, round,
          events, outcome, faults, overlapped, disturbed, late>>
stores == <<job, rows, attempts, tree, reports>>
locals == <<at, rec, num, sub, round, events, outcome>>
observers == <<faults, overlapped, disturbed, late>>

ReportNames == {"test", "bugs", "production", "repair", "refactor",
                "runtime", "security", "review"}

\* Places of a run.  Those of Outer are outside every try of the wrapper,
\* or in its except clauses: a database error there leaves it.
Outer == {"upsert", "begin", "insert", "row", "row_failed",
          "close_passed", "close_failed", "close_cancelled"}
Loop  == {"qa_count", "qa_insert", "qa_work", "qa_read", "qa_failed",
          "fix_count", "fix_insert", "fix_work", "fix_read", "fix_failed",
          "history"}
Active == Outer \cup Loop \cup {"work", "after", "gate", "verdict"}
Places == Active \cup {"idle", "queued", "done", "lost"}

PhaseOf(r) == Plan[at[r]]

-----------------------------------------------------------------------------
(* The stores.                                                             *)

\* Mutant of IsCancelRequested: only a status that was already recorded.
IsCancelled == job = "cancelled"

\* is_cancel_requested.
IsCancelRequested == job \in {"cancel_requested", "cancelled"}

\* Mutant of NextAttempt: the rows are counted instead.
AttemptByCount(p) == Cardinality({a \in attempts : a.phase = p}) + 1

\* next_phase_attempt: COALESCE(MAX(attempt), 0) + 1.
NextAttempt(p) ==
    LET numbers == {a.n : a \in {b \in attempts : b.phase = p}} \cup {0}
    IN  (CHOOSE n \in numbers : \A m \in numbers : m <= n) + 1

\* The INSERT of start_phase_attempt, in a transaction of its own.
InsertAttempt(r, p, n) ==
    attempts' = attempts \cup
        {[phase |-> p, n |-> n, run |-> r, status |-> "running"]}

\* The UPDATE of finish_phase_attempt finds every row with the number.
FinishAttempt(p, n, st) ==
    attempts' = {IF a.phase = p /\ a.n = n THEN [a EXCEPT !.status = st]
                                           ELSE a : a \in attempts}

WithDefaults(f) ==
    [p \in Phases |-> IF f[p] = "none" THEN "pending" ELSE f[p]]

\* Report files: status, the run that wrote it, and whether the source is
\* still the one the report is about.
Missing == [status |-> "MISSING", by |-> None, fresh |-> FALSE]
Report(r, ok) ==
    [status |-> IF ok THEN "PASS" ELSE "FAIL", by |-> r, fresh |-> TRUE]

\* The source was rewritten.
Outdated(f) == [name \in ReportNames |-> [f[name] EXCEPT !.fresh = FALSE]]

Pass(name) == reports[name].status = "PASS"

LiveStatuses == {"queued", "running", "cancel_requested"}

Init ==
    /\ job = "absent"
    /\ rows = [p \in Phases |-> "none"]
    /\ attempts = {}
    /\ tree = FALSE
    /\ reports = [name \in ReportNames |-> Missing]
    /\ pc = [r \in Runs |-> "idle"]
    /\ at = [r \in Runs |-> 1]
    /\ rec = [r \in Runs |-> FALSE]
    /\ num = [r \in Runs |-> 0]
    /\ sub = [r \in Runs |-> 0]
    /\ round = [r \in Runs |-> 0]
    /\ events = [r \in Runs |-> <<>>]
    /\ outcome = [r \in Runs |-> "none"]
    /\ faults = 0
    /\ overlapped = {}
    /\ disturbed = {}
    /\ late = [r \in Runs |-> 0]

Goto(r, place) == pc' = [pc EXCEPT ![r] = place]

\* The run raises out of the pipeline, or returns; _run_flutter_job then
\* records the outcome.
End(r, how) ==
    /\ outcome' = [outcome EXCEPT ![r] = how]
    /\ Goto(r, "verdict")

\* Observer: attempts begun while a stop request stands.
Observe(begun) ==
    late' = [r \in Runs |->
                IF job' \notin {"cancel_requested", "cancelled"} THEN 0
                ELSE late[r] + (IF r \in begun THEN 1 ELSE 0)]

-----------------------------------------------------------------------------
(* The job around a run: see JobLifecycle.                                 *)

\* create_generation_job.
Submit(r) ==
    /\ pc[r] = "idle"
    /\ job' = "queued"
    /\ rows' = [p \in Phases |-> "pending"]
    /\ Goto(r, "queued")
    /\ Observe({})
    /\ UNCHANGED <<attempts, tree, reports, locals, faults, overlapped,
                   disturbed>>

\* Observer: the runs at work when r starts know of it, and it of them.
NoteOverlap(r) ==
    LET others == {t \in Runs \ {r} : pc[t] \in Active}
    IN  overlapped' = overlapped \cup others
                      \cup (IF others = {} THEN {} ELSE {r})

\* Mutant of Start: a run that finds a stop request returns.
StartReturns(r) ==
    /\ pc[r] = "queued"
    /\ Goto(r, IF IsCancelRequested THEN "done" ELSE "upsert")
    /\ NoteOverlap(r)
    /\ UNCHANGED <<stores, locals, faults, disturbed, late>>

\* The first check of _run_flutter_job.
Start(r) ==
    /\ pc[r] = "queued"
    /\ \/ IsCancelRequested /\ End(r, "cancelled")
       \/ ~IsCancelRequested /\ Goto(r, "upsert") /\ UNCHANGED outcome
    /\ NoteOverlap(r)
    /\ UNCHANGED <<stores, at, rec, num, sub, round, events, faults,
                   disturbed, late>>

\* The first _upsert_job, which may overwrite a stop request, the
\* directories and initialize_job_phases.  The brief that follows is in
\* JobLifecycle; a stop request met there is met by Begin here.
Upsert(r) ==
    /\ pc[r] = "upsert"
    /\ job' = "running"
    /\ rows' = WithDefaults(rows)
    /\ tree' = TRUE
    /\ Goto(r, "begin")
    /\ Observe({})
    /\ UNCHANGED <<attempts, reports, locals, faults, overlapped, disturbed>>

\* The last check and the last _upsert_job of _run_flutter_job.
Verdict(r) ==
    LET how == IF outcome[r] = "succeeded" /\ IsCancelRequested
               THEN "cancelled" ELSE outcome[r]
    IN  /\ pc[r] = "verdict"
        /\ job' = how
        /\ outcome' = [outcome EXCEPT ![r] = how]
        /\ Goto(r, "done")
        /\ Observe({})
        /\ UNCHANGED <<rows, attempts, tree, reports, at, rec, num, sub,
                       round, events, faults, overlapped, disturbed>>

\* request_job_cancellation.
CancelJob ==
    /\ faults < MaxFaults
    /\ job \in LiveStatuses
    /\ job' = "cancel_requested"
    /\ faults' = faults + 1
    /\ Observe({})
    /\ UNCHANGED <<rows, attempts, tree, reports, pc, locals, overlapped,
                   disturbed>>

\* delete_single_job: the phases go with the row, the attempts stay; purge
\* removes the app directory.
DeleteJob(purge) ==
    /\ faults < MaxFaults
    /\ job # "absent"
    /\ job' = "absent"
    /\ rows' = [p \in Phases |-> "none"]
    /\ tree' = (tree /\ ~purge)
    /\ reports' = IF purge THEN [name \in ReportNames |-> Missing]
                           ELSE reports
    /\ faults' = faults + 1
    /\ disturbed' = {r \in Runs : pc[r] \in Active \cup {"queued"}}
                    \cup disturbed
    /\ Observe({})
    /\ UNCHANGED <<attempts, pc, locals, overlapped>>

-----------------------------------------------------------------------------
(* _run_recorded_phase.                                                    *)

\* _can_record_job and _check_cancellation, two reads of one row, and
\* next_phase_attempt, which reads the numbers.
Begin(r) ==
    /\ pc[r] = "begin"
    /\ rec' = [rec EXCEPT ![r] = job # "absent"]
    /\ \/ /\ IsCancelRequested
          /\ End(r, "cancelled")
          /\ UNCHANGED num
       \/ /\ ~IsCancelRequested
          /\ num' = [num EXCEPT ![r] = NextAttempt(PhaseOf(r))]
          /\ Goto(r, "insert")
          /\ UNCHANGED outcome
    /\ UNCHANGED <<stores, at, sub, round, events, observers>>

Insert(r) ==
    /\ pc[r] = "insert"
    /\ InsertAttempt(r, PhaseOf(r), num[r])
    /\ Goto(r, "row")
    /\ UNCHANGED <<job, rows, tree, reports, locals, faults, overlapped,
                   disturbed>>
    /\ Observe({r})

\* start_phase, pass_phase, fail_phase and cancel_phase: nothing for a job
\* without a row; an exception when the row is gone by now.
WriteRow(r, st, next) ==
    /\ \/ /\ ~rec[r]
          /\ Goto(r, next)
          /\ UNCHANGED <<rows, outcome>>
       \/ /\ rec[r] /\ job # "absent"
          /\ rows' = [WithDefaults(rows) EXCEPT ![PhaseOf(r)] = st]
          /\ Goto(r, next)
          /\ UNCHANGED outcome
       \/ /\ rec[r] /\ job = "absent"
          /\ End(r, "failed")
          /\ UNCHANGED rows
    /\ UNCHANGED <<job, attempts, tree, reports, at, rec, num, sub, round,
                   events, observers>>

StartRow(r) ==
    /\ pc[r] = "row"
    /\ WriteRow(r, "running",
                IF PhaseOf(r) = Repair THEN "qa_count" ELSE "work")

\* The operation returned: the stop request is looked at once more, and the
\* row says what came of the phase.
After(r) ==
    /\ pc[r] = "after"
    /\ \/ IsCancelRequested /\ WriteRow(r, "cancelled", "close_cancelled")
       \/ ~IsCancelRequested /\ WriteRow(r, "passed", "close_passed")

RowFailed(r) ==
    /\ pc[r] = "row_failed"
    /\ WriteRow(r, "failed", "close_failed")

\* Mutant of CloseFailed: the except clause for errors only writes the row.
CloseFailedRow(r) ==
    /\ pc[r] = "close_failed"
    /\ End(r, "failed")
    /\ UNCHANGED <<stores, at, rec, num, sub, round, events, observers>>

CloseFailed(r) ==
    /\ pc[r] = "close_failed"
    /\ FinishAttempt(PhaseOf(r), num[r], "failed")
    /\ End(r, "failed")
    /\ UNCHANGED <<job, rows, tree, reports, at, rec, num, sub, round,
                   events, observers>>

\* Mutant of CloseCancelled: the status of the job instead of the phase's.
CloseStopping(r) ==
    /\ pc[r] = "close_cancelled"
    /\ FinishAttempt(PhaseOf(r), num[r], "cancel_requested")
    /\ End(r, "cancelled")
    /\ UNCHANGED <<job, rows, tree, reports, at, rec, num, sub, round,
                   events, observers>>

CloseCancelled(r) ==
    /\ pc[r] = "close_cancelled"
    /\ FinishAttempt(PhaseOf(r), num[r], "cancelled")
    /\ End(r, "cancelled")
    /\ UNCHANGED <<job, rows, tree, reports, at, rec, num, sub, round,
                   events, observers>>

\* The phase is over; run_full_pipeline goes on.
ClosePassed(r) ==
    /\ pc[r] = "close_passed"
    /\ FinishAttempt(PhaseOf(r), num[r], "passed")
    /\ \/ /\ at[r] = Len(Plan)
          /\ End(r, "succeeded")
          /\ UNCHANGED at
       \/ /\ PhaseOf(r) = Review
          /\ Goto(r, "gate")
          /\ UNCHANGED <<at, outcome>>
       \/ /\ at[r] < Len(Plan) /\ PhaseOf(r) # Review
          /\ at' = [at EXCEPT ![r] = @ + 1]
          /\ Goto(r, "begin")
          /\ UNCHANGED outcome
    /\ UNCHANGED <<job, rows, tree, reports, rec, num, sub, round, events,
                   observers>>

-----------------------------------------------------------------------------
(* The operations of the phases.                                           *)

\* An operation that only writes reports.
Writes(r, written) ==
    reports' = [name \in ReportNames |->
                   IF name \in DOMAIN written THEN Report(r, written[name])
                                              ELSE reports[name]]

\* _render_test_report.
TestVerdict(f, release) ==
    f.files /\ f.analyze /\ f.tests /\ (release => f.build)

\* _render_bug_list: the commands and the backend tests found nothing.
NoBugs(f, release) == TestVerdict(f, release) /\ f.backend

\* The gates of _render_production_qa_report.
ProductionVerdict(f, release) ==
    /\ f.files /\ f.analyze /\ f.tests /\ f.coverage /\ f.backend
    /\ f.acceptance
    /\ release /\ f.build

\* run_qa_checks.
RunQaChecks(r, release) ==
    /\ tree
    /\ \E f \in Facts :
          Writes(r, [test       |-> TestVerdict(f, release),
                     bugs       |-> NoBugs(f, release),
                     production |-> ProductionVerdict(f, release)])
    /\ UNCHANGED tree

\* write_flutter_source makes its directories itself and needs no document.
WriteSource ==
    /\ tree' = TRUE
    /\ reports' = Outdated(reports)

\* _render_report of the refactor agent.
RefactorVerdict(f) == f.format /\ f.analyze

\* run_refactor formats the source, which outdates every other report.
RunRefactor(r) ==
    /\ tree
    /\ reports["bugs"].status # "MISSING"
    /\ \E f \in Facts :
          reports' = [Outdated(reports) EXCEPT !["refactor"] =
                         Report(r, RefactorVerdict(f))]
    /\ UNCHANGED tree

\* _runtime_status: devices are listed and the debug build succeeds.
RuntimeVerdict(f) == f.devices /\ f.build

\* _status of the security agent: no finding is a blocker.
SecurityVerdict(f) == f.secure

\* generate_review_documents: a production or security report that is not
\* there has the status UNKNOWN, which is accepted.
ReviewVerdict ==
    /\ Pass("test") /\ Pass("refactor") /\ Pass("runtime")
    /\ \A name \in {"production", "security"} :
          reports[name].status \in {"PASS", "MISSING"}
    /\ Pass("bugs")

\* The agents of 02 to 05 write documents; 03 also writes and tests the
\* backend.
WriteDesign == tree /\ UNCHANGED <<tree, reports>>

RunRuntimeVerification(r) ==
    /\ tree
    /\ \E f \in Facts : Writes(r, [runtime |-> RuntimeVerdict(f)])
    /\ UNCHANGED tree

WriteSecurityDocuments(r) ==
    /\ tree
    /\ \E f \in Facts : Writes(r, [security |-> SecurityVerdict(f)])
    /\ UNCHANGED tree

WriteReviewDocuments(r) ==
    /\ tree
    /\ Writes(r, [review |-> ReviewVerdict])
    /\ UNCHANGED tree

\* The archive is made of whatever is in the directory.
ExportSourceArchive == tree /\ UNCHANGED <<tree, reports>>

\* The operation of a phase other than the repair loop.  Static QA builds a
\* release only after the loop.
Operation(r) ==
    LET p == PhaseOf(r)
    IN  \/ at[r] <= Len(Design) /\ WriteDesign
        \/ p = "06_flutter_dev" /\ WriteSource
        \/ p = Qa /\ RunQaChecks(r, Plan[at[r] - 1] = Repair)
        \/ p = "09_runtime_test" /\ RunRuntimeVerification(r)
        \/ p = "10_security_audit" /\ WriteSecurityDocuments(r)
        \/ p = Review /\ WriteReviewDocuments(r)
        \/ p = "12_export_package" /\ ExportSourceArchive

Work(r) ==
    /\ pc[r] = "work"
    /\ Operation(r)
    /\ Goto(r, "after")
    /\ UNCHANGED <<job, rows, attempts, locals, observers>>

-----------------------------------------------------------------------------
(* _run_repair_loop, the operation of phase 08.                            *)

QaCount(r) ==
    /\ pc[r] = "qa_count"
    /\ sub' = [sub EXCEPT ![r] = NextAttempt(Qa)]
    /\ Goto(r, "qa_insert")
    /\ UNCHANGED <<stores, at, rec, num, round, events, outcome, observers>>

FixCount(r) ==
    /\ pc[r] = "fix_count"
    /\ sub' = [sub EXCEPT ![r] = NextAttempt(Repair)]
    /\ Goto(r, "fix_insert")
    /\ UNCHANGED <<stores, at, rec, num, round, events, outcome, observers>>

\* The attempt of a step of the loop is inserted.
InsertStep(r, place, p, next) ==
    /\ pc[r] = place
    /\ InsertAttempt(r, p, sub[r])
    /\ Goto(r, next)
    /\ UNCHANGED <<job, rows, tree, reports, locals, faults, overlapped,
                   disturbed>>
    /\ Observe({r})

QaInsert(r)  == InsertStep(r, "qa_insert", Qa, "qa_work")
FixInsert(r) == InsertStep(r, "fix_insert", Repair, "fix_work")

\* Mutant of QaWork: the loop tests the release build too.
QaWorkRelease(r) ==
    /\ pc[r] = "qa_work"
    /\ RunQaChecks(r, TRUE)
    /\ Goto(r, "qa_read")
    /\ UNCHANGED <<job, rows, attempts, locals, observers>>

QaWork(r) ==
    /\ pc[r] = "qa_work"
    /\ RunQaChecks(r, FALSE)
    /\ Goto(r, "qa_read")
    /\ UNCHANGED <<job, rows, attempts, locals, observers>>

FixWork(r) ==
    /\ pc[r] = "fix_work"
    /\ RunRefactor(r)
    /\ Goto(r, "fix_read")
    /\ UNCHANGED <<job, rows, attempts, locals, observers>>

\* One more event; _write_repair_history looks at the last three.
LogEvent(r, st) ==
    LET all == Append(events[r], st)
    IN  events' = [events EXCEPT ![r] =
                      IF Len(all) > 3 THEN Tail(all) ELSE all]

\* Mutant of EndRounds: the last round is followed by a refactoring as well.
EndRoundsLate(r, passed) == passed \/ round[r] > MaxRepair

EndRounds(r, passed) == passed \/ round[r] >= MaxRepair

\* The statuses are read back from the files and the attempt is finished.
\* After the last round, and without a refactor_report.md of this run or an
\* earlier one, there is one more refactoring.
QaRead(r) ==
    LET passed == Pass("test") /\ Pass("production")
    IN  /\ pc[r] = "qa_read"
        /\ FinishAttempt(Qa, sub[r], IF passed THEN "passed" ELSE "failed")
        /\ LogEvent(r, IF passed THEN "PASS" ELSE "FAIL")
        /\ \/ /\ ~EndRounds(r, passed)
              /\ Goto(r, "fix_count")
              /\ UNCHANGED round
           \/ /\ EndRounds(r, passed)
              /\ reports["refactor"].status = "MISSING"
              /\ round' = [round EXCEPT ![r] = MaxRepair + 1]
              /\ Goto(r, "fix_count")
           \/ /\ EndRounds(r, passed)
              /\ reports["refactor"].status # "MISSING"
              /\ Goto(r, "history")
              /\ UNCHANGED round
        /\ UNCHANGED <<job, rows, tree, reports, at, rec, num, sub, outcome,
                       observers>>

\* A refactoring counts as passed whatever its report says; the one after
\* the loop, in round MaxRepair + 1, leads to the history.
FixRead(r) ==
    /\ pc[r] = "fix_read"
    /\ FinishAttempt(Repair, sub[r], "passed")
    /\ LogEvent(r, reports["refactor"].status)
    /\ \/ /\ round[r] > MaxRepair
          /\ Goto(r, "history")
          /\ UNCHANGED round
       \/ /\ round[r] <= MaxRepair
          /\ round' = [round EXCEPT ![r] = @ + 1]
          /\ Goto(r, "qa_count")
    /\ UNCHANGED <<job, rows, tree, reports, at, rec, num, sub, outcome,
                   observers>>

\* _write_repair_history.
WriteHistory(r) ==
    /\ pc[r] = "history"
    /\ tree
    /\ Writes(r, [repair |-> \A i \in 1..Len(events[r]) :
                                events[r][i] # "FAIL"])
    /\ Goto(r, "after")
    /\ UNCHANGED <<job, rows, attempts, tree, locals, observers>>

\* Mutant of StepFailed: the step is tried again.
StepRetried(r, place, p) ==
    /\ pc[r] = place
    /\ FinishAttempt(p, sub[r], "failed")
    /\ Goto(r, IF p = Qa THEN "qa_work" ELSE "fix_work")
    /\ UNCHANGED <<job, rows, tree, reports, locals, observers>>

\* The except clauses of the loop.
StepFailed(r, place, p) ==
    /\ pc[r] = place
    /\ FinishAttempt(p, sub[r], "failed")
    /\ Goto(r, "row_failed")
    /\ UNCHANGED <<job, rows, tree, reports, locals, observers>>

QaFailed(r)  == StepFailed(r, "qa_failed", Qa)
FixFailed(r) == StepFailed(r, "fix_failed", Repair)

-----------------------------------------------------------------------------
(* The gate.                                                               *)

\* _pipeline_gate_error.
GatePasses == \A name \in ReportNames \ {"bugs"} : Pass(name)

\* Refused, the pipeline raises RuntimeError outside any phase.
Gate(r) ==
    /\ pc[r] = "gate"
    /\ \/ /\ GatePasses
          /\ at' = [at EXCEPT ![r] = @ + 1]
          /\ Goto(r, "begin")
          /\ UNCHANGED outcome
       \/ /\ ~GatePasses
          /\ End(r, "failed")
          /\ UNCHANGED at
    /\ UNCHANGED <<stores, rec, num, sub, round, events, observers>>

-----------------------------------------------------------------------------
(* What goes wrong.                                                        *)

\* The except clause that takes an exception raised at a place.
HandlerOf(place) ==
    CASE place \in {"qa_work", "qa_read"}   -> "qa_failed"
      [] place \in {"fix_work", "fix_read"} -> "fix_failed"
      [] OTHER -> "row_failed"

\* The operation cannot be carried out without its input files.
Impossible(r) ==
    \/ pc[r] = "work" /\ PhaseOf(r) # "06_flutter_dev" /\ ~tree
    \/ pc[r] \in {"qa_work", "history"} /\ ~tree
    \/ pc[r] = "fix_work" /\ (~tree \/ reports["bugs"].status = "MISSING")

InputMissing(r) ==
    /\ Impossible(r)
    /\ Goto(r, HandlerOf(pc[r]))
    /\ UNCHANGED <<stores, locals, observers>>

\* An agent raises, or a database error in the loop or in the last check.
Raises(r) ==
    /\ faults < MaxFaults
    /\ pc[r] \in {"work", "after"} \cup Loop
    /\ Goto(r, HandlerOf(pc[r]))
    /\ faults' = faults + 1
    /\ disturbed' = IF pc[r] \in {"qa_failed", "fix_failed"}
                    THEN disturbed \cup {r} ELSE disturbed
    /\ UNCHANGED <<stores, locals, overlapped, late>>

\* A database error of the wrapper reaches _run_flutter_job.
BookkeepingRaises(r) ==
    /\ faults < MaxFaults
    /\ pc[r] \in Outer \cup {"after"}
    /\ End(r, "failed")
    /\ faults' = faults + 1
    /\ disturbed' = disturbed \cup {r}
    /\ UNCHANGED <<stores, at, rec, num, sub, round, events, overlapped,
                   late>>

\* The process of the run stops.
Dies(r) ==
    /\ faults < MaxFaults
    /\ pc[r] \in Active
    /\ Goto(r, "lost")
    /\ faults' = faults + 1
    /\ UNCHANGED <<stores, locals, overlapped, disturbed, late>>

-----------------------------------------------------------------------------

RunStep(r) ==
    \/ Start(r) \/ Upsert(r) \/ Begin(r) \/ Insert(r) \/ StartRow(r)
    \/ Work(r) \/ After(r) \/ RowFailed(r)
    \/ ClosePassed(r) \/ CloseFailed(r) \/ CloseCancelled(r)
    \/ QaCount(r) \/ QaInsert(r) \/ QaWork(r) \/ QaRead(r) \/ QaFailed(r)
    \/ FixCount(r) \/ FixInsert(r) \/ FixWork(r) \/ FixRead(r) \/ FixFailed(r)
    \/ WriteHistory(r) \/ Gate(r) \/ InputMissing(r)
    \/ Verdict(r)

Fault(r) == Raises(r) \/ BookkeepingRaises(r) \/ Dies(r)

Next ==
    \/ \E r \in Runs : Submit(r) \/ RunStep(r) \/ Fault(r)
    \/ CancelJob
    \/ \E purge \in BOOLEAN : DeleteJob(purge)

Spec == Init /\ [][Next]_vars

\* The thread or worker of a run keeps going; every agent's subprocess has a
\* timeout.  Nothing obliges a user to act or a fault to happen.
FairSpec == Spec /\ \A r \in Runs : WF_vars(RunStep(r))

-----------------------------------------------------------------------------
(* Correctness.                                                            *)

Statuses == {"running", "passed", "failed", "cancelled"}

\* Every variable stays in its range.
TypeOK ==
    /\ job \in LiveStatuses \cup {"absent", "succeeded", "failed", "cancelled"}
    /\ rows \in [Phases -> Statuses \cup {"none", "pending"}]
    /\ attempts \subseteq [phase : Phases, n : Nat, run : Runs,
                           status : Statuses]
    /\ tree \in BOOLEAN
    /\ reports \in [ReportNames -> [status : {"PASS", "FAIL", "MISSING"},
                                    by : Runs \cup {None},
                                    fresh : BOOLEAN]]
    /\ pc \in [Runs -> Places]
    /\ at \in [Runs -> 1..Len(Plan)]
    /\ rec \in [Runs -> BOOLEAN]
    /\ num \in [Runs -> Nat] /\ sub \in [Runs -> Nat]
    /\ round \in [Runs -> 0..MaxRepair + 1]
    /\ events \in [Runs -> Seq({"PASS", "FAIL", "MISSING"})]
    /\ outcome \in [Runs -> {"none", "succeeded", "failed", "cancelled"}]
    /\ faults \in Nat
    /\ overlapped \subseteq Runs /\ disturbed \subseteq Runs
    /\ late \in [Runs -> Nat]

\* The gate decides on reports of this run about the source that would be
\* exported, although the files of earlier runs and rounds stay in docs/.
\* The refactor report may be an earlier run's, and is of an earlier round.
GateIsFresh ==
    \A r \in Runs :
        pc[r] = "gate" /\ r \notin overlapped \cup disturbed =>
            /\ \A name \in ReportNames \ {"refactor"} :
                  reports[name].by = r /\ reports[name].fresh
            /\ reports["refactor"].status # "MISSING"

\* The attempts of a phase are numbered 1, 2, ... without a gap, over runs
\* and deletions of the row, and a number is given twice only to runs that
\* read the last one at the same time.
AttemptNumbers ==
    \A a \in attempts :
        /\ \A k \in 1..a.n : \E b \in attempts : b.phase = a.phase /\ b.n = k
        /\ \A b \in attempts :
              a.phase = b.phase /\ a.n = b.n /\ a # b =>
                  a.run # b.run /\ {a.run, b.run} \subseteq overlapped

\* A run that ended leaves no attempt "running", unless the row was deleted
\* under it, the database failed or its process was lost.
NoAttemptLeftOpen ==
    \A a \in attempts :
        pc[a.run] = "done" /\ a.run \notin disturbed => a.status # "running"

\* A stop request is heard when the phase at hand ends: at most one more
\* phase begins, and if it is the repair loop, its tests and refactorings.
StopIsHeard == \A r \in Runs : late[r] <= 1 + 2 * (MaxRepair + 1)

\* A run tests its source at most MaxRepair + 3 times and refactors it at
\* most MaxRepair times, or once if there is no report yet.  Each attempt of
\* the loop has a row, beside the row of the phase itself.
RepairBudget ==
    \A r \in Runs \ disturbed :
        LET of(p) == Cardinality({a \in attempts : a.run = r /\ a.phase = p})
        IN  /\ of(Qa) <= MaxRepair + 3
            /\ of(Repair) <= 1 + (IF MaxRepair = 0 THEN 1 ELSE MaxRepair)

\* A run that was submitted ends, or its process was lost.
Terminates ==
    \A r \in Runs : pc[r] = "queued" ~> pc[r] \in {"done", "lost"}

\* A live row has a run that will still give a verdict, unless a process was
\* lost: whatever a phase, the loop or the gate raises, the wrapper of the
\* pipeline records an outcome.
LiveJobIsOwed ==
    job \in LiveStatuses =>
        \E r \in Runs : pc[r] \in Active \cup {"queued", "lost"}

\* The full pipeline keeps the promise of the job service, as the modular
\* one does in JobLifecycle: see JobPromise.
Promise == INSTANCE JobPromise WITH
    Submissions <- Runs,
    shown <- job,
    owed  <- {r \in Runs : pc[r] \in Active \cup {"queued"}},
    lost  <- {r \in Runs : pc[r] = "lost"}

KeepsPromise == Promise!PromiseSafety

\* Refuted, see the README: a run of which every check passed in the end is
\* not refused.  The checks of the repair loop never build a release, which
\* the production gates ask for, so every repair history ends in a FAIL.
CleanRunIsExported ==
    \A r \in Runs :
        pc[r] = "gate" /\ r \notin overlapped \cup disturbed
            /\ (\A name \in ReportNames \ {"repair"} : Pass(name))
                => GatePasses

\* It is so for every run that has the slug to itself: no checks pass in the
\* loop, the repair history ends in a FAIL, and the gate refuses the run,
\* whatever the tools say and however many rounds there are.
AloneIsRefused ==
    \A r \in Runs : pc[r] = "gate" /\ r \notin overlapped => ~GatePasses

=============================================================================
