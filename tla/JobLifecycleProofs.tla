------------------------- MODULE JobLifecycleProofs -------------------------
(***************************************************************************)
(* Theorems about JobLifecycle for any set of submissions, any plan and    *)
(* either queue backend.                                                   *)
(***************************************************************************)
EXTENDS JobLifecycle, FiniteSetTheorems, TLAPS

\* Passed counts a subset of the finite set of registered phases.
LEMMA PassedType == \A f : Passed(f) \in Nat
<1> TAKE f
<1>1. IsFiniteSet({p \in Registered : f[p] = "passed"})
    BY JobAssumption, FS_Subset
<1> QED  BY <1>1, FS_CardinalityType DEF Passed

\* The ranges every action writes from.
LEMMA Ranges ==
    /\ "posted" \in Places /\ "done" \in Places /\ "lost" \in Places
    /\ Body \subseteq Places /\ Handlers \subseteq Places
    /\ "step_run" \in Places
    /\ \A i : LoopFrom(i) \in {"step_check", "check_end"}
BY DEF Places, Active, Running, Body, Handlers, LoopFrom

\* Recording a phase keeps the two phase variables in their ranges.
LEMMA RecordPhaseType ==
    ASSUME TypeOK, NEW p, NEW st \in PhaseStatuses, RecordPhase(p, st)
    PROVE  /\ phases' \in [Registered -> PhaseStatuses \cup {"none"}]
           /\ progress' \in Nat
<1>1. WithDefaults(phases) \in [Registered -> PhaseStatuses \cup {"none"}]
    BY DEF TypeOK, WithDefaults, PhaseStatuses
<1> QED  BY <1>1, PassedType DEF RecordPhase, TypeOK

LEMMA InitializeType ==
    ASSUME TypeOK, InitializePhases
    PROVE  /\ phases' \in [Registered -> PhaseStatuses \cup {"none"}]
           /\ progress' \in Nat
BY PassedType DEF TypeOK, InitializePhases, WithDefaults, PhaseStatuses

\* The observer counts with natural numbers.
LEMMA ObserveType ==
    ASSUME TypeOK, NEW S, Observe(S)
    PROVE  late' \in [Submissions -> Nat]
BY DEF TypeOK, Observe

\* A step of the loop and of the brief leaves everything in range.
LEMMA WritePhaseType ==
    ASSUME TypeOK, NEW s \in Submissions, NEW place, NEW p,
           NEW st \in PhaseStatuses, NEW ok \in Places, NEW raised \in Places,
           WritePhase(s, place, p, st, ok, raised)
    PROVE  /\ UNCHANGED <<jobVars, snap, failing, disturbed>>
           /\ phases' \in [Registered -> PhaseStatuses \cup {"none"}]
           /\ progress' \in Nat
           /\ pc' \in [Submissions -> Places]
<1>1. CASE Present /\ RecordPhase(p, st) /\ Goto(s, ok)
    BY <1>1, RecordPhaseType DEF WritePhase, Goto, TypeOK, jobVars
<1>2. CASE ~Present /\ UNCHANGED phaseVars /\ Goto(s, raised)
    BY <1>2 DEF WritePhase, Goto, TypeOK, jobVars, phaseVars
<1> QED  BY <1>1, <1>2 DEF WritePhase

LEMMA CheckType ==
    ASSUME TypeOK, NEW s \in Submissions, NEW place, NEW stop \in Places,
           NEW continue \in Places, Check(s, place, stop, continue)
    PROVE  TypeOK'
BY DEF TypeOK, Check, Goto, jobVars, phaseVars

LEMMA VerdictType ==
    ASSUME TypeOK, NEW s \in Submissions, NEW place,
           NEW st \in JobStatuses, Verdict(s, place, st)
    PROVE  TypeOK'
BY ObserveType, Ranges
DEF TypeOK, Verdict, UpsertJob, Goto, phaseVars

\* A run's own steps keep every variable in its range.
LEMMA RunStepType ==
    ASSUME TypeOK, NEW s \in Submissions, RunStep(s)
    PROVE  TypeOK'
<1> USE Ranges
<1>1. CASE Enqueue(s)
    BY <1>1 DEF Enqueue, Goto, TypeOK, jobVars, phaseVars, Body
<1>2. CASE CheckStart(s)
    BY <1>2, CheckType DEF CheckStart, Body, Handlers
<1>3. CASE ReadFlag(s)
    BY <1>3 DEF ReadFlag, Goto, TypeOK, jobVars, phaseVars, Body
<1>4. CASE WriteRunning(s)
    BY <1>4, ObserveType
    DEF WriteRunning, UpsertJob, Goto, TypeOK, phaseVars, Body, JobStatuses
<1>5. CASE InitPhases(s)
    <2>1. phases' \in [Registered -> PhaseStatuses \cup {"none"}]
          /\ progress' \in Nat
        BY <1>5, InitializeType DEF InitPhases, TypeOK, phaseVars
    <2> QED
        BY <1>5, <2>1
        DEF InitPhases, Goto, TypeOK, jobVars, Body, Handlers
<1>6. CASE CheckBrief(s)
    BY <1>6, CheckType DEF CheckBrief, Body, Handlers
<1>7. CASE StartBrief(s)
    BY <1>7, WritePhaseType, ObserveType
    DEF StartBrief, TypeOK, PhaseStatuses, Body, Handlers, jobVars
<1>8. CASE PassBrief(s)
    BY <1>8, WritePhaseType
    DEF PassBrief, TypeOK, PhaseStatuses, Body, Handlers, jobVars
<1>9. CASE CheckPipe(s)
    BY <1>9
    DEF CheckPipe, Goto, TypeOK, jobVars, phaseVars, Body, Handlers
<1>10. CASE StepCheck(s)
    BY <1>10, CheckType DEF StepCheck, Body
<1>11. CASE StepCancel(s)
    BY <1>11, WritePhaseType
    DEF StepCancel, TypeOK, PhaseStatuses, Body, Handlers, jobVars
<1>12. CASE StepStart(s)
    BY <1>12, WritePhaseType, ObserveType
    DEF StepStart, TypeOK, PhaseStatuses, Body, Handlers, jobVars
<1>13. CASE StepPass(s)
    <2>1. step' \in [Submissions -> Nat]
        BY <1>13 DEF StepPass, TypeOK
    <2> QED
        BY <1>13, <2>1, WritePhaseType
        DEF StepPass, TypeOK, PhaseStatuses, Body, jobVars
<1>14. CASE StepFailed(s)
    BY <1>14, WritePhaseType
    DEF StepFailed, TypeOK, PhaseStatuses, Body, Handlers, jobVars
<1>15. CASE CheckEnd(s)
    BY <1>15, CheckType DEF CheckEnd, Body, Handlers
<1>16. CASE WriteSucceeded(s) \/ WriteCancelled(s) \/ WriteFailed(s)
    BY <1>16, VerdictType
    DEF WriteSucceeded, WriteCancelled, WriteFailed, JobStatuses
<1> QED
    BY <1>1, <1>2, <1>3, <1>4, <1>5, <1>6, <1>7, <1>8, <1>9, <1>10, <1>11,
       <1>12, <1>13, <1>14, <1>15, <1>16 DEF RunStep

\* So do faults.
LEMMA FaultType ==
    ASSUME TypeOK, NEW s \in Submissions, Fault(s)
    PROVE  TypeOK'
<1> USE Ranges
<1>1. CASE ThreadNotStarted(s) \/ HandlerRaises(s) \/ WorkerStops(s)
    BY <1>1
    DEF ThreadNotStarted, HandlerRaises, WorkerStops, Goto, TypeOK, jobVars,
        phaseVars
<1>2. CASE EnqueueRaises(s)
    BY <1>2
    DEF EnqueueRaises, Goto, TypeOK, jobVars, phaseVars, Body
<1>3. CASE StepRaises(s) \/ Raise(s)
    BY <1>3
    DEF StepRaises, Raise, Goto, TypeOK, jobVars, phaseVars, Body, Handlers
<1>4. CASE EnqueueHandlerRaises(s)
    BY <1>4 DEF EnqueueHandlerRaises, Goto, TypeOK, jobVars, phaseVars
<1> QED  BY <1>1, <1>2, <1>3, <1>4 DEF Fault

LEMMA NextType == TypeOK /\ [Next]_vars => TypeOK'
<1> SUFFICES ASSUME TypeOK, [Next]_vars PROVE TypeOK'
    OBVIOUS
<1> USE Ranges
<1>1. ASSUME NEW s \in Submissions, Submit(s) PROVE TypeOK'
    <2>1. phases' \in [Registered -> PhaseStatuses \cup {"none"}]
        BY <1>1 DEF Submit, PhaseStatuses
    <2> QED
        BY <1>1, <2>1, ObserveType
        DEF Submit, Goto, TypeOK, JobStatuses
<1>2. ASSUME NEW s \in Submissions, RunStep(s) PROVE TypeOK'
    BY <1>2, RunStepType
<1>3. ASSUME NEW s \in Submissions, RecordEnqueueFailure(s) PROVE TypeOK'
    BY <1>3, ObserveType
    DEF RecordEnqueueFailure, UpsertJob, TypeOK, JobStatuses, phaseVars
<1>4. ASSUME NEW s \in Submissions, Fault(s) PROVE TypeOK'
    BY <1>4, FaultType
<1>5. CASE CancelJob
    BY <1>5, InitializeType, ObserveType
    DEF CancelJob, TypeOK, JobStatuses
<1>6. CASE DeleteJob
    BY <1>6, ObserveType DEF DeleteJob, TypeOK
<1>7. CASE ReadJob
    BY <1>7, InitializeType DEF ReadJob, TypeOK, jobVars
<1>8. CASE DashboardStops
    BY <1>8 DEF DashboardStops, TypeOK, jobVars, phaseVars
<1>9. CASE UNCHANGED vars
    BY <1>9 DEF vars, TypeOK
<1> QED
    BY <1>1, <1>2, <1>3, <1>4, <1>5, <1>6, <1>7, <1>8, <1>9 DEF Next

LEMMA TypeInit == Init => TypeOK
<1> SUFFICES ASSUME Init PROVE TypeOK
    OBVIOUS
<1>1. pc \in [Submissions -> Places]
    BY DEF Init, Places
<1>2. /\ phases \in [Registered -> PhaseStatuses \cup {"none"}]
      /\ step \in [Submissions -> Nat]
      /\ snap \in [Submissions -> BOOLEAN]
      /\ late \in [Submissions -> Nat]
    BY DEF Init
<1> QED  BY <1>1, <1>2 DEF Init, TypeOK

\* Every variable of the job store and of its runs stays in its range.
THEOREM TypeCorrect == Spec => []TypeOK
BY TypeInit, NextType, PTL DEF Spec

-----------------------------------------------------------------------------
(* The row and its phases.                                                 *)

\* How a step may write the row: not at all, by an upsert on behalf of a run,
\* or by one of the three handlers that replace, stop or delete the job.
Upserts ==
    \E st \in {"running", "succeeded", "failed", "cancelled"}, b \in BOOLEAN :
        /\ UpsertJob(st, b, st = "succeeded")
        /\ b => st = "running"

RowStep ==
    \/ UNCHANGED <<status, cancel, export, phases, progress>>
    \/ /\ Present /\ UNCHANGED <<status, cancel, export>>
       /\ progress' = Passed(phases')
    \/ Upserts
    \/ \E s \in Submissions : Submit(s)
    \/ CancelJob
    \/ DeleteJob

LEMMA RunStepRow ==
    ASSUME TypeOK, NEW s \in Submissions, RunStep(s)
    PROVE  RowStep
<1> USE DEF jobVars, phaseVars
<1>1. CASE \/ Enqueue(s) \/ CheckStart(s) \/ ReadFlag(s) \/ CheckBrief(s)
           \/ CheckPipe(s) \/ StepCheck(s) \/ CheckEnd(s)
    BY <1>1
    DEF RowStep, Enqueue, CheckStart, ReadFlag, CheckBrief, CheckPipe,
        StepCheck, CheckEnd, Check
<1>2. CASE WriteRunning(s)
    <2>1. snap[s] \in BOOLEAN
        BY DEF TypeOK
    <2> QED  BY <1>2, <2>1 DEF WriteRunning, UpsertJob, RowStep, Upserts
<1>3. CASE InitPhases(s)
    BY <1>3 DEF InitPhases, InitializePhases, RowStep
<1>4. CASE \/ StartBrief(s) \/ PassBrief(s) \/ StepCancel(s) \/ StepStart(s)
           \/ StepPass(s) \/ StepFailed(s)
    BY <1>4
    DEF StartBrief, PassBrief, StepCancel, StepStart, StepPass, StepFailed,
        WritePhase, RecordPhase, RowStep
<1>5. CASE WriteSucceeded(s) \/ WriteCancelled(s) \/ WriteFailed(s)
    BY <1>5
    DEF WriteSucceeded, WriteCancelled, WriteFailed, Verdict, UpsertJob,
        RowStep, Upserts
<1> QED  BY <1>1, <1>2, <1>3, <1>4, <1>5 DEF RunStep

LEMMA NextRow == TypeOK /\ [Next]_vars => RowStep
<1> SUFFICES ASSUME TypeOK, [Next]_vars PROVE RowStep
    OBVIOUS
<1> USE DEF jobVars, phaseVars
<1>1. ASSUME NEW s \in Submissions, Submit(s) PROVE RowStep
    BY <1>1 DEF RowStep
<1>2. ASSUME NEW s \in Submissions, RunStep(s) PROVE RowStep
    BY <1>2, RunStepRow
<1>3. ASSUME NEW s \in Submissions, RecordEnqueueFailure(s) PROVE RowStep
    BY <1>3 DEF RecordEnqueueFailure, UpsertJob, RowStep, Upserts
<1>4. ASSUME NEW s \in Submissions, Fault(s) PROVE RowStep
    BY <1>4
    DEF Fault, ThreadNotStarted, EnqueueRaises, StepRaises, Raise,
        HandlerRaises, EnqueueHandlerRaises, WorkerStops, RowStep
<1>5. CASE CancelJob \/ DeleteJob
    BY <1>5 DEF RowStep
<1>6. CASE ReadJob
    BY <1>6 DEF ReadJob, InitializePhases, RowStep
<1>7. CASE DashboardStops
    BY <1>7 DEF DashboardStops, RowStep
<1>8. CASE UNCHANGED vars
    BY <1>8 DEF vars, RowStep
<1> QED
    BY <1>1, <1>2, <1>3, <1>4, <1>5, <1>6, <1>7, <1>8 DEF Next

\* Nothing passed yet counts as no progress.
LEMMA NothingPassed ==
    ASSUME NEW f, \A p \in Registered : f[p] # "passed"
    PROVE  Passed(f) = 0
<1>1. {p \in Registered : f[p] = "passed"} = {}
    OBVIOUS
<1> QED  BY <1>1, FS_EmptySet DEF Passed

\* The stored progress never drifts from the phases it summarises.
THEOREM ProgressCorrect == Spec => []ProgressMatchesPhases
<1>1. Init => ProgressMatchesPhases
    BY NothingPassed DEF Init, ProgressMatchesPhases
<1>2. TypeOK /\ ProgressMatchesPhases /\ [Next]_vars => ProgressMatchesPhases'
    <2> SUFFICES ASSUME TypeOK, ProgressMatchesPhases, [Next]_vars
                 PROVE  progress' = Passed(phases')
        BY DEF ProgressMatchesPhases, Passed
    <2>1. CASE UNCHANGED <<status, cancel, export, phases, progress>> \/ Upserts
        BY <2>1 DEF Upserts, UpsertJob, phaseVars, ProgressMatchesPhases
    <2>2. ASSUME NEW s \in Submissions, Submit(s)
          PROVE  progress' = Passed(phases')
        BY <2>2, NothingPassed DEF Submit
    <2>3. CASE CancelJob
        BY <2>3 DEF CancelJob, InitializePhases
    <2>4. CASE DeleteJob
        BY <2>4, NothingPassed DEF DeleteJob
    <2> QED  BY <2>1, <2>2, <2>3, <2>4, NextRow DEF RowStep
<1> QED  BY <1>1, <1>2, TypeCorrect, PTL DEF Spec

\* A missing row has no flag and no phases, and a download path is stored
\* exactly while the job shows "succeeded".
THEOREM RowCorrect == Spec => []RowCoherent
<1> USE DEF RowCoherent, Present
<1>1. Init => RowCoherent
    BY DEF Init
<1>2. TypeOK /\ RowCoherent /\ [Next]_vars => RowCoherent'
    <2> SUFFICES ASSUME TypeOK, RowCoherent, [Next]_vars PROVE RowCoherent'
        OBVIOUS
    <2>1. CASE \/ UNCHANGED <<status, cancel, export, phases, progress>>
               \/ Present /\ UNCHANGED <<status, cancel, export>>
        BY <2>1
    <2>2. CASE Upserts
        BY <2>2 DEF Upserts, UpsertJob
    <2>3. ASSUME NEW s \in Submissions, Submit(s) PROVE RowCoherent'
        BY <2>3 DEF Submit
    <2>4. CASE CancelJob
        BY <2>4 DEF CancelJob, LiveStatuses
    <2>5. CASE DeleteJob
        BY <2>5 DEF DeleteJob
    <2> QED  BY <2>1, <2>2, <2>3, <2>4, <2>5, NextRow DEF RowStep
<1> QED  BY <1>1, <1>2, TypeCorrect, PTL DEF Spec

\* Flag and status agree whichever handlers and runs interleave.
THEOREM CancelFlagCorrect == Spec => []CancelFlagCoherent
<1> USE DEF CancelFlagCoherent
<1>1. Init => CancelFlagCoherent
    BY DEF Init
<1>2. TypeOK /\ CancelFlagCoherent /\ [Next]_vars => CancelFlagCoherent'
    <2> SUFFICES ASSUME TypeOK, CancelFlagCoherent, [Next]_vars
                 PROVE  CancelFlagCoherent'
        OBVIOUS
    <2>1. CASE UNCHANGED <<status, cancel, export>>
        BY <2>1
    <2>2. CASE Upserts
        BY <2>2 DEF Upserts, UpsertJob
    <2>3. ASSUME NEW s \in Submissions, Submit(s) PROVE CancelFlagCoherent'
        BY <2>3 DEF Submit
    <2>4. CASE CancelJob \/ DeleteJob
        BY <2>4 DEF CancelJob, DeleteJob
    <2> QED  BY <2>1, <2>2, <2>3, <2>4, NextRow DEF RowStep
<1> QED  BY <1>1, <1>2, TypeCorrect, PTL DEF Spec

-----------------------------------------------------------------------------
(* A standing stop request.                                                *)

Starting == {"start_brief", "step_start"}

\* CancelStopsRuns is not inductive: a run that already started a phase must
\* not be about to start another.  It is not, because between two phases it
\* checks, and a check that lets it through found no request standing, when
\* nothing is counted.
CancelInv ==
    /\ \A s \in Submissions : late[s] <= 1
    /\ \A s \in Submissions : pc[s] \in Starting => late[s] = 0
    /\ ~IsCancelRequested => \A s \in Submissions : late[s] = 0

\* How the observer moves: it stands still with the row, forgets, or counts
\* a run that leaves a starting place; and a run reaches a starting place
\* only by a check that found no request.
LateStep ==
    /\ \/ UNCHANGED <<status, cancel, late>>
       \/ Observe({})
       \/ \E s \in Submissions :
             Observe({s}) /\ pc[s] \in Starting /\ pc'[s] \notin Starting
    /\ \A t \in Submissions :
          pc'[t] \in Starting =>
             \/ pc[t] = pc'[t]
             \/ ~IsCancelRequested /\ UNCHANGED <<status, cancel, late>>

LEMMA RunStepLate ==
    ASSUME TypeOK, NEW s \in Submissions, RunStep(s)
    PROVE  LateStep
<1> USE DEF LateStep, Starting, Goto, jobVars
<1> pc \in [Submissions -> Places]
    BY DEF TypeOK
<1>1. CASE CheckStart(s) \/ CheckBrief(s) \/ StepCheck(s) \/ CheckEnd(s)
    BY <1>1 DEF CheckStart, CheckBrief, StepCheck, CheckEnd, Check
<1>2. CASE CheckPipe(s)
    BY <1>2, Ranges DEF CheckPipe
<1>3. CASE Enqueue(s) \/ ReadFlag(s)
    BY <1>3 DEF Enqueue, ReadFlag
<1>4. CASE WriteRunning(s)
    BY <1>4 DEF WriteRunning
<1>5. CASE InitPhases(s)
    BY <1>5 DEF InitPhases
<1>6. CASE StartBrief(s)
    BY <1>6 DEF StartBrief, WritePhase
<1>7. CASE StepStart(s)
    BY <1>7 DEF StepStart, WritePhase
<1>8. CASE PassBrief(s) \/ StepCancel(s) \/ StepPass(s) \/ StepFailed(s)
    BY <1>8, Ranges DEF PassBrief, StepCancel, StepPass, StepFailed, WritePhase
<1>9. CASE WriteSucceeded(s) \/ WriteCancelled(s) \/ WriteFailed(s)
    BY <1>9 DEF WriteSucceeded, WriteCancelled, WriteFailed, Verdict
<1> QED
    BY <1>1, <1>2, <1>3, <1>4, <1>5, <1>6, <1>7, <1>8, <1>9 DEF RunStep

LEMMA NextLate == TypeOK /\ [Next]_vars => LateStep
<1> SUFFICES ASSUME TypeOK, [Next]_vars PROVE LateStep
    OBVIOUS
<1> USE DEF Starting, Goto, jobVars
<1> pc \in [Submissions -> Places]
    BY DEF TypeOK
<1>1. ASSUME NEW s \in Submissions, Submit(s) PROVE LateStep
    BY <1>1 DEF Submit, LateStep
<1>2. ASSUME NEW s \in Submissions, RunStep(s) PROVE LateStep
    BY <1>2, RunStepLate
<1>3. ASSUME NEW s \in Submissions, RecordEnqueueFailure(s) PROVE LateStep
    BY <1>3 DEF RecordEnqueueFailure, LateStep
<1>4. ASSUME NEW s \in Submissions, Fault(s) PROVE LateStep
    BY <1>4
    DEF Fault, ThreadNotStarted, EnqueueRaises, StepRaises, Raise,
        HandlerRaises, EnqueueHandlerRaises, WorkerStops, LateStep
<1>5. CASE CancelJob \/ DeleteJob
    BY <1>5 DEF CancelJob, DeleteJob, LateStep
<1>6. CASE ReadJob
    BY <1>6 DEF ReadJob, LateStep
<1>7. CASE DashboardStops
    BY <1>7 DEF DashboardStops, LateStep
<1>8. CASE UNCHANGED vars
    BY <1>8 DEF vars, LateStep
<1> QED
    BY <1>1, <1>2, <1>3, <1>4, <1>5, <1>6, <1>7, <1>8 DEF Next

\* However requests, runs, resubmissions and faults interleave, a run starts
\* at most one phase while a stop request stands.
THEOREM CancelBound == Spec => []CancelStopsRuns
<1>1. Init => CancelInv
    BY DEF Init, CancelInv, Starting
<1>2. TypeOK /\ CancelInv /\ [Next]_vars => CancelInv'
    <2> SUFFICES ASSUME TypeOK, CancelInv, LateStep PROVE CancelInv'
        BY NextLate
    <2> USE DEF CancelInv
    <2> late \in [Submissions -> Nat]
        BY DEF TypeOK
    <2>1. CASE UNCHANGED <<status, cancel, late>>
        BY <2>1 DEF LateStep, IsCancelRequested
    <2>2. CASE Observe({})
        <3>1. \A t \in Submissions : late'[t] <= late[t]
            BY <2>2 DEF Observe
        <3>2. late' \in [Submissions -> Nat]
            BY <2>2, ObserveType
        <3>3. ~IsCancelRequested' => \A t \in Submissions : late'[t] = 0
            BY <2>2 DEF Observe
        <3>4. \A t \in Submissions : pc'[t] \in Starting => late[t] = 0
            BY DEF LateStep
        <3> QED  BY <3>1, <3>2, <3>3, <3>4
    <2>3. ASSUME NEW s \in Submissions, Observe({s}), pc[s] \in Starting,
                 pc'[s] \notin Starting
          PROVE  CancelInv'
        <3>1. \A t \in Submissions \ {s} : late'[t] <= late[t]
            BY <2>3 DEF Observe
        <3>2. late' \in [Submissions -> Nat]
            BY <2>3, ObserveType
        <3>3. ~IsCancelRequested' => \A t \in Submissions : late'[t] = 0
            BY <2>3 DEF Observe
        <3>4. late'[s] <= 1
            BY <2>3 DEF Observe
        <3>5. \A t \in Submissions : pc'[t] \in Starting => late[t] = 0
            BY DEF LateStep
        <3> QED  BY <2>3, <3>1, <3>2, <3>3, <3>4, <3>5
    <2> QED  BY <2>1, <2>2, <2>3 DEF LateStep
<1>3. CancelInv => CancelStopsRuns
    BY DEF CancelInv, CancelStopsRuns
<1> QED  BY <1>1, <1>2, <1>3, TypeCorrect, PTL DEF Spec

-----------------------------------------------------------------------------
(* A job submitted once and never deleted.                                 *)

\* The steps before the i-th that have a row passed, leaving aside the phases
\* X: a plan may name a phase twice, and its second step starts it again.
PassedBefore(i, X) ==
    \A j \in 1..Len(Plan) :
        j < i /\ Plan[j] \in Registered \ X => phases[Plan[j]] = "passed"

PlanPassed == PassedBefore(Len(Plan) + 1, {})

\* What a run has behind it at each place of the loop.
RunPassed(s) ==
    /\ pc[s] \in {"step_check", "step_start"} => PassedBefore(step[s], {})
    /\ pc[s] = "step_run" => PassedBefore(step[s], {Plan[step[s]]})
    /\ pc[s] \in {"check_end", "write_succeeded"} => PlanPassed

\* One run touches such a job, its row is there, and the run has passed what
\* it has behind it.  Without RunPassed the invariant would say nothing about
\* the phases at the moment of the verdict.
SoleInv ==
    ~disturbed =>
        /\ \A s, t \in Submissions : pc[s] # "new" /\ pc[t] # "new" => s = t
        /\ (\E s \in Submissions : pc[s] # "new") => Present
        /\ \A s \in Submissions : RunPassed(s)
        /\ status = "succeeded" =>
              PlanPassed /\ \A s \in Submissions : pc[s] \notin Active

LEMMA RecordKeeps ==
    ASSUME TypeOK, NEW p, NEW st, RecordPhase(p, st)
    PROVE  /\ \A q \in Registered \ {p} :
                 phases[q] = "passed" => phases'[q] = "passed"
           /\ p \in Registered => phases'[p] = st
BY DEF TypeOK, RecordPhase, WithDefaults

LEMMA InitializeKeeps ==
    ASSUME TypeOK, InitializePhases
    PROVE  \A q \in Registered : phases[q] = "passed" => phases'[q] = "passed"
BY DEF TypeOK, InitializePhases, WithDefaults

\* What is left to show when the only run moves.
LEMMA SoleMove ==
    ASSUME TypeOK, SoleInv, ~disturbed, NEW s \in Submissions, pc[s] # "new",
           NEW place \in Places \ {"new"}, pc' = [pc EXCEPT ![s] = place],
           Present', RunPassed(s)',
           status' = "succeeded" => PlanPassed' /\ place \notin Active
    PROVE  SoleInv'
<1> pc \in [Submissions -> Places]
    BY DEF TypeOK
<1>1. \A t \in Submissions \ {s} : pc[t] = "new" /\ pc'[t] = "new"
    BY DEF SoleInv
<1>2. pc'[s] = place /\ "new" \notin Active
    BY DEF Active, Running, Body, Handlers
<1>3. \A t \in Submissions \ {s} : RunPassed(t)'
    BY <1>1 DEF RunPassed
<1> QED  BY <1>1, <1>2, <1>3 DEF SoleInv

\* A move outside the loop, with the row still there and no verdict.
LEMMA SoleMoveAside ==
    ASSUME TypeOK, SoleInv, ~disturbed, NEW s \in Submissions, pc[s] # "new",
           NEW place \in Places \ {"new", "step_check", "step_start",
                                   "step_run", "check_end", "write_succeeded"},
           pc' = [pc EXCEPT ![s] = place], Present', status' # "succeeded"
    PROVE  SoleInv'
<1>1. pc'[s] = place
    BY DEF TypeOK
<1>2. RunPassed(s)'
    BY <1>1 DEF RunPassed
<1> QED  BY <1>2, SoleMove

LEMMA RunStepSole ==
    ASSUME TypeOK, SoleInv, NEW s \in Submissions, RunStep(s)
    PROVE  SoleInv'
<1> SUFFICES ASSUME ~disturbed' PROVE SoleInv'
    BY DEF SoleInv
<1>0. /\ pc[s] \in Active /\ pc[s] # "new" /\ ~disturbed
      /\ pc \in [Submissions -> Places]
    BY DEF RunStep, Enqueue, CheckStart, ReadFlag, WriteRunning, InitPhases,
        CheckBrief, StartBrief, PassBrief, CheckPipe, StepCheck, StepCancel,
        StepStart, StepPass, StepFailed, CheckEnd, WriteSucceeded,
        WriteCancelled, WriteFailed, Check, WritePhase, Verdict, Active,
        Running, Body, Handlers, TypeOK
<1>00. Present /\ status # "succeeded" /\ RunPassed(s)
    BY <1>0 DEF SoleInv
<1> USE <1>0, <1>00, Ranges DEF Goto, Present
<1>1. CASE \/ Enqueue(s) \/ CheckStart(s) \/ ReadFlag(s) \/ InitPhases(s)
           \/ CheckBrief(s) \/ StartBrief(s) \/ PassBrief(s) \/ StepCancel(s)
           \/ StepFailed(s)
    <2>1. /\ UNCHANGED status
          /\ \E place \in {"check_start", "read_flag", "write_running",
                           "check_brief", "start_brief", "pass_brief",
                           "check_pipe"} \cup Handlers :
                pc' = [pc EXCEPT ![s] = place]
        BY <1>1
        DEF Enqueue, CheckStart, ReadFlag, InitPhases, CheckBrief, StartBrief,
            PassBrief, StepCancel, StepFailed, Check, WritePhase, jobVars,
            Body, Handlers
    <2> QED  BY <2>1, SoleMoveAside DEF Body, Handlers
<1>2. CASE WriteRunning(s)
    BY <1>2, SoleMoveAside DEF WriteRunning, UpsertJob, Body
<1>3. CASE CheckPipe(s)
    <2>1. CASE IsCancelRequested
        BY <1>3, <2>1, SoleMoveAside DEF CheckPipe, jobVars, Handlers
    <2>2. CASE ~IsCancelRequested
        <3>1. /\ pc'[s] = LoopFrom(0) /\ step'[s] = 1
              /\ pc' = [pc EXCEPT ![s] = LoopFrom(0)] /\ UNCHANGED status
            BY <1>3, <2>2 DEF CheckPipe, jobVars, TypeOK
        <3>2. RunPassed(s)'
            BY <3>1, JobAssumption
            DEF RunPassed, PassedBefore, PlanPassed, LoopFrom
        <3>3. LoopFrom(0) \in Places \ {"new"}
            BY DEF LoopFrom, Body
        <3>4. Present' /\ status' # "succeeded"
            BY <3>1
        <3> QED  BY <3>1, <3>2, <3>3, <3>4, SoleMove
    <2> QED  BY <2>1, <2>2
<1>4. CASE StepCheck(s)
    <2>1. /\ pc[s] = "step_check"
          /\ pc' = [pc EXCEPT ![s] = IF IsCancelRequested THEN "step_cancel"
                                     ELSE "step_start"]
          /\ UNCHANGED <<status, phases, step>>
        BY <1>4 DEF StepCheck, Check, jobVars, phaseVars
    <2>2. RunPassed(s)'
        BY <2>1 DEF RunPassed, PassedBefore
    <2> QED  BY <2>1, <2>2, SoleMove DEF Body
<1>5. CASE StepStart(s)
    <2>1. /\ pc[s] = "step_start" /\ pc' = [pc EXCEPT ![s] = "step_run"]
          /\ RecordPhase(Plan[step[s]], "running")
          /\ UNCHANGED <<status, step>>
        BY <1>5 DEF StepStart, WritePhase, jobVars
    <2>2. PassedBefore(step[s], {Plan[step[s]]})'
        BY <2>1, RecordKeeps DEF RunPassed, PassedBefore
    <2>3. RunPassed(s)'
        BY <2>1, <2>2 DEF RunPassed
    <2> QED  BY <2>1, <2>3, SoleMove
<1>6. CASE StepPass(s)
    <2>1. /\ pc[s] = "step_run"
          /\ pc' = [pc EXCEPT ![s] = LoopFrom(step[s])]
          /\ RecordPhase(Plan[step[s]], "passed")
          /\ step'[s] = step[s] + 1 /\ step[s] \in Nat
          /\ UNCHANGED status
        BY <1>6 DEF StepPass, WritePhase, jobVars, TypeOK
    <2>2. \A j \in 1..Len(Plan) :
             j <= step[s] /\ Plan[j] \in Registered => phases'[Plan[j]] = "passed"
        <3> TAKE j \in 1..Len(Plan)
        <3> HAVE j <= step[s] /\ Plan[j] \in Registered
        <3>1. CASE Plan[j] = Plan[step[s]]
            BY <2>1, <3>1, RecordKeeps
        <3>2. CASE Plan[j] # Plan[step[s]]
            <4>1. j < step[s]
                BY <2>1, <3>2
            <4>2. PassedBefore(step[s], {Plan[step[s]]})
                BY <2>1 DEF RunPassed
            <4>3. phases[Plan[j]] = "passed"
                BY <3>2, <4>1, <4>2 DEF PassedBefore
            <4> QED  BY <2>1, <3>2, <4>3, RecordKeeps
        <3> QED  BY <3>1, <3>2
    <2>3. RunPassed(s)'
        <3>1. CASE step[s] < Len(Plan)
            <4>1. pc'[s] = "step_check"
                BY <2>1, <3>1 DEF LoopFrom
            <4>2. PassedBefore(step[s], {})'
                BY <2>1, <2>2 DEF PassedBefore
            <4> QED  BY <4>1, <4>2 DEF RunPassed
        <3>2. CASE ~(step[s] < Len(Plan))
            <4>1. pc'[s] = "check_end"
                BY <2>1, <3>2 DEF LoopFrom
            <4>2. Len(Plan) \in Nat
                BY JobAssumption
            <4>3. PlanPassed'
                BY <2>1, <2>2, <3>2, <4>2 DEF PlanPassed, PassedBefore
            <4> QED  BY <4>1, <4>3 DEF RunPassed
        <3> QED  BY <3>1, <3>2
    <2>4. LoopFrom(step[s]) \in Places \ {"new"}
        BY DEF LoopFrom, Body
    <2> QED  BY <2>1, <2>3, <2>4, SoleMove
<1>7. CASE CheckEnd(s)
    <2>1. /\ pc[s] = "check_end"
          /\ pc' = [pc EXCEPT ![s] = IF IsCancelRequested
                                     THEN "write_cancelled"
                                     ELSE "write_succeeded"]
          /\ UNCHANGED <<status, phases, step>>
        BY <1>7 DEF CheckEnd, Check, jobVars, phaseVars
    <2>2. RunPassed(s)'
        BY <2>1 DEF RunPassed, PlanPassed, PassedBefore
    <2> QED  BY <2>1, <2>2, SoleMove DEF Body, Handlers
<1>8. CASE WriteSucceeded(s)
    <2>1. /\ pc[s] = "write_succeeded" /\ pc' = [pc EXCEPT ![s] = "done"]
          /\ UNCHANGED <<phases, step>> /\ status' = "succeeded"
        BY <1>8 DEF WriteSucceeded, Verdict, UpsertJob, phaseVars
    <2>2. PlanPassed'
        BY <2>1 DEF RunPassed, PlanPassed, PassedBefore
    <2>3. RunPassed(s)' /\ "done" \notin Active
        BY <2>1 DEF RunPassed, Active, Running, Body, Handlers
    <2> QED  BY <2>1, <2>2, <2>3, SoleMove
<1>9. CASE WriteCancelled(s) \/ WriteFailed(s)
    BY <1>9, SoleMoveAside
    DEF WriteCancelled, WriteFailed, Verdict, UpsertJob
<1> QED
    BY <1>1, <1>2, <1>3, <1>4, <1>5, <1>6, <1>7, <1>8, <1>9 DEF RunStep

\* A step that moves no run and keeps the passed phases keeps SoleInv.
LEMMA SoleStay ==
    ASSUME TypeOK, SoleInv, UNCHANGED <<pc, step>>,
           disturbed' = disturbed, Present => Present',
           status' = "succeeded" => status = "succeeded",
           \A q \in Registered : phases[q] = "passed" => phases'[q] = "passed"
    PROVE  SoleInv'
<1>1. \A i, X : PassedBefore(i, X) => PassedBefore(i, X)'
    BY DEF PassedBefore
<1>2. PlanPassed => PlanPassed'
    BY DEF PassedBefore, PlanPassed
<1>3. \A s \in Submissions : RunPassed(s) => RunPassed(s)'
    BY <1>1, <1>2 DEF RunPassed
<1> QED  BY <1>2, <1>3 DEF SoleInv

LEMMA FaultSole ==
    ASSUME TypeOK, SoleInv, NEW s \in Submissions, Fault(s)
    PROVE  SoleInv'
<1> SUFFICES ASSUME ~disturbed' PROVE SoleInv'
    BY DEF SoleInv
<1> USE DEF Goto, Present
<1>1. CASE \/ ThreadNotStarted(s) \/ HandlerRaises(s) \/ WorkerStops(s)
           \/ StepRaises(s) \/ Raise(s) \/ EnqueueRaises(s)
    <2>1. /\ pc[s] \in Active /\ ~disturbed /\ UNCHANGED status
          /\ \E place \in {"lost", "step_failed", "write_failed",
                           "check_start", "done"} :
                pc' = [pc EXCEPT ![s] = place]
        BY <1>1
        DEF ThreadNotStarted, HandlerRaises, WorkerStops, StepRaises, Raise,
            EnqueueRaises, jobVars, Active, Running
    <2>2. pc[s] # "new" /\ Present /\ status # "succeeded"
        BY <2>1 DEF SoleInv, Active, Running, Body, Handlers
    <2> QED  BY <2>1, <2>2, SoleMoveAside, Ranges DEF Body, Handlers
<1>2. CASE EnqueueHandlerRaises(s)
    <2>1. CASE pc[s] = "done"
        <3>1. /\ pc' = [pc EXCEPT ![s] = "lost"] /\ pc[s] # "new"
              /\ ~disturbed /\ UNCHANGED <<status, phases>>
            BY <1>2, <2>1
            DEF EnqueueHandlerRaises, jobVars, phaseVars
        <3>2. RunPassed(s)' /\ "lost" \notin Active
            BY <3>1 DEF RunPassed, Active, Running, Body, Handlers, TypeOK
        <3>3. status' = "succeeded" => PlanPassed'
            BY <3>1 DEF SoleInv, PlanPassed, PassedBefore
        <3> QED  BY <3>1, <3>2, <3>3, SoleMove, Ranges DEF SoleInv
    <2>2. CASE pc[s] # "done"
        BY <1>2, <2>2, SoleStay
        DEF EnqueueHandlerRaises, jobVars, phaseVars, TypeOK
    <2> QED  BY <2>1, <2>2
<1> QED  BY <1>1, <1>2 DEF Fault

LEMMA NextSole == TypeOK /\ SoleInv /\ [Next]_vars => SoleInv'
<1> SUFFICES ASSUME TypeOK, SoleInv, [Next]_vars PROVE SoleInv'
    OBVIOUS
<1>1. ASSUME NEW s \in Submissions, Submit(s) PROVE SoleInv'
    <2> SUFFICES ASSUME ~disturbed' PROVE SoleInv'
        BY DEF SoleInv
    <2>1. /\ \A t \in Submissions \ {s} : pc'[t] = "new"
          /\ pc'[s] = "posted" /\ status' = "queued"
        BY <1>1 DEF Submit, Goto, TypeOK
    <2>2. \A t \in Submissions : RunPassed(t)'
        BY <2>1 DEF RunPassed
    <2> QED  BY <2>1, <2>2 DEF SoleInv, Present
<1>2. ASSUME NEW s \in Submissions, RunStep(s) PROVE SoleInv'
    BY <1>2, RunStepSole
<1>3. ASSUME NEW s \in Submissions, RecordEnqueueFailure(s) PROVE SoleInv'
    BY <1>3, SoleStay DEF RecordEnqueueFailure, UpsertJob, phaseVars, Present
<1>4. ASSUME NEW s \in Submissions, Fault(s) PROVE SoleInv'
    BY <1>4, FaultSole
<1>5. CASE CancelJob
    BY <1>5, SoleStay, InitializeKeeps DEF CancelJob, Present
<1>6. CASE DeleteJob
    BY <1>6 DEF DeleteJob, SoleInv
<1>7. CASE ReadJob
    BY <1>7, SoleStay, InitializeKeeps DEF ReadJob, jobVars, Present
<1>8. CASE DashboardStops
    <2> SUFFICES ASSUME ~disturbed' PROVE SoleInv'
        BY DEF SoleInv
    <2>1. /\ \A t \in Submissions : \/ pc'[t] = pc[t]
                                    \/ pc'[t] = "lost" /\ pc[t] # "new"
          /\ ~disturbed /\ UNCHANGED <<status, phases, step>>
        BY <1>8
        DEF DashboardStops, jobVars, phaseVars, Running, Body, Handlers
    <2>2. \A t \in Submissions : RunPassed(t)'
        BY <2>1 DEF SoleInv, RunPassed, PassedBefore, PlanPassed
    <2>3. "lost" \notin Active
        BY DEF Active, Running, Body, Handlers
    <2>4. PlanPassed => PlanPassed'
        BY <2>1 DEF PassedBefore, PlanPassed
    <2> QED  BY <2>1, <2>2, <2>3, <2>4 DEF SoleInv, Present
<1>9. CASE UNCHANGED vars
    BY <1>9, SoleStay DEF vars, Present
<1> QED
    BY <1>1, <1>2, <1>3, <1>4, <1>5, <1>6, <1>7, <1>8, <1>9 DEF Next

\* A job submitted once and never deleted shows "succeeded" only when every
\* step of its plan that has a row passed, for every plan.
THEOREM SuccessIsEarned == Spec => []SuccessMeansPlanPassed
<1>1. Init => SoleInv
    BY DEF Init, SoleInv, RunPassed
<1>2. SoleInv => SuccessMeansPlanPassed
    <2> SUFFICES ASSUME SoleInv, status = "succeeded", ~disturbed,
                        NEW i \in 1..Len(Plan), Plan[i] \in Registered
                 PROVE  phases[Plan[i]] = "passed"
        BY DEF SuccessMeansPlanPassed
    <2>1. i < Len(Plan) + 1
        BY JobAssumption
    <2> QED  BY <2>1 DEF SoleInv, PlanPassed, PassedBefore
<1> QED  BY <1>1, <1>2, NextSole, TypeInit, NextType, PTL DEF Spec

-----------------------------------------------------------------------------
(* The verdict of such a job.  With rq a run may go on although its enqueue *)
(* raised and was recorded as a failure, so this is about threads.  Without *)
(* the row's phases in the invariant, a read could still write some.        *)

Verdicts == {"succeeded", "failed", "cancelled"}

FinalInv ==
    /\ failing = {}
    /\ ~disturbed =>
          /\ Present => /\ \A p \in Registered : phases[p] # "none"
                        /\ \E s \in Submissions : pc[s] # "new"
          /\ status \in Verdicts => \A s \in Submissions : pc[s] \notin Active

\* No statement takes the row of a phase away.
LEMMA RowsStay ==
    ASSUME TypeOK, NEW p \in Registered, phases[p] # "none",
           \/ InitializePhases
           \/ UNCHANGED phases
           \/ \E q, st : st \in PhaseStatuses /\ RecordPhase(q, st)
    PROVE  phases'[p] # "none"
BY DEF TypeOK, InitializePhases, RecordPhase, WithDefaults, PhaseStatuses

LEMMA WritePhaseRows ==
    ASSUME NEW s, NEW place, NEW p, NEW st \in PhaseStatuses, NEW ok,
           NEW raised, WritePhase(s, place, p, st, ok, raised)
    PROVE  \/ UNCHANGED phases
           \/ \E q, t : t \in PhaseStatuses /\ RecordPhase(q, t)
BY DEF WritePhase, phaseVars

\* A step that starts nothing and gives no verdict.
LEMMA FinalStay ==
    ASSUME FinalInv, failing' = {}, disturbed' = disturbed,
           Present' => Present, status' \in Verdicts => status \in Verdicts,
           \A p \in Registered : phases[p] # "none" => phases'[p] # "none",
           \A t \in Submissions : pc'[t] \in Active => pc[t] \in Active,
           \A t \in Submissions : pc[t] # "new" => pc'[t] # "new"
    PROVE  FinalInv'
BY DEF FinalInv

\* The only run of a job moves: it has no verdict yet, and its verdict is its
\* last step.
LEMMA RunStepFinal ==
    ASSUME TypeOK, SoleInv, FinalInv, NEW s \in Submissions, RunStep(s)
    PROVE  FinalInv' /\ (~disturbed => status \notin Verdicts)
<1> USE DEF jobVars, phaseVars
<1>0. pc[s] \in Active /\ pc[s] # "new" /\ disturbed' = disturbed
      /\ failing' = failing
    BY DEF RunStep, Enqueue, CheckStart, ReadFlag, WriteRunning, InitPhases,
        CheckBrief, StartBrief, PassBrief, CheckPipe, StepCheck, StepCancel,
        StepStart, StepPass, StepFailed, CheckEnd, WriteSucceeded,
        WriteCancelled, WriteFailed, Check, WritePhase, Verdict, Active,
        Running, Body, Handlers
<1> SUFFICES ASSUME ~disturbed PROVE FinalInv' /\ status \notin Verdicts
    BY <1>0 DEF FinalInv
<1>1. status \notin Verdicts /\ Present
    BY <1>0 DEF SoleInv, FinalInv
<1>2. ASSUME NEW t \in Submissions, t # s PROVE pc[t] = "new"
    BY <1>0, <1>2 DEF SoleInv
<1>3. /\ \A t \in Submissions \ {s} : pc'[t] = "new"
      /\ pc'[s] # "new"
    BY <1>2 DEF RunStep, Enqueue, CheckStart, ReadFlag, WriteRunning,
        InitPhases, CheckBrief, StartBrief, PassBrief, CheckPipe, StepCheck,
        StepCancel, StepStart, StepPass, StepFailed, CheckEnd, WriteSucceeded,
        WriteCancelled, WriteFailed, Check, WritePhase, Verdict, Goto,
        LoopFrom, TypeOK
<1>4. \A p \in Registered : phases'[p] # "none"
    <2>1. \A p \in Registered : phases[p] # "none"
        BY <1>1 DEF FinalInv
    <2>2. \/ InitializePhases
          \/ UNCHANGED phases
          \/ \E q, t : t \in PhaseStatuses /\ RecordPhase(q, t)
        <3>1. CASE \/ Enqueue(s) \/ CheckStart(s) \/ ReadFlag(s)
                   \/ CheckBrief(s) \/ CheckPipe(s) \/ StepCheck(s)
                   \/ CheckEnd(s) \/ WriteRunning(s) \/ WriteSucceeded(s)
                   \/ WriteCancelled(s) \/ WriteFailed(s) \/ InitPhases(s)
            BY <3>1
            DEF Enqueue, CheckStart, ReadFlag, CheckBrief, CheckPipe,
                StepCheck, CheckEnd, Check, WriteRunning, WriteSucceeded,
                WriteCancelled, WriteFailed, Verdict, UpsertJob, InitPhases
        <3>2. CASE \/ StartBrief(s) \/ PassBrief(s) \/ StepCancel(s)
                   \/ StepStart(s) \/ StepPass(s) \/ StepFailed(s)
            <4>1. {"running", "passed", "failed", "cancelled"}
                    \subseteq PhaseStatuses
                BY DEF PhaseStatuses
            <4> QED
                BY <3>2, <4>1, WritePhaseRows
                DEF StartBrief, PassBrief, StepCancel, StepStart, StepPass,
                    StepFailed
        <3> QED  BY <3>1, <3>2 DEF RunStep
    <2> QED  BY <2>1, <2>2, RowsStay
<1>5. status' \in Verdicts => pc'[s] \notin Active
    <2>1. CASE WriteSucceeded(s) \/ WriteCancelled(s) \/ WriteFailed(s)
        BY <2>1 DEF WriteSucceeded, WriteCancelled, WriteFailed, Verdict, Goto,
            TypeOK, Active, Running, Body, Handlers
    <2>2. CASE ~(WriteSucceeded(s) \/ WriteCancelled(s) \/ WriteFailed(s))
        <3>1. status' = status \/ status' = "running"
            BY <2>2 DEF RunStep, Enqueue, CheckStart, ReadFlag, WriteRunning,
                InitPhases, CheckBrief, StartBrief, PassBrief, CheckPipe,
                StepCheck, StepCancel, StepStart, StepPass, StepFailed,
                CheckEnd, Check, WritePhase, UpsertJob
        <3> QED  BY <1>1, <3>1 DEF Verdicts
    <2> QED  BY <2>1, <2>2
<1>6. "new" \notin Active
    BY DEF Active, Running, Body, Handlers
<1> QED  BY <1>0, <1>1, <1>3, <1>4, <1>5, <1>6 DEF FinalInv

LEMMA FaultFinal ==
    ASSUME TypeOK, Backend = "thread", FinalInv, NEW s \in Submissions,
           Fault(s)
    PROVE  FinalInv' /\ UNCHANGED <<jobVars, phases>>
<1> USE DEF jobVars, phaseVars
<1>1. CASE ThreadNotStarted(s) \/ StepRaises(s) \/ Raise(s) \/ HandlerRaises(s)
    <2>1. /\ pc[s] \in Active
          /\ \E place \in Places \ {"new"} : pc' = [pc EXCEPT ![s] = place]
          /\ UNCHANGED <<jobVars, phases, failing, disturbed>>
        BY <1>1, Ranges
        DEF ThreadNotStarted, StepRaises, Raise, HandlerRaises, Goto, Active,
            Running, Body, Handlers
    <2>2. /\ \A t \in Submissions : pc'[t] \in Active => pc[t] \in Active
          /\ \A t \in Submissions : pc[t] # "new" => pc'[t] # "new"
        BY <2>1 DEF TypeOK
    <2> QED  BY <2>1, <2>2, FinalStay DEF FinalInv, Present
<1>2. ~(EnqueueRaises(s) \/ WorkerStops(s) \/ EnqueueHandlerRaises(s))
    BY DEF EnqueueRaises, WorkerStops, EnqueueHandlerRaises, FinalInv
<1> QED  BY <1>1, <1>2 DEF Fault

LEMMA NextFinal ==
    ASSUME TypeOK, SoleInv, Backend = "thread", FinalInv, [Next]_vars
    PROVE  FinalInv' /\ (KeepVerdict \/ UNCHANGED vars)
<1> USE DEF jobVars, phaseVars
<1>1. ASSUME NEW s \in Submissions, Submit(s)
      PROVE  FinalInv' /\ KeepVerdict
    <2>1. /\ \A p \in Registered : phases'[p] = "pending"
          /\ status' = "queued" /\ pc'[s] = "posted" /\ failing' = failing
        BY <1>1 DEF Submit, Goto, TypeOK
    <2>2. status \in Verdicts /\ ~disturbed => disturbed'
        BY <1>1 DEF Submit, FinalInv, Present, Verdicts
    <2>3. FinalInv'
        BY <2>1 DEF FinalInv, Verdicts
    <2> QED  BY <2>2, <2>3 DEF KeepVerdict, Verdicts
<1>2. ASSUME NEW s \in Submissions, RunStep(s) PROVE FinalInv' /\ KeepVerdict
    BY <1>2, RunStepFinal DEF KeepVerdict, Verdicts
<1>3. ASSUME NEW s \in Submissions PROVE ~RecordEnqueueFailure(s)
    BY DEF RecordEnqueueFailure, FinalInv
<1>4. ASSUME NEW s \in Submissions, Fault(s) PROVE FinalInv' /\ KeepVerdict
    BY <1>4, FaultFinal DEF KeepVerdict
<1>5. CASE CancelJob
    <2>1. /\ status \notin Verdicts /\ Present /\ status' = "cancel_requested"
          /\ UNCHANGED <<pc, failing, disturbed>>
        BY <1>5 DEF CancelJob, LiveStatuses, Verdicts, Present
    <2>2. \A p \in Registered : phases[p] # "none" => phases'[p] # "none"
        BY <1>5, RowsStay DEF CancelJob
    <2>3. FinalInv'
        BY <2>1, <2>2, FinalStay DEF Verdicts, FinalInv
    <2> QED  BY <2>1, <2>3 DEF KeepVerdict, Verdicts
<1>6. CASE DeleteJob
    BY <1>6 DEF DeleteJob, FinalInv, KeepVerdict
<1>7. CASE ReadJob
    <2>1. disturbed /\ UNCHANGED <<disturbed, failing>>
        BY <1>7 DEF ReadJob, FinalInv
    <2> QED  BY <2>1 DEF FinalInv, KeepVerdict
<1>8. CASE DashboardStops
    <2>1. UNCHANGED <<jobVars, phases, disturbed>> /\ failing' = {}
        BY <1>8 DEF DashboardStops
    <2>3. \A t \in Submissions :
              \/ pc'[t] = pc[t]
              \/ pc'[t] = "lost" /\ pc[t] # "new"
        BY <1>8 DEF DashboardStops, Running, Body, Handlers
    <2>2. "lost" \notin Active
        BY DEF Active, Running, Body, Handlers
    <2> QED  BY <2>1, <2>2, <2>3, FinalStay DEF KeepVerdict, Present
<1>9. CASE UNCHANGED vars
    BY <1>9, FinalStay DEF vars, Present, FinalInv
<1> QED
    BY <1>1, <1>2, <1>3, <1>4, <1>5, <1>6, <1>7, <1>8, <1>9 DEF Next

\* With threads, nothing changes the row or the phases of a job submitted once
\* after its verdict, but a new POST or a DELETE.
THEOREM VerdictStays ==
    ASSUME Backend = "thread"
    PROVE  Spec => VerdictIsFinal
<1>1. Init => SoleInv
    BY DEF Init, SoleInv, RunPassed
<1>2. Init => FinalInv
    BY DEF Init, FinalInv, Present, Verdicts
<1>3. TypeOK /\ SoleInv /\ FinalInv /\ [Next]_vars => FinalInv'
    BY NextFinal
<1>4. TypeOK /\ SoleInv /\ FinalInv /\ [Next]_vars => [KeepVerdict]_vars
    BY NextFinal
<1> QED
    BY <1>1, <1>2, <1>3, <1>4, NextSole, TypeInit, NextType, PTL
    DEF Spec, VerdictIsFinal

=============================================================================
