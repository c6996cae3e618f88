-------------------------- MODULE JobPromiseProofs --------------------------
(***************************************************************************)
(* JobLifecycle implements the safety part of JobPromise, and what that    *)
(* gives to a reader of the row.                                           *)
(***************************************************************************)
EXTENDS JobLifecycleProofs

Owed == {s \in Submissions : pc[s] \in Active \/ s \in failing}
Lost == {s \in Submissions : pc[s] = "lost"}

\* A submission can only be failing to enqueue once it was posted.
FailingWasPosted == \A s \in failing : pc[s] # "new"

MapInv == TypeOK /\ FailingWasPosted

\* What a step of one submission may do to its place, told apart as far as
\* the promise does.
LEMMA GotoOwed ==
    ASSUME TypeOK, NEW s \in Submissions, NEW place \in Places, Goto(s, place),
           UNCHANGED failing
    PROVE  /\ pc' = [pc EXCEPT ![s] = place]
           /\ pc[s] \in Active /\ place \in Active
                => Owed' = Owed /\ Lost' = Lost
           /\ pc[s] \in Active /\ place = "done" /\ s \in failing
                => Owed' = Owed /\ Lost' = Lost
           /\ pc[s] \in Active /\ place = "done" /\ s \notin failing
                => Owed' = Owed \ {s} /\ Lost' = Lost
           /\ pc[s] \in Active /\ place = "lost"
                => /\ Lost' = Lost \cup {s}
                   /\ Owed' \subseteq Owed
                   /\ Owed \ Owed' \subseteq {s}
<1> pc \in [Submissions -> Places]
    BY DEF TypeOK
<1>1. pc' = [pc EXCEPT ![s] = place]
    BY DEF Goto
<1>2. "done" \notin Active /\ "lost" \notin Active
    BY DEF Active, Running, Body, Handlers
<1>3. CASE pc[s] \in Active /\ place \in Active
    <2>1. Owed' = Owed
        BY <1>1, <1>3 DEF Owed
    <2>2. Lost' = Lost
        BY <1>1, <1>2, <1>3 DEF Lost
    <2> QED  BY <1>1, <1>2, <1>3, <2>1, <2>2
<1>4. CASE pc[s] \in Active /\ place = "done"
    BY <1>1, <1>2, <1>4 DEF Owed, Lost
<1>5. CASE pc[s] \in Active /\ place = "lost"
    BY <1>1, <1>2, <1>5 DEF Owed, Lost
<1> QED  BY <1>1, <1>3, <1>4, <1>5

LEMMA FailingInductive == MapInv /\ [Next]_vars => MapInv'
<1> SUFFICES ASSUME TypeOK, FailingWasPosted, [Next]_vars
             PROVE  FailingWasPosted'
    BY NextType DEF MapInv
<1> USE DEF FailingWasPosted, Goto
<1> pc \in [Submissions -> Places] /\ failing \subseteq Submissions
    BY DEF TypeOK
<1>1. ASSUME NEW s \in Submissions, Submit(s) PROVE FailingWasPosted'
    BY <1>1 DEF Submit
<1>2. ASSUME NEW s \in Submissions, RunStep(s) PROVE FailingWasPosted'
    BY <1>2, Ranges
    DEF RunStep, Enqueue, CheckStart, ReadFlag, WriteRunning, InitPhases,
        CheckBrief, StartBrief, PassBrief, CheckPipe, StepCheck, StepCancel,
        StepStart, StepPass, StepFailed, CheckEnd, WriteSucceeded,
        WriteCancelled, WriteFailed, Check, WritePhase, Verdict
<1>3. ASSUME NEW s \in Submissions, RecordEnqueueFailure(s)
      PROVE  FailingWasPosted'
    BY <1>3 DEF RecordEnqueueFailure
<1>4. ASSUME NEW s \in Submissions, Fault(s) PROVE FailingWasPosted'
    BY <1>4
    DEF Fault, ThreadNotStarted, EnqueueRaises, StepRaises, Raise,
        HandlerRaises, EnqueueHandlerRaises, WorkerStops
<1>5. CASE CancelJob \/ DeleteJob \/ ReadJob
    BY <1>5 DEF CancelJob, DeleteJob, ReadJob
<1>6. CASE DashboardStops
    BY <1>6 DEF DashboardStops
<1>7. CASE UNCHANGED vars
    BY <1>7 DEF vars
<1> QED  BY <1>1, <1>2, <1>3, <1>4, <1>5, <1>6, <1>7 DEF Next

-----------------------------------------------------------------------------

\* The promise, written with the names this module gives the mapping.
PromiseStep == Promise!PromiseNext \/ UNCHANGED <<status, Owed, Lost>>

LEMMA RunStepPromise ==
    ASSUME TypeOK, NEW s \in Submissions, RunStep(s)
    PROVE  PromiseStep
<1> USE DEF PromiseStep
<1> USE Ranges
<1>1. CASE \/ Enqueue(s) \/ CheckStart(s) \/ ReadFlag(s) \/ InitPhases(s)
           \/ CheckBrief(s) \/ StartBrief(s) \/ PassBrief(s) \/ CheckPipe(s)
           \/ StepCheck(s) \/ StepCancel(s) \/ StepStart(s) \/ StepPass(s)
           \/ StepFailed(s) \/ CheckEnd(s)
    <2>1. /\ pc[s] \in Active
          /\ \E place \in Active : Goto(s, place)
          /\ UNCHANGED <<status, failing>>
        BY <1>1
        DEF Enqueue, CheckStart, ReadFlag, InitPhases, CheckBrief, StartBrief,
            PassBrief, CheckPipe, StepCheck, StepCancel, StepStart, StepPass,
            StepFailed, CheckEnd, Check, WritePhase, Active, Running, Body,
            Handlers, jobVars
    <2> QED  BY <2>1, GotoOwed DEF Places
<1>2. CASE WriteRunning(s)
    <2>1. /\ pc[s] \in Active /\ s \in Owed
          /\ Goto(s, "init_phases") /\ "init_phases" \in Active
          /\ status' = "running" /\ UNCHANGED failing
        BY <1>2
        DEF WriteRunning, UpsertJob, Active, Running, Body, Owed
    <2>2. Owed' = Owed /\ Lost' = Lost
        BY <2>1, GotoOwed DEF Places
    <2>3. Promise!Begin(s)
        BY <2>1, <2>2 DEF Promise!Begin, Owed, Lost
    <2> QED  BY <2>3 DEF Promise!PromiseNext
<1>3. CASE WriteSucceeded(s) \/ WriteCancelled(s) \/ WriteFailed(s)
    <2>1. /\ pc[s] \in Active /\ s \in Owed
          /\ Goto(s, "done") /\ UNCHANGED failing
          /\ status' \in {"succeeded", "failed", "cancelled"}
        BY <1>3
        DEF WriteSucceeded, WriteCancelled, WriteFailed, Verdict, UpsertJob,
            Active, Running, Body, Handlers, Owed
    <2>2. CASE s \in failing
        <3>1. Owed' = Owed /\ Lost' = Lost
            BY <2>1, <2>2, GotoOwed
        <3>2. Promise!SettleAgain(s)
            BY <2>1, <3>1
            DEF Promise!SettleAgain, Promise!Terminal, Owed, Lost
        <3> QED  BY <3>2 DEF Promise!PromiseNext
    <2>3. CASE s \notin failing
        <3>1. Owed' = Owed \ {s} /\ Lost' = Lost
            BY <2>1, <2>3, GotoOwed
        <3>2. Promise!Settle(s)
            BY <2>1, <3>1 DEF Promise!Settle, Promise!Terminal, Owed, Lost
        <3> QED  BY <3>2 DEF Promise!PromiseNext
    <2> QED  BY <2>2, <2>3
<1> QED  BY <1>1, <1>2, <1>3 DEF RunStep

\* A loss, in the terms of the mapping.
LEMMA LosePromise ==
    ASSUME NEW S \in SUBSET Submissions, Lost' = Lost \cup S,
           Owed' \subseteq Owed, Owed \ Owed' \subseteq S, UNCHANGED status
    PROVE  PromiseStep
<1>1. Promise!Lose(S)
    BY DEF Promise!Lose, Owed, Lost
<1> QED  BY <1>1 DEF PromiseStep, Promise!PromiseNext

LEMMA FaultPromise ==
    ASSUME MapInv, NEW s \in Submissions, Fault(s)
    PROVE  PromiseStep
<1> USE Ranges
<1> TypeOK /\ pc \in [Submissions -> Places] /\ failing \subseteq Submissions
    BY DEF MapInv, TypeOK
<1>1. CASE ThreadNotStarted(s) \/ HandlerRaises(s) \/ WorkerStops(s)
    <2>1. /\ pc[s] \in Active /\ Goto(s, "lost")
          /\ UNCHANGED <<status, failing>>
        BY <1>1
        DEF ThreadNotStarted, HandlerRaises, WorkerStops, Active, Running,
            jobVars
    <2>2. /\ Lost' = Lost \cup {s}
          /\ Owed' \subseteq Owed /\ Owed \ Owed' \subseteq {s}
        BY <2>1, GotoOwed
    <2>3. {s} \in SUBSET Submissions /\ status' = status
        BY <2>1
    <2> QED  BY <2>2, <2>3, LosePromise
<1>2. CASE EnqueueRaises(s)
    <2>1. /\ pc[s] = "posted" /\ "posted" \in Active
          /\ "check_start" \in Active /\ failing' = failing \cup {s}
          /\ UNCHANGED status
          /\ \E place \in {"check_start", "done"} : pc' = [pc EXCEPT ![s] = place]
        BY <1>2 DEF EnqueueRaises, Goto, Active, Running, Body, jobVars
    <2>2. Owed' = Owed
        BY <2>1 DEF Owed
    <2>3. Lost' = Lost
        BY <2>1 DEF Lost
    <2> QED  BY <2>1, <2>2, <2>3 DEF PromiseStep
<1>3. CASE StepRaises(s) \/ Raise(s)
    <2>1. /\ pc[s] \in Active
          /\ \E place \in Active : Goto(s, place)
          /\ UNCHANGED <<status, failing>>
        BY <1>3
        DEF StepRaises, Raise, Active, Running, Body, Handlers, jobVars
    <2> QED  BY <2>1, GotoOwed DEF Places, PromiseStep
<1>4. CASE EnqueueHandlerRaises(s)
    <2>1. /\ s \in failing /\ failing' = failing \ {s} /\ UNCHANGED status
          /\ pc' = [pc EXCEPT ![s] = IF pc[s] = "done" THEN "lost" ELSE pc[s]]
        BY <1>4 DEF EnqueueHandlerRaises, Goto, jobVars
    <2>2. "done" \notin Active /\ "lost" \notin Active
        BY DEF Active, Running, Body, Handlers
    <2>3. CASE pc[s] \in {"done", "lost"}
        <3>1. Lost' = Lost \cup {s}
            BY <2>1, <2>3 DEF Lost
        <3>2. Owed' \subseteq Owed /\ Owed \ Owed' \subseteq {s}
            BY <2>1, <2>2, <2>3 DEF Owed
        <3>3. {s} \in SUBSET Submissions /\ status' = status
            BY <2>1
        <3> QED  BY <3>1, <3>2, <3>3, LosePromise
    <2>4. CASE pc[s] \in Active
        <3>1. Owed' = Owed
            BY <2>1, <2>2, <2>4 DEF Owed
        <3>2. Lost' = Lost
            BY <2>1, <2>2, <2>4 DEF Lost
        <3> QED  BY <2>1, <3>1, <3>2 DEF PromiseStep
    <2>5. pc[s] # "new"
        BY <2>1 DEF MapInv, FailingWasPosted
    <2> QED  BY <2>3, <2>4, <2>5 DEF Places
<1> QED  BY <1>1, <1>2, <1>3, <1>4 DEF Fault

LEMMA NextPromise == MapInv /\ [Next]_vars => PromiseStep
<1> SUFFICES ASSUME MapInv, [Next]_vars PROVE PromiseStep
    OBVIOUS
<1> USE Ranges
<1> TypeOK /\ pc \in [Submissions -> Places] /\ failing \subseteq Submissions
    BY DEF MapInv, TypeOK
<1>1. ASSUME NEW s \in Submissions, Submit(s) PROVE PromiseStep
    <2>1. /\ pc[s] = "new" /\ s \notin failing /\ status' = "queued"
          /\ pc' = [pc EXCEPT ![s] = "posted"] /\ UNCHANGED failing
        BY <1>1 DEF Submit, Goto, MapInv, FailingWasPosted
    <2>2. "posted" \in Active /\ "new" \notin Active
        BY DEF Active, Running, Body, Handlers
    <2>3. s \notin Owed /\ Owed' = Owed \cup {s}
        BY <2>1, <2>2 DEF Owed
    <2>4. Lost' = Lost
        BY <2>1 DEF Lost
    <2>5. Promise!Accept(s)
        BY <2>1, <2>3, <2>4 DEF Promise!Accept, Owed, Lost
    <2> QED  BY <2>5 DEF PromiseStep, Promise!PromiseNext
<1>2. ASSUME NEW s \in Submissions, RunStep(s) PROVE PromiseStep
    BY <1>2, RunStepPromise
<1>3. ASSUME NEW s \in Submissions, RecordEnqueueFailure(s) PROVE PromiseStep
    <2>1. /\ s \in failing /\ failing' = failing \ {s} /\ UNCHANGED pc
          /\ status' \in {"succeeded", "failed", "cancelled"}
        BY <1>3 DEF RecordEnqueueFailure, UpsertJob
    <2>2. s \in Owed /\ Lost' = Lost
        BY <2>1 DEF Owed, Lost
    <2>3. CASE pc[s] \in Active
        <3>1. Owed' = Owed
            BY <2>1, <2>3 DEF Owed
        <3>2. Promise!SettleAgain(s)
            BY <2>1, <2>2, <3>1
            DEF Promise!SettleAgain, Promise!Terminal, Owed, Lost
        <3> QED  BY <3>2 DEF PromiseStep, Promise!PromiseNext
    <2>4. CASE pc[s] \notin Active
        <3>1. Owed' = Owed \ {s}
            BY <2>1, <2>4 DEF Owed
        <3>2. Promise!Settle(s)
            BY <2>1, <2>2, <3>1 DEF Promise!Settle, Promise!Terminal, Owed, Lost
        <3> QED  BY <3>2 DEF PromiseStep, Promise!PromiseNext
    <2> QED  BY <2>3, <2>4
<1>4. ASSUME NEW s \in Submissions, Fault(s) PROVE PromiseStep
    BY <1>4, FaultPromise
<1>5. CASE CancelJob
    <2>1. Owed' = Owed /\ Lost' = Lost
        BY <1>5 DEF CancelJob, Owed, Lost
    <2>2. Promise!RequestStop
        BY <1>5, <2>1
        DEF CancelJob, LiveStatuses, Promise!RequestStop, Promise!Live, Owed,
            Lost
    <2> QED  BY <2>2 DEF PromiseStep, Promise!PromiseNext
<1>6. CASE DeleteJob
    <2>1. Owed' = Owed /\ Lost' = Lost
        BY <1>6 DEF DeleteJob, Owed, Lost
    <2>2. Promise!Discard
        BY <1>6, <2>1 DEF DeleteJob, Present, Promise!Discard, Owed, Lost
    <2> QED  BY <2>2 DEF PromiseStep, Promise!PromiseNext
<1>7. CASE ReadJob
    BY <1>7 DEF ReadJob, jobVars, PromiseStep, Owed, Lost
<1>8. CASE DashboardStops
    <2> DEFINE S == {s \in Submissions : pc'[s] = "lost"}
    <2>1. /\ failing' = {} /\ UNCHANGED status
          /\ \A s \in Submissions : pc'[s] = pc[s] \/ pc'[s] = "lost"
          /\ \A s \in failing : pc[s] = "done" => pc'[s] = "lost"
        BY <1>8 DEF DashboardStops, jobVars
    <2>2. "lost" \notin Active
        BY DEF Active, Running, Body, Handlers
    <2>3. Lost' = Lost \cup S
        BY <2>1 DEF Lost
    <2>4. Owed' \subseteq Owed
        BY <2>1, <2>2 DEF Owed
    <2>5. Owed \ Owed' \subseteq S
        BY <2>1 DEF Owed, MapInv, FailingWasPosted, Places
    <2> QED  BY <2>1, <2>3, <2>4, <2>5, LosePromise
<1>9. CASE UNCHANGED vars
    BY <1>9 DEF vars, PromiseStep, Owed, Lost
<1> QED
    BY <1>1, <1>2, <1>3, <1>4, <1>5, <1>6, <1>7, <1>8, <1>9 DEF Next

\* The job service keeps its promise: the row only shows work and verdicts of
\* submissions it owes, and owes each until a verdict or a loss.
THEOREM PromiseKept == Spec => KeepsPromise
<1>1. Init => Promise!PromiseInit
    BY DEF Init, Promise!PromiseInit, Active, Running, Body, Handlers
<1>2. Init => MapInv
    BY TypeInit DEF MapInv, FailingWasPosted, Init
<1>3. PromiseStep => [Promise!PromiseNext]_(Promise!promiseVars)
    BY DEF PromiseStep, Promise!promiseVars, Owed, Lost
<1> QED
    BY <1>1, <1>2, <1>3, FailingInductive, NextPromise, PTL
    DEF Spec, KeepsPromise, Promise!PromiseSafety

\* Nobody waits for a live row that no handler and no run will ever finish,
\* unless a process was lost.
THEOREM LiveOwed == Spec => []LiveJobIsOwed
<1> DEFINE Named == status \in LiveStatuses => Owed # {} \/ Lost # {}
<1>1. Init => Named
    BY DEF Init, LiveStatuses
<1>2. Named /\ MapInv /\ PromiseStep => Named'
    BY DEF PromiseStep, LiveStatuses, Owed, Lost, Promise!PromiseNext,
           Promise!Accept, Promise!Begin, Promise!RequestStop, Promise!Settle,
           Promise!SettleAgain, Promise!Discard, Promise!Lose, Promise!Live,
           Promise!Terminal
<1>3. Named => LiveJobIsOwed
    BY DEF LiveJobIsOwed, Owed, Lost
<1>4. Init => MapInv
    BY TypeInit DEF MapInv, FailingWasPosted, Init
<1> QED
    BY <1>1, <1>2, <1>3, <1>4, FailingInductive, NextPromise, PTL DEF Spec

=============================================================================
