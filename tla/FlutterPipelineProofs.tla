------------------------ MODULE FlutterPipelineProofs ------------------------
(***************************************************************************)
(* Theorems about FlutterPipeline for every number of runs of a slug, any  *)
(* repair budget, any answers of the tools, and any number of faults.      *)
(***************************************************************************)
EXTENDS FlutterPipeline, WellFoundedInduction, FiniteSetTheorems, TLAPS

-----------------------------------------------------------------------------
(* The constants: the plan, and the maximum that numbers an attempt.       *)

LoopAt   == Len(Design) + 3
ReviewAt == Len(Design) + 7

LEMMA PlanShape ==
    /\ Len(Design) \in Nat /\ Len(Plan) = Len(Design) + 8
    /\ Plan[Len(Design) + 1] = "06_flutter_dev"
    /\ Plan[Len(Design) + 2] = Qa
    /\ Plan[LoopAt] = Repair
    /\ Plan[Len(Design) + 4] = Qa
    /\ Plan[Len(Design) + 5] = "09_runtime_test"
    /\ Plan[Len(Design) + 6] = "10_security_audit"
    /\ Plan[ReviewAt] = Review
    /\ Plan[Len(Design) + 8] = "12_export_package"
    /\ \A i \in 1..Len(Design) : Plan[i] = Design[i]
BY PipelineAssumption DEF Plan, Qa, Repair, Review, LoopAt, ReviewAt

\* Which phase stands where.
LEMMA PlanNames ==
    /\ \A i \in 1..Len(Plan) : Plan[i] \in Phases
    /\ Qa \in Phases /\ Repair \in Phases
    /\ \A i \in 1..Len(Plan) :
          /\ Plan[i] = Review <=> i = ReviewAt
          /\ Plan[i] = Repair <=> i = LoopAt
          /\ Plan[i] = Qa <=> i \in {LoopAt - 1, LoopAt + 1}
<1>1. \A i \in 1..Len(Design) :
         Plan[i] \in {"02_business_analysis", "03_backend_design",
                      "04_architecture_design", "05_uiux_design"}
    BY PlanShape, PipelineAssumption
<1>2. \A i \in 1..Len(Plan) :
         \/ i \in 1..Len(Design)
         \/ i \in {Len(Design) + 1, Len(Design) + 2, LoopAt, Len(Design) + 4,
                   Len(Design) + 5, Len(Design) + 6, ReviewAt,
                   Len(Design) + 8}
    BY PlanShape DEF LoopAt, ReviewAt
<1>3. \A i \in 1..Len(Plan) :
         /\ Plan[i] = Review <=> i = ReviewAt
         /\ Plan[i] = Repair <=> i = LoopAt
         /\ Plan[i] = Qa <=> i \in {LoopAt - 1, LoopAt + 1}
    BY <1>1, <1>2, PlanShape, SMTT(30) DEF Qa, Repair, Review, LoopAt, ReviewAt
<1>4. LoopAt \in 1..Len(Plan) /\ LoopAt + 1 \in 1..Len(Plan)
    BY PlanShape DEF LoopAt
<1> QED  BY <1>3, <1>4, PlanShape DEF Phases, LoopAt

\* A set of numbers with an upper bound has a greatest one: the least of its
\* upper bounds.
LEMMA MaximumExists ==
    ASSUME NEW S \in SUBSET Nat, S # {},
           NEW m \in Nat, \A x \in S : x <= m
    PROVE  \E x \in S : \A y \in S : y <= x
<1> DEFINE Less  == {p \in Nat \X Nat : p[1] < p[2]}
           Above == {n \in Nat : \A x \in S : x <= n}
<1>1. IsWellFoundedOn(Less, Nat)
    BY NatLessThanWellFounded DEF OpToRel
<1>2. m \in Above /\ Above \subseteq Nat
    OBVIOUS
<1>3. PICK n \in Above : \A k \in Above : <<k, n>> \notin Less
    BY <1>1, <1>2, WFMin, ZenonT(30)
<1>4. ASSUME NEW k \in Above PROVE n <= k
    <2>1. <<k, n>> \in Nat \X Nat /\ ~(<<k, n>>[1] < <<k, n>>[2])
        BY <1>3
    <2> QED  BY <2>1
<1>5. n \in S
    <2> SUFFICES ASSUME n \notin S PROVE FALSE
        OBVIOUS
    <2> PICK x \in S : TRUE
        OBVIOUS
    <2>1. n \in Nat /\ \A y \in S : y < n
        BY <1>3
    <2>2. n - 1 \in Above
        BY <2>1
    <2> QED  BY <1>4, <2>1, <2>2
<1> QED  BY <1>3, <1>5

-----------------------------------------------------------------------------
(* Types.  next_phase_attempt is total because the numbers have a bound.   *)

NumbersBounded == \E m \in Nat : \A a \in attempts : a.n <= m

\* Where a run is in the plan, at the places that only one phase has.
Placed ==
    \A r \in Runs :
        /\ pc[r] = "gate" => at[r] = ReviewAt
        /\ pc[r] \in Loop => at[r] = LoopAt
        /\ pc[r] = "work" => at[r] # LoopAt

TypeInv == TypeOK /\ NumbersBounded /\ Placed

\* NextAttempt is one more than the greatest number, or 1.
LEMMA NextAttemptIs ==
    ASSUME TypeInv, NEW p
    PROVE  /\ NextAttempt(p) \in Nat \ {0}
           /\ \A a \in attempts : a.phase = p => a.n < NextAttempt(p)
           /\ \/ NextAttempt(p) = 1
              \/ \E a \in attempts : a.phase = p /\ a.n = NextAttempt(p) - 1
<1> DEFINE numbers == {a.n : a \in {b \in attempts : b.phase = p}} \cup {0}
<1>1. numbers \in SUBSET Nat /\ numbers # {}
    BY DEF TypeInv, TypeOK
<1>2. \E m \in Nat : \A x \in numbers : x <= m
    <2> PICK m \in Nat : \A a \in attempts : a.n <= m
        BY DEF TypeInv, NumbersBounded
    <2>1. \A x \in numbers : x <= m
        OBVIOUS
    <2> QED  BY <2>1
<1>3. \E n \in numbers : \A m \in numbers : m <= n
    BY <1>1, <1>2, MaximumExists
<1> DEFINE top == CHOOSE n \in numbers : \A m \in numbers : m <= n
<1>4. top \in numbers /\ \A m \in numbers : m <= top
    BY <1>3
<1>5. NextAttempt(p) = top + 1
    BY DEF NextAttempt
<1> HIDE DEF top
<1>6. top \in Nat /\ NextAttempt(p) - 1 = top
    BY <1>1, <1>4, <1>5
<1>7. ASSUME NEW a \in attempts, a.phase = p PROVE a.n < NextAttempt(p)
    <2>1. a.n \in numbers
        BY <1>7
    <2>2. a.n \in Nat /\ a.n <= top
        BY <1>1, <1>4, <2>1
    <2> HIDE DEF numbers
    <2> QED  BY <1>5, <1>6, <2>2
<1>8. top = 0 \/ \E a \in attempts : a.phase = p /\ a.n = top
    BY <1>4
<1> QED  BY <1>5, <1>6, <1>7, <1>8

\* The INSERT and the UPDATE keep the type and a bound.
LEMMA InsertType ==
    ASSUME TypeInv, NEW r \in Runs, NEW p \in Phases, NEW n \in Nat,
           InsertAttempt(r, p, n)
    PROVE  /\ attempts' \subseteq [phase : Phases, n : Nat, run : Runs,
                                   status : Statuses]
           /\ NumbersBounded'
<1>1. attempts' \subseteq [phase : Phases, n : Nat, run : Runs,
                           status : Statuses]
    BY DEF TypeInv, TypeOK, InsertAttempt, Statuses
<1>2. PICK m \in Nat : \A a \in attempts : a.n <= m
    BY DEF TypeInv, NumbersBounded
<1>3. m + n \in Nat /\ \A a \in attempts' : a.n <= m + n
    <2>1. ASSUME NEW a \in attempts PROVE a.n <= m + n
        <3>1. a.n \in Nat /\ a.n <= m
            BY <1>2, <2>1 DEF TypeInv, TypeOK
        <3> QED  BY <3>1
    <2>2. n <= m + n
        OBVIOUS
    <2> QED  BY <2>1, <2>2 DEF InsertAttempt
<1> QED  BY <1>1, <1>3 DEF NumbersBounded

\* The UPDATE: the rows with this number get the status, and no row goes.
LEMMA FinishEffect ==
    ASSUME TypeInv, NEW p, NEW n, NEW st \in Statuses,
           FinishAttempt(p, n, st)
    PROVE  /\ \A b \in attempts' : \E a \in attempts :
                 /\ b.phase = a.phase /\ b.n = a.n /\ b.run = a.run
                 /\ IF a.phase = p /\ a.n = n THEN b.status = st ELSE b = a
           /\ \A a \in attempts : \E b \in attempts' :
                 /\ b.phase = a.phase /\ b.n = a.n /\ b.run = a.run
<1> DEFINE New(a) == IF a.phase = p /\ a.n = n
                     THEN [a EXCEPT !.status = st] ELSE a
<1>1. attempts' = {New(a) : a \in attempts}
    BY DEF FinishAttempt
<1>2. ASSUME NEW a \in attempts
      PROVE  /\ New(a).phase = a.phase /\ New(a).n = a.n
             /\ New(a).run = a.run
             /\ IF a.phase = p /\ a.n = n THEN New(a).status = st
                                          ELSE New(a) = a
    BY DEF TypeInv, TypeOK
<1> HIDE DEF New
<1> QED  BY <1>1, <1>2

LEMMA FinishType ==
    ASSUME TypeInv, NEW p, NEW n, NEW st \in Statuses,
           FinishAttempt(p, n, st)
    PROVE  /\ attempts' \subseteq [phase : Phases, n : Nat, run : Runs,
                                   status : Statuses]
           /\ NumbersBounded'
<1>1. attempts' \subseteq [phase : Phases, n : Nat, run : Runs,
                           status : Statuses]
    <2> SUFFICES ASSUME NEW a \in attempts
                 PROVE  (IF a.phase = p /\ a.n = n
                         THEN [a EXCEPT !.status = st] ELSE a)
                            \in [phase : Phases, n : Nat, run : Runs,
                                status : Statuses]
        BY DEF FinishAttempt
    <2> QED  BY DEF TypeInv, TypeOK
<1>2. PICK m \in Nat : \A a \in attempts : a.n <= m
    BY DEF TypeInv, NumbersBounded
<1>3. \A b \in attempts' : b.n <= m
    BY <1>2, FinishEffect
<1> QED  BY <1>3, <1>1 DEF NumbersBounded

-----------------------------------------------------------------------------
(* Type correctness.                                                       *)

\* Facts about the places that the steps below use.
LEMMA PlaceNames ==
    /\ Outer \subseteq Active /\ Loop \subseteq Active
    /\ Active \subseteq Places
    /\ "gate" \notin Loop /\ "work" \notin Loop
    /\ Outer \cap Loop = {} /\ "after" \notin Loop \cup Outer
    /\ {"verdict", "queued", "done", "lost", "idle", "gate"}
          \subseteq Places \ (Outer \cup Loop)
BY DEF Outer, Loop, Active, Places

\* A run ends: it goes to the verdict.
LEMMA EndType ==
    ASSUME TypeInv, NEW r \in Runs,
           NEW how \in {"succeeded", "failed", "cancelled"}, End(r, how)
    PROVE  /\ pc' \in [Runs -> Places]
           /\ outcome' \in [Runs -> {"none", "succeeded", "failed",
                                     "cancelled"}]
           /\ pc' = [pc EXCEPT ![r] = "verdict"]
BY PlaceNames DEF End, Goto, TypeInv, TypeOK

\* A step that moves r only, to a place that fits where it is in the plan.
LEMMA MovePlaced ==
    ASSUME TypeInv, NEW r \in Runs, NEW place \in Places, Goto(r, place),
           \A q \in Runs \ {r} : at'[q] = at[q],
           place = "gate" => at'[r] = ReviewAt,
           place \in Loop => at'[r] = LoopAt,
           place = "work" => at'[r] # LoopAt
    PROVE  pc' \in [Runs -> Places] /\ Placed'
BY DEF Goto, TypeInv, TypeOK, Placed

LEMMA ObserveType ==
    ASSUME TypeInv, NEW S, Observe(S)
    PROVE  late' \in [Runs -> Nat]
BY DEF Observe, TypeInv, TypeOK

LEMMA WriteRowType ==
    ASSUME TypeInv, NEW r \in Runs, NEW st \in Statuses,
           NEW next \in Places \ {"gate"},
           next \in Loop => at[r] = LoopAt,
           next = "work" => at[r] # LoopAt,
           WriteRow(r, st, next)
    PROVE  TypeInv'
<1> USE DEF observers
<1>1. /\ UNCHANGED <<job, attempts, tree, reports, at, rec, num, sub, round,
                     events, faults, overlapped, disturbed, late>>
      /\ \/ Goto(r, next) /\ outcome' = outcome
         \/ End(r, "failed")
      /\ \/ rows' = rows
         \/ rows' = [WithDefaults(rows) EXCEPT ![PhaseOf(r)] = st]
    BY DEF WriteRow
<1>2. rows' \in [Phases -> Statuses \cup {"none", "pending"}]
    BY <1>1 DEF TypeInv, TypeOK, WithDefaults
<1>3. /\ pc' \in [Runs -> Places] /\ Placed'
      /\ outcome' \in [Runs -> {"none", "succeeded", "failed", "cancelled"}]
    <2>1. CASE Goto(r, next) /\ outcome' = outcome
        BY <1>1, <2>1, MovePlaced DEF TypeInv, TypeOK
    <2>2. CASE End(r, "failed")
        BY <1>1, <2>2, EndType, MovePlaced, PlaceNames DEF End
    <2> QED  BY <1>1, <2>1, <2>2
<1> QED  BY <1>1, <1>2, <1>3 DEF TypeInv, TypeOK, NumbersBounded

ReportsType ==
    [ReportNames -> [status : {"PASS", "FAIL", "MISSING"},
                     by : Runs \cup {None}, fresh : BOOLEAN]]

LEMMA WritesType ==
    ASSUME TypeInv, NEW r \in Runs, NEW written,
           \A name \in DOMAIN written : written[name] \in BOOLEAN,
           Writes(r, written)
    PROVE  reports' \in ReportsType
BY DEF Writes, Report, ReportsType, TypeInv, TypeOK

LEMMA FactsType == \A f \in Facts, name \in FactNames : f[name] \in BOOLEAN
BY PipelineAssumption

LEMMA QaChecksType ==
    ASSUME TypeInv, NEW r \in Runs, NEW release \in BOOLEAN,
           RunQaChecks(r, release)
    PROVE  /\ reports' \in ReportsType
           /\ tree' \in BOOLEAN
<1> DEFINE written(f) == [test       |-> TestVerdict(f, release),
                          bugs       |-> NoBugs(f, release),
                          production |-> ProductionVerdict(f, release)]
<1>1. PICK f \in Facts : Writes(r, written(f))
    BY DEF RunQaChecks
<1>2. /\ TestVerdict(f, release) \in BOOLEAN
      /\ NoBugs(f, release) \in BOOLEAN
      /\ ProductionVerdict(f, release) \in BOOLEAN
    BY DEF TestVerdict, NoBugs, ProductionVerdict
<1>3. \A name \in DOMAIN written(f) : written(f)[name] \in BOOLEAN
    BY <1>2
<1> HIDE DEF written
<1> QED  BY <1>1, <1>3, WritesType DEF RunQaChecks, TypeInv, TypeOK

LEMMA OutdatedType ==
    ASSUME TypeInv PROVE Outdated(reports) \in ReportsType
<1>1. ASSUME NEW name \in ReportNames
      PROVE  [reports[name] EXCEPT !.fresh = FALSE] \in
                 [status : {"PASS", "FAIL", "MISSING"},
                  by : Runs \cup {None}, fresh : BOOLEAN]
    <2>1. reports[name] \in [status : {"PASS", "FAIL", "MISSING"},
                             by : Runs \cup {None}, fresh : BOOLEAN]
        BY DEF TypeInv, TypeOK
    <2> QED  BY <2>1
<1> QED  BY <1>1 DEF Outdated, ReportsType

LEMMA RefactorType ==
    ASSUME TypeInv, NEW r \in Runs, RunRefactor(r)
    PROVE  /\ reports' \in ReportsType
           /\ tree' \in BOOLEAN
<1> PICK f \in Facts :
        reports' = [Outdated(reports) EXCEPT !["refactor"] =
                       Report(r, RefactorVerdict(f))]
    BY DEF RunRefactor
<1>1. Outdated(reports) \in ReportsType
    BY OutdatedType
<1>2. Report(r, RefactorVerdict(f)) \in
          [status : {"PASS", "FAIL", "MISSING"},
           by : Runs \cup {None}, fresh : BOOLEAN]
    BY DEF Report
<1> QED  BY <1>1, <1>2 DEF RunRefactor, ReportsType, TypeInv, TypeOK

LEMMA OperationType ==
    ASSUME TypeInv, NEW r \in Runs, Operation(r)
    PROVE  /\ reports' \in ReportsType
           /\ tree' \in BOOLEAN
<1>1. CASE WriteDesign \/ ExportSourceArchive
    BY <1>1 DEF WriteDesign, ExportSourceArchive, ReportsType, TypeInv, TypeOK
<1>2. CASE WriteSource
    BY <1>2, OutdatedType DEF WriteSource
<1>3. CASE RunQaChecks(r, Plan[at[r] - 1] = Repair)
    BY <1>3, QaChecksType
<1>4. CASE RunRuntimeVerification(r)
    <2> DEFINE written(f) == [runtime |-> RuntimeVerdict(f)]
    <2>1. PICK f \in Facts : Writes(r, written(f))
        BY <1>4 DEF RunRuntimeVerification
    <2>2. \A name \in DOMAIN written(f) : written(f)[name] \in BOOLEAN
        BY FactsType DEF RuntimeVerdict, FactNames
    <2> HIDE DEF written
    <2> QED  BY <1>4, <2>1, <2>2, WritesType
             DEF RunRuntimeVerification, TypeInv, TypeOK
<1>5. CASE WriteSecurityDocuments(r)
    <2> DEFINE written(f) == [security |-> SecurityVerdict(f)]
    <2>1. PICK f \in Facts : Writes(r, written(f))
        BY <1>5 DEF WriteSecurityDocuments
    <2>2. \A name \in DOMAIN written(f) : written(f)[name] \in BOOLEAN
        BY FactsType DEF SecurityVerdict, FactNames
    <2> HIDE DEF written
    <2> QED  BY <1>5, <2>1, <2>2, WritesType
             DEF WriteSecurityDocuments, TypeInv, TypeOK
<1>6. CASE WriteReviewDocuments(r)
    <2> DEFINE written == [review |-> ReviewVerdict]
    <2>1. Writes(r, written)
        BY <1>6 DEF WriteReviewDocuments
    <2>2. ReviewVerdict \in BOOLEAN
        BY DEF ReviewVerdict, Pass
    <2>3. \A name \in DOMAIN written : written[name] \in BOOLEAN
        BY <2>2
    <2> HIDE DEF written
    <2> QED  BY <1>6, <2>1, <2>3, WritesType
             DEF WriteReviewDocuments, TypeInv, TypeOK
<1> QED  BY <1>1, <1>2, <1>3, <1>4, <1>5, <1>6 DEF Operation

\* A run that is about to record a verdict has one.
Decided == \A r \in Runs : pc[r] = "verdict" => outcome[r] # "none"

\* Submit, Start, Upsert and Verdict: the job around the run.
LEMMA JobTypeStep ==
    ASSUME TypeInv, Decided, NEW r \in Runs,
           Submit(r) \/ Start(r) \/ Upsert(r) \/ Verdict(r)
    PROVE  TypeInv'
<1> USE DEF locals, LiveStatuses
<1>1. late' \in [Runs -> Nat]
    BY ObserveType DEF Submit, Start, Upsert, Verdict, TypeInv, TypeOK
<1>2. CASE Submit(r)
    <2>1. pc' \in [Runs -> Places] /\ Placed'
        BY <1>2, MovePlaced, PlaceNames DEF Submit
    <2> QED  BY <1>1, <1>2, <2>1 DEF Submit, TypeInv, TypeOK, NumbersBounded
<1>3. CASE Start(r)
    <2>1. /\ pc' \in [Runs -> Places] /\ Placed'
          /\ outcome' \in [Runs -> {"none", "succeeded", "failed",
                                    "cancelled"}]
        <3>1. CASE End(r, "cancelled")
            BY <1>3, <3>1, EndType, MovePlaced, PlaceNames DEF Start, End
        <3>2. CASE Goto(r, "upsert") /\ UNCHANGED outcome
            BY <1>3, <3>2, MovePlaced, PlaceNames
            DEF Start, TypeInv, TypeOK, Outer
        <3> QED  BY <1>3, <3>1, <3>2 DEF Start
    <2>2. overlapped' \subseteq Runs
        BY <1>3 DEF Start, NoteOverlap, TypeInv, TypeOK
    <2> QED  BY <1>1, <1>3, <2>1, <2>2
             DEF Start, stores, TypeInv, TypeOK, NumbersBounded
<1>5. CASE Upsert(r)
    <2>1. pc' \in [Runs -> Places] /\ Placed'
        BY <1>5, MovePlaced, PlaceNames DEF Upsert, Outer
    <2>2. rows' \in [Phases -> Statuses \cup {"none", "pending"}]
        BY <1>5 DEF Upsert, WithDefaults, TypeInv, TypeOK
    <2> QED  BY <1>1, <1>5, <2>1, <2>2
             DEF Upsert, TypeInv, TypeOK, NumbersBounded
<1>4. CASE Verdict(r)
    <2>1. pc' \in [Runs -> Places] /\ Placed'
        BY <1>4, MovePlaced, PlaceNames DEF Verdict
    <2>2. outcome' \in [Runs -> {"none", "succeeded", "failed", "cancelled"}]
        BY <1>4 DEF Verdict, TypeInv, TypeOK
    <2>3. job' \in {"succeeded", "failed", "cancelled"}
        BY <1>4 DEF Verdict, Decided, TypeInv, TypeOK
    <2> QED  BY <1>1, <1>4, <2>1, <2>2, <2>3
             DEF Verdict, TypeInv, TypeOK, NumbersBounded
<1> QED  BY <1>2, <1>3, <1>4, <1>5

\* The wrapper of a phase.
LEMMA PhaseTypeStep ==
    ASSUME TypeInv, NEW r \in Runs,
           \/ Begin(r) \/ Insert(r) \/ StartRow(r) \/ Work(r) \/ After(r)
           \/ RowFailed(r) \/ ClosePassed(r) \/ CloseFailed(r)
           \/ CloseCancelled(r) \/ Gate(r)
    PROVE  TypeInv'
<1> USE DEF stores, locals, observers
<1>0. at[r] \in 1..Len(Plan) /\ PhaseOf(r) \in Phases
      /\ (PhaseOf(r) = Repair <=> at[r] = LoopAt)
      /\ (PhaseOf(r) = Review <=> at[r] = ReviewAt)
    BY PlanNames DEF PhaseOf, TypeInv, TypeOK
<1>1. CASE Begin(r)
    <2>1. num' \in [Runs -> Nat]
        <3>1. num \in [Runs -> Nat] /\ NextAttempt(PhaseOf(r)) \in Nat
            BY NextAttemptIs DEF TypeInv, TypeOK
        <3>2. num' = num \/ num' = [num EXCEPT ![r] = NextAttempt(PhaseOf(r))]
            BY <1>1 DEF Begin
        <3> QED  BY <3>1, <3>2
    <2>2. rec' \in [Runs -> BOOLEAN]
        BY <1>1 DEF Begin, TypeInv, TypeOK
    <2>3. /\ pc' \in [Runs -> Places] /\ Placed'
          /\ outcome' \in [Runs -> {"none", "succeeded", "failed",
                                    "cancelled"}]
        <3>1. CASE End(r, "cancelled")
            BY <1>1, <3>1, EndType, MovePlaced, PlaceNames DEF Begin, End
        <3>2. CASE Goto(r, "insert") /\ UNCHANGED outcome
            BY <1>1, <3>2, MovePlaced, PlaceNames
            DEF Begin, TypeInv, TypeOK, Outer
        <3> QED  BY <1>1, <3>1, <3>2 DEF Begin
    <2> QED  BY <1>1, <2>1, <2>2, <2>3
             DEF Begin, TypeInv, TypeOK, NumbersBounded
<1>2. CASE Insert(r)
    <2>1. /\ attempts' \subseteq [phase : Phases, n : Nat, run : Runs,
                                  status : Statuses]
          /\ NumbersBounded'
        BY <1>0, <1>2, InsertType DEF Insert, TypeInv, TypeOK
    <2>2. pc' \in [Runs -> Places] /\ Placed'
        BY <1>2, MovePlaced, PlaceNames DEF Insert, Outer
    <2>3. late' \in [Runs -> Nat]
        BY <1>2, ObserveType DEF Insert
    <2> QED  BY <1>2, <2>1, <2>2, <2>3 DEF Insert, TypeInv, TypeOK
<1>3. CASE StartRow(r)
    <2>1. CASE PhaseOf(r) = Repair
        BY <1>0, <1>3, <2>1, WriteRowType, PlaceNames
        DEF StartRow, Loop, Statuses
    <2>2. CASE PhaseOf(r) # Repair
        BY <1>0, <1>3, <2>2, WriteRowType, PlaceNames
        DEF StartRow, Active, Statuses
    <2> QED  BY <2>1, <2>2
<1>4. CASE Work(r)
    <2>1. reports' \in ReportsType /\ tree' \in BOOLEAN
        BY <1>4, OperationType DEF Work
    <2>2. pc' \in [Runs -> Places] /\ Placed'
        BY <1>4, MovePlaced, PlaceNames DEF Work, Active
    <2> QED  BY <1>4, <2>1, <2>2
             DEF Work, ReportsType, TypeInv, TypeOK, NumbersBounded
<1>5. CASE After(r)
    BY <1>5, WriteRowType, PlaceNames DEF After, Outer, Statuses
<1>6. CASE RowFailed(r)
    BY <1>6, WriteRowType, PlaceNames DEF RowFailed, Outer, Statuses
<1>7. CASE CloseFailed(r) \/ CloseCancelled(r)
    <2> PICK st \in {"failed", "cancelled"} :
            /\ FinishAttempt(PhaseOf(r), num[r], st) /\ End(r, st)
            /\ UNCHANGED <<job, rows, tree, reports, at, rec, num, sub,
                           round, events, observers>>
        BY <1>7 DEF CloseFailed, CloseCancelled
    <2>1. /\ attempts' \subseteq [phase : Phases, n : Nat, run : Runs,
                                  status : Statuses]
          /\ NumbersBounded'
        BY FinishType DEF Statuses
    <2>2. /\ pc' \in [Runs -> Places] /\ Placed'
          /\ outcome' \in [Runs -> {"none", "succeeded", "failed",
                                    "cancelled"}]
        BY EndType, MovePlaced, PlaceNames DEF End
    <2> QED  BY <2>1, <2>2 DEF TypeInv, TypeOK
<1>8. CASE ClosePassed(r)
    <2>1. /\ attempts' \subseteq [phase : Phases, n : Nat, run : Runs,
                                  status : Statuses]
          /\ NumbersBounded'
        BY <1>8, FinishType DEF ClosePassed, Statuses
    <2>2. /\ pc' \in [Runs -> Places] /\ Placed'
          /\ outcome' \in [Runs -> {"none", "succeeded", "failed",
                                    "cancelled"}]
          /\ at' \in [Runs -> 1..Len(Plan)]
        <3>1. CASE End(r, "succeeded") /\ UNCHANGED at
            BY <3>1, EndType, MovePlaced, PlaceNames DEF End, TypeInv, TypeOK
        <3>2. CASE PhaseOf(r) = Review /\ Goto(r, "gate")
                   /\ UNCHANGED <<at, outcome>>
            BY <1>0, <3>2, MovePlaced, PlaceNames DEF TypeInv, TypeOK
        <3>3. CASE /\ at[r] < Len(Plan) /\ at' = [at EXCEPT ![r] = @ + 1]
                   /\ Goto(r, "begin") /\ UNCHANGED outcome
            <4>1. at' \in [Runs -> 1..Len(Plan)]
                BY <1>0, <3>3, PlanShape, SMTT(30) DEF TypeInv, TypeOK
            <4> QED  BY <3>3, <4>1, MovePlaced, PlaceNames
                     DEF TypeInv, TypeOK, Outer
        <3> QED  BY <1>8, <3>1, <3>2, <3>3 DEF ClosePassed
    <2> QED  BY <1>8, <2>1, <2>2 DEF ClosePassed, TypeInv, TypeOK
<1>9. CASE Gate(r)
    <2>1. /\ pc' \in [Runs -> Places] /\ Placed'
          /\ outcome' \in [Runs -> {"none", "succeeded", "failed",
                                    "cancelled"}]
          /\ at' \in [Runs -> 1..Len(Plan)]
        <3>1. CASE End(r, "failed") /\ UNCHANGED at
            BY <3>1, EndType, MovePlaced, PlaceNames DEF End, TypeInv, TypeOK
        <3>2. CASE /\ at' = [at EXCEPT ![r] = @ + 1]
                   /\ Goto(r, "begin") /\ UNCHANGED outcome
            <4>1. at[r] = ReviewAt
                BY <1>9 DEF Gate, TypeInv, Placed
            <4>2. at' \in [Runs -> 1..Len(Plan)]
                BY <3>2, <4>1, PlanShape DEF TypeInv, TypeOK, ReviewAt
            <4> QED  BY <3>2, <4>2, MovePlaced, PlaceNames
                     DEF TypeInv, TypeOK, Outer
        <3> QED  BY <1>9, <3>1, <3>2 DEF Gate
    <2> QED  BY <1>9, <2>1 DEF Gate, TypeInv, TypeOK, NumbersBounded
<1> QED  BY <1>1, <1>2, <1>3, <1>4, <1>5, <1>6, <1>7, <1>8, <1>9

\* The repair loop.
LEMMA LoopTypeStep ==
    ASSUME TypeInv, NEW r \in Runs,
           \/ QaCount(r) \/ QaInsert(r) \/ QaWork(r) \/ QaRead(r)
           \/ QaFailed(r) \/ FixCount(r) \/ FixInsert(r) \/ FixWork(r)
           \/ FixRead(r) \/ FixFailed(r) \/ WriteHistory(r)
    PROVE  TypeInv'
<1> USE DEF stores, locals, observers
<1>0. pc[r] \in Loop /\ at[r] = LoopAt
    <2>1. pc[r] \in Loop
        BY DEF QaCount, QaInsert, QaWork, QaRead, QaFailed, FixCount,
               FixInsert, FixWork, FixRead, FixFailed, WriteHistory,
               InsertStep, StepFailed, Loop
    <2> QED  BY <2>1 DEF TypeInv, Placed
<1>1. CASE QaCount(r) \/ FixCount(r)
    <2>1. sub' \in [Runs -> Nat]
        <3>1. NextAttempt(Qa) \in Nat /\ NextAttempt(Repair) \in Nat
            BY NextAttemptIs
        <3> QED  BY <1>1, <3>1 DEF QaCount, FixCount, TypeInv, TypeOK
    <2>2. pc' \in [Runs -> Places] /\ Placed'
        BY <1>0, <1>1, MovePlaced, PlaceNames DEF QaCount, FixCount, Loop
    <2> QED  BY <1>1, <2>1, <2>2
             DEF QaCount, FixCount, TypeInv, TypeOK, NumbersBounded
<1>2. CASE QaInsert(r) \/ FixInsert(r)
    <2> PICK p \in {Qa, Repair}, place \in Loop, next \in Loop :
            InsertStep(r, place, p, next)
        BY <1>2 DEF QaInsert, FixInsert, Loop
    <2>1. /\ attempts' \subseteq [phase : Phases, n : Nat, run : Runs,
                                  status : Statuses]
          /\ NumbersBounded'
        BY PlanNames, InsertType DEF InsertStep, TypeInv, TypeOK
    <2>2. pc' \in [Runs -> Places] /\ Placed'
        BY <1>0, MovePlaced, PlaceNames DEF InsertStep
    <2>3. late' \in [Runs -> Nat]
        BY ObserveType DEF InsertStep
    <2> QED  BY <2>1, <2>2, <2>3 DEF InsertStep, TypeInv, TypeOK
<1>3. CASE QaWork(r) \/ FixWork(r)
    <2>1. reports' \in ReportsType /\ tree' \in BOOLEAN
        BY <1>3, QaChecksType, RefactorType DEF QaWork, FixWork
    <2>2. pc' \in [Runs -> Places] /\ Placed'
        BY <1>0, <1>3, MovePlaced, PlaceNames DEF QaWork, FixWork, Loop
    <2> QED  BY <1>3, <2>1, <2>2
             DEF QaWork, FixWork, ReportsType, TypeInv, TypeOK, NumbersBounded
<1>4. CASE WriteHistory(r)
    <2> DEFINE ok == \A i \in 1..Len(events[r]) : events[r][i] # "FAIL"
               written == [repair |-> ok]
    <2>1. Writes(r, written)
        BY <1>4 DEF WriteHistory
    <2>2. ok \in BOOLEAN
        OBVIOUS
    <2> HIDE DEF ok
    <2>3. \A name \in DOMAIN written : written[name] \in BOOLEAN
        BY <2>2
    <2> HIDE DEF written
    <2>4. reports' \in ReportsType
        BY <2>1, <2>3, WritesType
    <2>5. pc' \in [Runs -> Places] /\ Placed'
        BY <1>0, <1>4, MovePlaced, PlaceNames DEF WriteHistory, Active
    <2> QED  BY <1>4, <2>4, <2>5
             DEF WriteHistory, ReportsType, TypeInv, TypeOK, NumbersBounded
<1>5. CASE QaFailed(r) \/ FixFailed(r)
    <2> PICK p \in {Qa, Repair}, place \in Loop : StepFailed(r, place, p)
        BY <1>5 DEF QaFailed, FixFailed, Loop
    <2>1. /\ attempts' \subseteq [phase : Phases, n : Nat, run : Runs,
                                  status : Statuses]
          /\ NumbersBounded'
        BY FinishType DEF StepFailed, Statuses
    <2>2. pc' \in [Runs -> Places] /\ Placed'
        BY MovePlaced, PlaceNames DEF StepFailed, Outer
    <2> QED  BY <2>1, <2>2 DEF StepFailed, TypeInv, TypeOK
<1>6. CASE QaRead(r)
    <2> DEFINE passed == Pass("test") /\ Pass("production")
               st == IF passed THEN "passed" ELSE "failed"
    <2>1. /\ attempts' \subseteq [phase : Phases, n : Nat, run : Runs,
                                  status : Statuses]
          /\ NumbersBounded'
        <3>1. st \in Statuses /\ FinishAttempt(Qa, sub[r], st)
            BY <1>6 DEF QaRead, Statuses
        <3> HIDE DEF st
        <3> QED  BY <3>1, FinishType
    <2>2. events' \in [Runs -> Seq({"PASS", "FAIL", "MISSING"})]
        <3>1. events[r] \in Seq({"PASS", "FAIL", "MISSING"})
            BY DEF TypeInv, TypeOK
        <3> DEFINE word == IF passed THEN "PASS" ELSE "FAIL"
                   all == Append(events[r], word)
        <3>2. word \in {"PASS", "FAIL", "MISSING"}
            OBVIOUS
        <3> HIDE DEF word
        <3>3. /\ all \in Seq({"PASS", "FAIL", "MISSING"}) /\ all # <<>>
            BY <3>1, <3>2
        <3>4. Tail(all) \in Seq({"PASS", "FAIL", "MISSING"})
            BY <3>3
        <3>5. events' = [events EXCEPT ![r] =
                            IF Len(all) > 3 THEN Tail(all) ELSE all]
            BY <1>6 DEF QaRead, LogEvent, word
        <3> HIDE DEF all
        <3> QED  BY <3>3, <3>4, <3>5 DEF TypeInv, TypeOK
    <2>3. round' \in [Runs -> 0..MaxRepair + 1]
        <3>1. round[r] \in 0..MaxRepair + 1 /\ MaxRepair \in Nat
            BY PipelineAssumption DEF TypeInv, TypeOK
        <3>2. \/ round' = round
              \/ \E k \in 0..MaxRepair + 1 : round' = [round EXCEPT ![r] = k]
            BY <1>6, <3>1 DEF QaRead
        <3> QED  BY <3>2 DEF TypeInv, TypeOK
    <2>4. pc' \in [Runs -> Places] /\ Placed'
        BY <1>0, <1>6, MovePlaced, PlaceNames DEF QaRead, Loop
    <2> QED  BY <1>6, <2>1, <2>2, <2>3, <2>4 DEF QaRead, TypeInv, TypeOK
<1>7. CASE FixRead(r)
    <2>1. /\ attempts' \subseteq [phase : Phases, n : Nat, run : Runs,
                                  status : Statuses]
          /\ NumbersBounded'
        BY <1>7, FinishType DEF FixRead, Statuses
    <2>2. events' \in [Runs -> Seq({"PASS", "FAIL", "MISSING"})]
        <3> DEFINE word == reports["refactor"].status
                   all == Append(events[r], word)
        <3>1. events[r] \in Seq({"PASS", "FAIL", "MISSING"})
            BY DEF TypeInv, TypeOK
        <3>2. word \in {"PASS", "FAIL", "MISSING"}
            BY DEF TypeInv, TypeOK, ReportNames
        <3> HIDE DEF word
        <3>3. /\ all \in Seq({"PASS", "FAIL", "MISSING"}) /\ all # <<>>
            BY <3>1, <3>2
        <3>4. Tail(all) \in Seq({"PASS", "FAIL", "MISSING"})
            BY <3>3
        <3>5. events' = [events EXCEPT ![r] =
                            IF Len(all) > 3 THEN Tail(all) ELSE all]
            BY <1>7 DEF FixRead, LogEvent, word
        <3> HIDE DEF all
        <3> QED  BY <3>3, <3>4, <3>5 DEF TypeInv, TypeOK
    <2>3. round' \in [Runs -> 0..MaxRepair + 1]
        <3>1. round[r] \in 0..MaxRepair + 1 /\ MaxRepair \in Nat
            BY PipelineAssumption DEF TypeInv, TypeOK
        <3>2. \/ round' = round
              \/ \E k \in 0..MaxRepair + 1 : round' = [round EXCEPT ![r] = k]
            BY <1>7, <3>1 DEF FixRead
        <3> QED  BY <3>2 DEF TypeInv, TypeOK
    <2>4. pc' \in [Runs -> Places] /\ Placed'
        BY <1>0, <1>7, MovePlaced, PlaceNames DEF FixRead, Loop
    <2> QED  BY <1>7, <2>1, <2>2, <2>3, <2>4 DEF FixRead, TypeInv, TypeOK
<1> QED  BY <1>1, <1>2, <1>3, <1>4, <1>5, <1>6, <1>7

LEMMA Unmoved ==
    ASSUME TypeInv
    PROVE  /\ UNCHANGED attempts => NumbersBounded'
           /\ UNCHANGED <<pc, at>> => Placed'
BY DEF TypeInv, NumbersBounded, Placed

\* Exceptions, lost processes, and requests.
LEMMA FaultTypeStep ==
    ASSUME TypeInv,
           \/ CancelJob \/ \E purge \in BOOLEAN : DeleteJob(purge)
           \/ \E r \in Runs : InputMissing(r) \/ Fault(r)
    PROVE  TypeInv'
<1> USE DEF stores, locals, observers
<1>1. CASE CancelJob
    <2>1. late' \in [Runs -> Nat]
        BY <1>1, ObserveType DEF CancelJob
    <2>2. /\ job' \in LiveStatuses \cup {"absent", "succeeded", "failed",
                                           "cancelled"}
          /\ faults' \in Nat
        BY <1>1 DEF CancelJob, TypeInv, TypeOK, LiveStatuses
    <2> QED  BY <1>1, <2>1, <2>2, Unmoved DEF CancelJob, TypeInv, TypeOK
<1>2. ASSUME NEW purge \in BOOLEAN, DeleteJob(purge) PROVE TypeInv'
    <2>1. late' \in [Runs -> Nat]
        BY <1>2, ObserveType DEF DeleteJob
    <2>2. reports' \in ReportsType
        BY <1>2 DEF DeleteJob, Missing, ReportsType, TypeInv, TypeOK
    <2>3. /\ disturbed' \subseteq Runs /\ tree' \in BOOLEAN
          /\ rows' \in [Phases -> Statuses \cup {"none", "pending"}]
        BY <1>2 DEF DeleteJob, TypeInv, TypeOK
    <2>4. TypeOK'
        BY <1>2, <2>1, <2>2, <2>3 DEF DeleteJob, ReportsType, TypeInv, TypeOK
    <2> QED  BY <1>2, <2>4, Unmoved DEF DeleteJob, TypeInv
<1>3. ASSUME NEW r \in Runs, InputMissing(r) \/ Raises(r) PROVE TypeInv'
    <2>1. /\ pc[r] \in {"work", "after"} \cup Loop
          /\ Goto(r, HandlerOf(pc[r])) /\ UNCHANGED <<stores, locals, late>>
          /\ faults' \in {faults, faults + 1}
          /\ disturbed' \in {disturbed, disturbed \cup {r}}
          /\ UNCHANGED overlapped
        BY <1>3 DEF InputMissing, Raises, Impossible, Loop
    <2>2. pc' \in [Runs -> Places] /\ Placed'
        <3>1. CASE pc[r] \in {"qa_work", "qa_read", "fix_work", "fix_read"}
            <4>1. pc[r] \in Loop /\ HandlerOf(pc[r]) \in Loop
                BY <3>1 DEF HandlerOf, Loop
            <4> QED  BY <2>1, <4>1, MovePlaced, PlaceNames
                     DEF TypeInv, Placed
        <3>2. CASE pc[r] \notin {"qa_work", "qa_read", "fix_work", "fix_read"}
            <4>1. HandlerOf(pc[r]) = "row_failed"
                BY <3>2 DEF HandlerOf
            <4> QED  BY <2>1, <4>1, MovePlaced, PlaceNames DEF Outer
        <3> QED  BY <3>1, <3>2
    <2>3. TypeOK'
        <3>1. faults' \in Nat /\ disturbed' \subseteq Runs
            BY <2>1 DEF TypeInv, TypeOK
        <3> QED  BY <2>1, <2>2, <3>1 DEF TypeInv, TypeOK
    <2> QED  BY <2>1, <2>2, <2>3, Unmoved DEF TypeInv
<1>4. ASSUME NEW r \in Runs, BookkeepingRaises(r) PROVE TypeInv'
    <2>1. /\ pc' \in [Runs -> Places] /\ Placed'
          /\ outcome' \in [Runs -> {"none", "succeeded", "failed",
                                    "cancelled"}]
        BY <1>4, EndType, MovePlaced, PlaceNames DEF BookkeepingRaises, End
    <2>2. TypeOK'
        <3>1. faults' \in Nat /\ disturbed' \subseteq Runs
            BY <1>4 DEF BookkeepingRaises, TypeInv, TypeOK
        <3>2. UNCHANGED <<stores, at, rec, num, sub, round, events,
                          overlapped, late>>
            BY <1>4 DEF BookkeepingRaises
        <3> QED  BY <2>1, <3>1, <3>2 DEF TypeInv, TypeOK
    <2> QED  BY <1>4, <2>1, <2>2, Unmoved DEF BookkeepingRaises, TypeInv
<1>5. ASSUME NEW r \in Runs, Dies(r) PROVE TypeInv'
    <2>1. pc' \in [Runs -> Places] /\ Placed'
        BY <1>5, MovePlaced, PlaceNames DEF Dies
    <2>2. TypeOK'
        <3>1. faults' \in Nat
            BY <1>5 DEF Dies, TypeInv, TypeOK
        <3>2. UNCHANGED <<stores, locals, overlapped, disturbed, late>>
            BY <1>5 DEF Dies
        <3> QED  BY <2>1, <3>1, <3>2 DEF TypeInv, TypeOK
    <2> QED  BY <1>5, <2>1, <2>2, Unmoved DEF Dies, TypeInv
<1> QED  BY <1>1, <1>2, <1>3, <1>4, <1>5 DEF Fault

\* Only End leads to the verdict.
LEMMA DecidedStep == TypeInv /\ Decided /\ [Next]_vars => Decided'
<1> SUFFICES ASSUME TypeInv, Decided, [Next]_vars PROVE Decided'
    OBVIOUS
<1> USE DEF Decided, Goto, End, stores, locals
<1>0. /\ pc \in [Runs -> Places]
      /\ outcome \in [Runs -> {"none", "succeeded", "failed", "cancelled"}]
    BY DEF TypeInv, TypeOK
<1>1. ASSUME NEW r \in Runs, Submit(r) \/ RunStep(r) \/ Fault(r)
      PROVE  Decided'
    <2>1. CASE Submit(r) \/ Start(r) \/ Upsert(r) \/ Verdict(r)
               \/ Begin(r) \/ Gate(r)
        BY <1>0, <2>1 DEF Submit, Start, Upsert, Verdict, Begin, Gate
    <2>2. CASE Insert(r) \/ Work(r)
        BY <1>0, <2>2 DEF Insert, Work
    <2>3. CASE StartRow(r) \/ After(r) \/ RowFailed(r)
        BY <1>0, <2>3 DEF StartRow, After, RowFailed, WriteRow
    <2>4. CASE ClosePassed(r) \/ CloseFailed(r) \/ CloseCancelled(r)
        BY <1>0, <2>4 DEF ClosePassed, CloseFailed, CloseCancelled
    <2>5. CASE QaCount(r) \/ QaInsert(r) \/ QaWork(r) \/ QaFailed(r)
        BY <1>0, <2>5
        DEF QaCount, QaInsert, QaWork, QaFailed, InsertStep, StepFailed
    <2>6. CASE FixCount(r) \/ FixInsert(r) \/ FixWork(r) \/ FixFailed(r)
        BY <1>0, <2>6
        DEF FixCount, FixInsert, FixWork, FixFailed, InsertStep, StepFailed
    <2>7. CASE QaRead(r) \/ FixRead(r) \/ WriteHistory(r)
        BY <1>0, <2>7 DEF QaRead, FixRead, WriteHistory
    <2>8. CASE InputMissing(r) \/ Raises(r)
        BY <1>0, <2>8 DEF InputMissing, Raises, HandlerOf
    <2>9. CASE Dies(r) \/ BookkeepingRaises(r)
        BY <1>0, <2>9 DEF Dies, BookkeepingRaises
    <2> QED  BY <1>1, <2>1, <2>2, <2>3, <2>4, <2>5, <2>6, <2>7, <2>8, <2>9
             DEF RunStep, Fault
<1>2. CASE CancelJob \/ \E purge \in BOOLEAN : DeleteJob(purge)
    BY <1>2 DEF CancelJob, DeleteJob
<1>3. CASE UNCHANGED vars
    BY <1>3 DEF vars
<1> QED  BY <1>1, <1>2, <1>3 DEF Next

LEMMA TypeStep == TypeInv /\ Decided /\ [Next]_vars => TypeInv'
<1>1. TypeInv /\ Decided /\ Next => TypeInv'
    BY JobTypeStep, PhaseTypeStep, LoopTypeStep, FaultTypeStep
    DEF Next, RunStep
<1>2. TypeInv /\ UNCHANGED vars => TypeInv'
    BY Unmoved DEF vars, TypeInv, TypeOK
<1> QED  BY <1>1, <1>2

LEMMA TypeInit == Init => TypeInv
<1> SUFFICES ASSUME Init PROVE TypeInv
    OBVIOUS
<1>1. reports \in ReportsType
    BY DEF Init, Missing, ReportsType
<1>2. 0 \in 0..MaxRepair + 1 /\ 1 \in 1..Len(Plan)
    BY PipelineAssumption, PlanShape
<1>3. <<>> \in Seq({"PASS", "FAIL", "MISSING"})
    OBVIOUS
<1>4. TypeOK
    BY <1>1, <1>2, <1>3, PlaceNames DEF Init, ReportsType, TypeOK
<1>5. NumbersBounded /\ Placed
    BY PlaceNames DEF Init, NumbersBounded, Placed, Loop
<1> QED  BY <1>4, <1>5 DEF TypeInv

LEMMA DecidedAlways == Spec => [](TypeInv /\ Decided)
<1>1. Init => Decided
    BY DEF Init, Decided
<1> QED  BY <1>1, TypeInit, TypeStep, DecidedStep, PTL DEF Spec

LEMMA TypeAlways == Spec => []TypeInv
BY DecidedAlways, PTL

\* Type correctness: also next_phase_attempt finds a number in every state,
\* and no run leaves the plan.
THEOREM TypeCorrect == Spec => []TypeOK
<1>1. TypeInv => TypeOK
    BY DEF TypeInv
<1> QED  BY <1>1, TypeAlways, PTL

-----------------------------------------------------------------------------
(* What a step of one run leaves alone.                                    *)

StepOf(r) == Submit(r) \/ RunStep(r) \/ Fault(r)

Alike(q) ==
    /\ pc'[q] = pc[q] /\ at'[q] = at[q] /\ rec'[q] = rec[q]
    /\ num'[q] = num[q] /\ sub'[q] = sub[q] /\ round'[q] = round[q]

\* A run touches its own variables only, and the observers only grow.
LEMMA StepOfOneRun ==
    ASSUME TypeInv, NEW r \in Runs, StepOf(r)
    PROVE  /\ \A q \in Runs \ {r} : Alike(q)
           /\ overlapped \subseteq overlapped' /\ disturbed \subseteq disturbed'
<1> USE DEF stores, locals, observers, Alike
<1>0. /\ pc \in [Runs -> Places] /\ at \in [Runs -> 1..Len(Plan)]
      /\ rec \in [Runs -> BOOLEAN] /\ num \in [Runs -> Nat]
      /\ sub \in [Runs -> Nat] /\ round \in [Runs -> 0..MaxRepair + 1]
    BY DEF TypeInv, TypeOK
<1>1. CASE Submit(r) \/ Start(r) \/ Upsert(r) \/ Verdict(r)
    <2>1. CASE Submit(r)
        BY <1>0, <2>1 DEF Submit, Goto
    <2>2. CASE Start(r)
        <3>1. overlapped \subseteq overlapped'
            BY <2>2 DEF Start, NoteOverlap
        <3> QED  BY <1>0, <2>2, <3>1 DEF Start, Goto, End
    <2>3. CASE Upsert(r)
        BY <1>0, <2>3 DEF Upsert, Goto
    <2>4. CASE Verdict(r)
        BY <1>0, <2>4 DEF Verdict, Goto
    <2> QED  BY <1>1, <2>1, <2>2, <2>3, <2>4
<1>2. CASE Begin(r) \/ Insert(r) \/ Work(r) \/ Gate(r)
    BY <1>0, <1>2 DEF Begin, Insert, Work, Gate, Goto, End
<1>3. CASE StartRow(r) \/ After(r) \/ RowFailed(r)
    BY <1>0, <1>3 DEF StartRow, After, RowFailed, WriteRow, Goto, End
<1>4. CASE ClosePassed(r) \/ CloseFailed(r) \/ CloseCancelled(r)
    BY <1>0, <1>4 DEF ClosePassed, CloseFailed, CloseCancelled, Goto, End
<1>5. CASE QaCount(r) \/ QaInsert(r) \/ QaWork(r) \/ QaFailed(r)
    BY <1>0, <1>5
    DEF QaCount, QaInsert, QaWork, QaFailed, InsertStep, StepFailed, Goto
<1>6. CASE FixCount(r) \/ FixInsert(r) \/ FixWork(r) \/ FixFailed(r)
    BY <1>0, <1>6
    DEF FixCount, FixInsert, FixWork, FixFailed, InsertStep, StepFailed, Goto
<1>7. CASE QaRead(r) \/ FixRead(r) \/ WriteHistory(r)
    BY <1>0, <1>7 DEF QaRead, FixRead, WriteHistory, Goto
<1>8. CASE InputMissing(r) \/ Raises(r) \/ Dies(r) \/ BookkeepingRaises(r)
    BY <1>0, <1>8 DEF InputMissing, Raises, Dies, BookkeepingRaises, Goto, End
<1> QED  BY <1>1, <1>2, <1>3, <1>4, <1>5, <1>6, <1>7, <1>8
         DEF StepOf, RunStep, Fault

\* Only Start lets a run become active.
LEMMA ActiveOrSubmit ==
    ASSUME TypeInv, NEW r \in Runs, StepOf(r), ~Start(r)
    PROVE  pc[r] \in Active \/ (Submit(r) /\ pc'[r] = "queued")
<1> USE DEF Active, Outer, Loop
<1>1. CASE Submit(r)
    BY <1>1 DEF Submit, Goto, TypeInv, TypeOK
<1>2. CASE Upsert(r) \/ Verdict(r) \/ Begin(r) \/ Insert(r)
    BY <1>2 DEF Upsert, Verdict, Begin, Insert
<1>9. CASE Work(r) \/ Gate(r)
    BY <1>9 DEF Work, Gate
<1>3. CASE StartRow(r) \/ After(r) \/ RowFailed(r)
    BY <1>3 DEF StartRow, After, RowFailed
<1>4. CASE ClosePassed(r) \/ CloseFailed(r) \/ CloseCancelled(r)
    BY <1>4 DEF ClosePassed, CloseFailed, CloseCancelled
<1>5. CASE QaCount(r) \/ QaInsert(r) \/ QaWork(r) \/ QaFailed(r)
    BY <1>5 DEF QaCount, QaInsert, QaWork, QaFailed, InsertStep, StepFailed
<1>6. CASE FixCount(r) \/ FixInsert(r) \/ FixWork(r) \/ FixFailed(r)
    BY <1>6 DEF FixCount, FixInsert, FixWork, FixFailed, InsertStep, StepFailed
<1>7. CASE QaRead(r) \/ FixRead(r) \/ WriteHistory(r)
    BY <1>7 DEF QaRead, FixRead, WriteHistory
<1>8. CASE InputMissing(r) \/ Raises(r) \/ Dies(r) \/ BookkeepingRaises(r)
    BY <1>8 DEF InputMissing, Impossible, Raises, Dies, BookkeepingRaises
<1> QED  BY <1>1, <1>2, <1>3, <1>4, <1>5, <1>6, <1>7, <1>8,
         <1>9
         DEF StepOf, RunStep, Fault

\* The requests of a user leave every run where it is.
LEMMA RequestsOnly ==
    ASSUME TypeInv,
           \/ CancelJob \/ \E purge \in BOOLEAN : DeleteJob(purge)
           \/ UNCHANGED vars
    PROVE  /\ UNCHANGED <<attempts, pc, at, rec, num, sub, round, overlapped>>
           /\ disturbed \subseteq disturbed'
BY DEF CancelJob, DeleteJob, vars, locals

LEMMA NextCases ==
    ASSUME [Next]_vars
    PROVE  \/ \E r \in Runs : StepOf(r)
           \/ CancelJob \/ \E purge \in BOOLEAN : DeleteJob(purge)
           \/ UNCHANGED vars
BY DEF Next, StepOf

-----------------------------------------------------------------------------
(* Two runs that are active at once know of each other.                    *)

Aware ==
    \A r, q \in Runs :
        r # q /\ {pc[r], pc[q]} \subseteq Active => r \in overlapped

LEMMA AwareStep == TypeInv /\ Aware /\ [Next]_vars => Aware'
<1> SUFFICES ASSUME TypeInv, Aware, [Next]_vars PROVE Aware'
    OBVIOUS
<1>1. ASSUME NEW r \in Runs, StepOf(r) PROVE Aware'
    <2>1. CASE Start(r)
        <3>1. /\ \A q \in Runs \ {r} : pc'[q] = pc[q]
              /\ \A q \in Runs \ {r} :
                    pc[q] \in Active => {r, q} \subseteq overlapped'
              /\ overlapped \subseteq overlapped'
            BY <1>1, <2>1, StepOfOneRun DEF Start, NoteOverlap, Alike
        <3> QED  BY <3>1 DEF Aware
    <2>2. CASE ~Start(r)
        <3>1. /\ \A q \in Runs \ {r} : pc'[q] = pc[q]
              /\ overlapped \subseteq overlapped'
              /\ pc'[r] \in Active => pc[r] \in Active
            BY <1>1, <2>2, StepOfOneRun, ActiveOrSubmit
            DEF Alike, Active, Outer, Loop
        <3> QED  BY <3>1 DEF Aware
    <2> QED  BY <2>1, <2>2
<1>2. CASE UNCHANGED <<pc, overlapped>>
    BY <1>2 DEF Aware
<1> QED  BY <1>1, <1>2, NextCases, RequestsOnly

LEMMA AwareAlways == Spec => []Aware
<1>1. Init => Aware
    BY DEF Init, Aware, Active, Outer, Loop
<1> QED  BY <1>1, AwareStep, TypeAlways, PTL DEF Spec

-----------------------------------------------------------------------------
(* Attempt numbers.  A run that is about to insert an attempt holds a      *)
(* number: all smaller ones are given, and whoever has it too was at work  *)
(* beside the run.                                                         *)

Holds(r, p, n) ==
    \/ pc[r] = "insert" /\ p = PhaseOf(r) /\ n = num[r]
    \/ pc[r] = "qa_insert" /\ p = Qa /\ n = sub[r]
    \/ pc[r] = "fix_insert" /\ p = Repair /\ n = sub[r]

Given(p, n) == \E b \in attempts : b.phase = p /\ b.n = n

Reserved(r, p, n) ==
    /\ n \in Nat \ {0}
    /\ \A k \in 1..n - 1 : Given(p, k)
    /\ \A a \in attempts :
          a.phase = p /\ a.n = n =>
              a.run # r /\ {a.run, r} \subseteq overlapped

Reservations ==
    \A r \in Runs, p \in Phases, n \in Nat : Holds(r, p, n) => Reserved(r, p, n)

NumbersInv == AttemptNumbers /\ Reservations

\* How the attempts change.
LEMMA AttemptsChange ==
    ASSUME TypeInv, NEW r \in Runs, StepOf(r)
    PROVE  \/ /\ UNCHANGED attempts
              /\ \A p, n : Holds(r, p, n)' => n = NextAttempt(p)
           \/ /\ \E p \in Phases, n \in Nat, st \in Statuses :
                    FinishAttempt(p, n, st)
              /\ \A p, n : ~Holds(r, p, n)'
           \/ \E p \in Phases, n \in Nat :
                 /\ Holds(r, p, n) /\ InsertAttempt(r, p, n)
                 /\ \A q, m : ~Holds(r, q, m)'
<1> USE DEF stores, locals, observers
<1>0. /\ pc \in [Runs -> Places] /\ at \in [Runs -> 1..Len(Plan)]
      /\ num \in [Runs -> Nat] /\ sub \in [Runs -> Nat]
      /\ PhaseOf(r) \in Phases /\ {Qa, Repair} \subseteq Phases
    BY PlanNames DEF PhaseOf, TypeInv, TypeOK
<1>1. CASE Submit(r) \/ Start(r) \/ Upsert(r) \/ Verdict(r)
    BY <1>0, <1>1 DEF Submit, Start, Upsert, Verdict, Goto, End, Holds
<1>2. CASE Begin(r)
    BY <1>0, <1>2 DEF Begin, Goto, End, Holds, PhaseOf
<1>3. CASE Work(r) \/ Gate(r) \/ QaWork(r) \/ FixWork(r) \/ WriteHistory(r)
    BY <1>0, <1>3
    DEF Work, Gate, QaWork, FixWork, WriteHistory, Goto, End, Holds
<1>4. CASE StartRow(r) \/ After(r) \/ RowFailed(r)
    BY <1>0, <1>4
    DEF StartRow, After, RowFailed, WriteRow, Goto, End, Holds
<1>5. CASE QaCount(r) \/ FixCount(r)
    BY <1>0, <1>5 DEF QaCount, FixCount, Goto, Holds
<1>6. CASE InputMissing(r) \/ Raises(r) \/ Dies(r) \/ BookkeepingRaises(r)
    BY <1>0, <1>6
    DEF InputMissing, Raises, Dies, BookkeepingRaises, HandlerOf, Goto, End,
        Holds
<1>7. CASE ClosePassed(r) \/ CloseFailed(r) \/ CloseCancelled(r)
    <2>1. \E st \in Statuses : FinishAttempt(PhaseOf(r), num[r], st)
        BY <1>7 DEF ClosePassed, CloseFailed, CloseCancelled, Statuses
    <2>2. pc'[r] \in {"begin", "gate", "verdict"}
        BY <1>0, <1>7
        DEF ClosePassed, CloseFailed, CloseCancelled, Goto, End
    <2> QED  BY <1>0, <2>1, <2>2 DEF Holds
<1>8. CASE QaRead(r) \/ FixRead(r) \/ QaFailed(r) \/ FixFailed(r)
    <2>1. \E p \in Phases, st \in Statuses : FinishAttempt(p, sub[r], st)
        BY <1>0, <1>8
        DEF QaRead, FixRead, QaFailed, FixFailed, StepFailed, Statuses
    <2>2. pc'[r] \in {"qa_count", "fix_count", "history", "row_failed"}
        BY <1>0, <1>8
        DEF QaRead, FixRead, QaFailed, FixFailed, StepFailed, Goto
    <2> QED  BY <1>0, <2>1, <2>2 DEF Holds
<1>9. CASE Insert(r)
    BY <1>0, <1>9 DEF Insert, Goto, Holds
<1>10. CASE QaInsert(r) \/ FixInsert(r)
    BY <1>0, <1>10 DEF QaInsert, FixInsert, InsertStep, Goto, Holds
<1> QED  BY <1>1, <1>2, <1>3, <1>4, <1>5, <1>6, <1>7, <1>8, <1>9, <1>10
         DEF StepOf, RunStep, Fault

\* A reservation and the numbers stand while rows only change their status.
LEMMA NumbersFrame ==
    ASSUME TypeInv, TypeInv', NumbersInv, overlapped \subseteq overlapped',
           \/ UNCHANGED attempts
           \/ \E p \in Phases, n \in Nat, st \in Statuses :
                 FinishAttempt(p, n, st)
    PROVE  /\ AttemptNumbers'
           /\ \A r, p, n : Reserved(r, p, n) => Reserved(r, p, n)'
           /\ \A p, n : Given(p, n) => Given(p, n)'
<1>1. CASE UNCHANGED attempts
    BY <1>1 DEF NumbersInv, AttemptNumbers, Reserved, Given
<1>2. ASSUME NEW p0 \in Phases, NEW n0 \in Nat, NEW st \in Statuses,
             FinishAttempt(p0, n0, st)
      PROVE  /\ AttemptNumbers'
             /\ \A r, p, n : Reserved(r, p, n) => Reserved(r, p, n)'
             /\ \A p, n : Given(p, n) => Given(p, n)'
    <2>1. \A b \in attempts' : \E a \in attempts :
             /\ b.phase = a.phase /\ b.n = a.n /\ b.run = a.run
             /\ IF a.phase = p0 /\ a.n = n0 THEN b.status = st ELSE b = a
        BY <1>2, FinishEffect
    <2>2. \A a \in attempts : \E b \in attempts' :
             b.phase = a.phase /\ b.n = a.n /\ b.run = a.run
        BY <1>2, FinishEffect
    <2>3. \A p, n : Given(p, n) => Given(p, n)'
        BY <2>2 DEF Given
    <2>4. \A r, p, n : Reserved(r, p, n) => Reserved(r, p, n)'
        <3> SUFFICES ASSUME NEW r, NEW p, NEW n, Reserved(r, p, n)
                     PROVE  Reserved(r, p, n)'
            OBVIOUS
        <3>1. \A k \in 1..n - 1 : Given(p, k)'
            BY <2>3 DEF Reserved
        <3>2. \A b \in attempts' :
                 b.phase = p /\ b.n = n =>
                     b.run # r /\ {b.run, r} \subseteq overlapped'
            BY <2>1 DEF Reserved
        <3> QED  BY <3>1, <3>2 DEF Reserved
    <2>5. AttemptNumbers'
        <3> SUFFICES ASSUME NEW a \in attempts'
                     PROVE  /\ \A k \in 1..a.n : Given(a.phase, k)'
                            /\ \A b \in attempts' :
                                  a.phase = b.phase /\ a.n = b.n /\ a # b =>
                                      /\ a.run # b.run
                                      /\ {a.run, b.run} \subseteq overlapped'
            BY DEF AttemptNumbers, Given
        <3> PICK a0 \in attempts :
                /\ a.phase = a0.phase /\ a.n = a0.n /\ a.run = a0.run
                /\ IF a0.phase = p0 /\ a0.n = n0 THEN a.status = st
                                                 ELSE a = a0
            BY <2>1
        <3>1. \A k \in 1..a.n : Given(a.phase, k)'
            BY <2>3 DEF NumbersInv, AttemptNumbers, Given
        <3>2. ASSUME NEW b \in attempts',
                     a.phase = b.phase, a.n = b.n, a # b
              PROVE  a.run # b.run /\ {a.run, b.run} \subseteq overlapped'
            <4> PICK b0 \in attempts :
                    /\ b.phase = b0.phase /\ b.n = b0.n /\ b.run = b0.run
                    /\ IF b0.phase = p0 /\ b0.n = n0 THEN b.status = st
                                                     ELSE b = b0
                BY <2>1
            <4>1. a0 # b0
                <5> SUFFICES ASSUME a0 = b0 PROVE FALSE
                    OBVIOUS
                <5>1. a.run = b.run /\ a.status = b.status
                    OBVIOUS
                <5>2. \A c \in attempts' :
                         c = [phase |-> c.phase, n |-> c.n, run |-> c.run,
                              status |-> c.status]
                    BY DEF TypeInv, TypeOK
                <5> QED  BY <3>2, <5>1, <5>2
            <4>2. a0.phase = b0.phase /\ a0.n = b0.n
                BY <3>2
            <4>3. a0.run # b0.run /\ {a0.run, b0.run} \subseteq overlapped
                BY <4>1, <4>2 DEF NumbersInv, AttemptNumbers
            <4> QED  BY <4>3
        <3> QED  BY <3>1, <3>2
    <2> QED  BY <2>3, <2>4, <2>5
<1> QED  BY <1>1, <1>2

\* The number a run computes is one that it may hold.
LEMMA NextIsReserved ==
    ASSUME TypeInv, NumbersInv, NEW r, NEW p
    PROVE  Reserved(r, p, NextAttempt(p))
<1>1. /\ NextAttempt(p) \in Nat \ {0}
      /\ \A a \in attempts : a.phase = p => a.n < NextAttempt(p)
    BY NextAttemptIs
<1>2. \A a \in attempts : a.n \in Nat
    BY DEF TypeInv, TypeOK
<1>3. \A k \in 1..NextAttempt(p) - 1 : Given(p, k)
    <2>1. CASE NextAttempt(p) = 1
        BY <2>1
    <2>2. ASSUME NEW a \in attempts,
                 a.phase = p, a.n = NextAttempt(p) - 1
          PROVE  \A k \in 1..NextAttempt(p) - 1 : Given(p, k)
        BY <2>2 DEF NumbersInv, AttemptNumbers, Given
    <2> QED  BY <2>1, <2>2, NextAttemptIs
<1> QED  BY <1>1, <1>2, <1>3 DEF Reserved

LEMMA NumbersStep ==
    TypeInv /\ TypeInv' /\ Aware /\ NumbersInv /\ [Next]_vars => NumbersInv'
<1> SUFFICES ASSUME TypeInv, TypeInv', Aware, NumbersInv, [Next]_vars
             PROVE  NumbersInv'
    OBVIOUS
<1>1. ASSUME NEW r \in Runs, StepOf(r) PROVE NumbersInv'
    <2>1. /\ overlapped \subseteq overlapped'
          /\ \A q \in Runs \ {r} : Alike(q)
        BY <1>1, StepOfOneRun
    <2>2. \A q \in Runs \ {r} : \A p, n : Holds(q, p, n)' => Holds(q, p, n)
        BY <2>1 DEF Holds, Alike, PhaseOf
    <2>3. CASE /\ UNCHANGED attempts
               /\ \A p, n : Holds(r, p, n)' => n = NextAttempt(p)
        <3>1. /\ AttemptNumbers'
              /\ \A q, p, n : Reserved(q, p, n) => Reserved(q, p, n)'
            BY <2>1, <2>3, NumbersFrame
        <3>2. \A p \in Phases : Reserved(r, p, NextAttempt(p))
            BY NextIsReserved
        <3> QED  BY <2>2, <2>3, <3>1, <3>2 DEF NumbersInv, Reservations
    <2>4. CASE /\ \E p \in Phases, n \in Nat, st \in Statuses :
                     FinishAttempt(p, n, st)
               /\ \A p, n : ~Holds(r, p, n)'
        <3>1. /\ AttemptNumbers'
              /\ \A q, p, n : Reserved(q, p, n) => Reserved(q, p, n)'
            BY <2>1, <2>4, NumbersFrame
        <3> QED  BY <2>2, <2>4, <3>1 DEF NumbersInv, Reservations
    <2>5. ASSUME NEW p \in Phases, NEW n \in Nat,
                 Holds(r, p, n), InsertAttempt(r, p, n),
                 \A q, m : ~Holds(r, q, m)'
          PROVE  NumbersInv'
        <3> DEFINE new == [phase |-> p, n |-> n, run |-> r,
                           status |-> "running"]
        <3>1. attempts' = attempts \cup {new}
            BY <2>5 DEF InsertAttempt
        <3>2. Reserved(r, p, n)
            BY <2>5 DEF NumbersInv, Reservations
        <3>3. \A q, m : Given(q, m) => Given(q, m)'
            BY <3>1 DEF Given
        <3>4. Given(p, n)'
            <4>1. new \in attempts' /\ new.phase = p /\ new.n = n
                BY <3>1
            <4> HIDE DEF new
            <4> QED  BY <4>1 DEF Given
        <3>5. AttemptNumbers'
            <4>1. ASSUME NEW a \in attempts'
                  PROVE  \A k \in 1..a.n : Given(a.phase, k)'
                <5>1. CASE a \in attempts
                    BY <3>3, <5>1, SMTT(30)
                    DEF NumbersInv, AttemptNumbers, Given
                <5>2. CASE a = new
                    BY <3>2, <3>3, <3>4, <5>2 DEF Reserved
                <5> QED  BY <3>1, <5>1, <5>2
            <4>2. ASSUME NEW a \in attempts, NEW b \in attempts,
                         a.phase = b.phase, a.n = b.n, a # b
                  PROVE  a.run # b.run /\ {a.run, b.run} \subseteq overlapped'
                BY <2>1, <4>2 DEF NumbersInv, AttemptNumbers
            <4>3. ASSUME NEW a \in attempts, a.phase = p, a.n = n
                  PROVE  a.run # r /\ {a.run, r} \subseteq overlapped'
                BY <2>1, <3>2, <4>3 DEF Reserved
            <4> QED  BY <3>1, <4>1, <4>2, <4>3 DEF AttemptNumbers, Given
        <3>6. ASSUME NEW q \in Runs \ {r}, NEW f \in Phases, NEW m \in Nat,
                     Holds(q, f, m)
              PROVE  Reserved(q, f, m)'
            <4>1. Reserved(q, f, m)
                BY <3>6 DEF NumbersInv, Reservations
            <4>2. {pc[q], pc[r]} \subseteq Active
                BY <2>5, <3>6 DEF Holds, Active, Outer, Loop
            <4>3. {q, r} \subseteq overlapped'
                BY <2>1, <4>2 DEF Aware
            <4> QED  BY <2>1, <3>1, <3>3, <4>1, <4>3 DEF Reserved
        <3> QED  BY <2>2, <2>5, <3>5, <3>6 DEF NumbersInv, Reservations
    <2> QED  BY <1>1, <2>3, <2>4, <2>5, AttemptsChange
<1>2. CASE /\ UNCHANGED <<attempts, pc, at, rec, num, sub, round, overlapped>>
           /\ disturbed \subseteq disturbed'
    BY <1>2 DEF NumbersInv, AttemptNumbers, Reservations, Reserved, Given,
                Holds, PhaseOf
<1> QED  BY <1>1, <1>2, NextCases, RequestsOnly

\* Attempts are numbered without gaps, and a number is given twice only to
\* runs that were at work at the same time.
THEOREM NumbersCorrect == Spec => []AttemptNumbers
<1>1. Init => NumbersInv
    BY DEF Init, NumbersInv, AttemptNumbers, Reservations, Holds
<1>2. NumbersInv => AttemptNumbers
    BY DEF NumbersInv
<1> QED  BY <1>1, <1>2, NumbersStep, TypeAlways, AwareAlways, PTL
         DEF Spec

-----------------------------------------------------------------------------
(* Attempts that are still "running".  Each belongs to a run that is at a  *)
(* place from which it will finish it, unless the run is disturbed; the    *)
(* row is there for a run that found it there, unless it was deleted.      *)

InPhase == {"row", "work", "after", "row_failed",
            "close_passed", "close_failed", "close_cancelled"} \cup Loop

RowThere ==
    \A r \in Runs :
        rec[r] /\ job = "absent" /\ pc[r] \in InPhase \cup {"insert"} =>
            r \in disturbed

Holding(r, p, n) ==
    \/ pc[r] \in InPhase /\ p = PhaseOf(r) /\ n = num[r]
    \/ pc[r] \in {"qa_work", "qa_read", "qa_failed"} /\ p = Qa /\ n = sub[r]
    \/ pc[r] \in {"fix_work", "fix_read", "fix_failed"}
       /\ p = Repair /\ n = sub[r]

RunningIsHeld ==
    \A a \in attempts :
        a.status = "running" /\ a.run \notin disturbed =>
            pc[a.run] = "lost" \/ Holding(a.run, a.phase, a.n)

OpenInv == RowThere /\ RunningIsHeld

\* What becomes of the attempts a run holds.
LEMMA HeldMoves ==
    ASSUME TypeInv, RowThere, NEW r \in Runs, StepOf(r), r \notin disturbed'
    PROVE  \/ /\ UNCHANGED attempts
              /\ \/ pc'[r] = "lost"
                 \/ \A p, n : Holding(r, p, n) => Holding(r, p, n)'
           \/ \E p \in Phases, n \in Nat, st \in Statuses \ {"running"} :
                 /\ FinishAttempt(p, n, st)
                 /\ \A q, m : Holding(r, q, m) =>
                                 Holding(r, q, m)' \/ (q = p /\ m = n)
           \/ \E p \in Phases, n \in Nat :
                 /\ InsertAttempt(r, p, n) /\ Holding(r, p, n)'
                 /\ \A q, m : Holding(r, q, m) => Holding(r, q, m)'
<1> USE DEF stores, locals, observers
<1>0. /\ pc \in [Runs -> Places] /\ at \in [Runs -> 1..Len(Plan)]
      /\ num \in [Runs -> Nat] /\ sub \in [Runs -> Nat]
      /\ PhaseOf(r) \in Phases /\ {Qa, Repair} \subseteq Phases
      /\ disturbed \subseteq Runs
    BY PlanNames DEF PhaseOf, TypeInv, TypeOK
<1>1. CASE \/ Submit(r) \/ Start(r) \/ Upsert(r) \/ Verdict(r)
           \/ Begin(r) \/ Gate(r)
    <2>1. pc[r] \in {"idle", "queued", "upsert", "verdict", "begin", "gate"}
        BY <1>1 DEF Submit, Start, Upsert, Verdict, Begin, Gate
    <2>2. \A p, n : ~Holding(r, p, n)
        BY <2>1 DEF Holding, InPhase, Loop
    <2> QED  BY <1>1, <2>2 DEF Submit, Start, Upsert, Verdict, Begin, Gate
<1>2. CASE Insert(r)
    BY <1>0, <1>2 DEF Insert, Goto, Holding, InPhase, Loop, PhaseOf
<1>3. CASE Work(r) \/ WriteHistory(r)
    BY <1>0, <1>3 DEF Work, WriteHistory, Goto, Holding, InPhase, Loop, PhaseOf
<1>4. CASE StartRow(r) \/ After(r) \/ RowFailed(r)
    <2>1. ~(rec[r] /\ job = "absent")
        BY <1>4 DEF StartRow, After, RowFailed, WriteRow, RowThere, InPhase
    <2>2. /\ UNCHANGED <<attempts, at, num, sub>>
          /\ pc[r] \in {"row", "after", "row_failed"}
          /\ pc'[r] \in InPhase
        BY <1>0, <1>4, <2>1
        DEF StartRow, After, RowFailed, WriteRow, Goto, InPhase, Loop
    <2> QED  BY <2>2 DEF Holding, PhaseOf
<1>5. CASE ClosePassed(r) \/ CloseFailed(r) \/ CloseCancelled(r)
    <2>1. \E st \in Statuses \ {"running"} :
             FinishAttempt(PhaseOf(r), num[r], st)
        BY <1>5 DEF ClosePassed, CloseFailed, CloseCancelled, Statuses
    <2>2. pc[r] \in {"close_passed", "close_failed", "close_cancelled"}
        BY <1>5 DEF ClosePassed, CloseFailed, CloseCancelled
    <2> QED  BY <1>0, <2>1, <2>2 DEF Holding
<1>6. CASE QaCount(r) \/ FixCount(r)
    BY <1>0, <1>6
    DEF QaCount, FixCount, Goto, Holding, InPhase, Loop, PhaseOf
<1>7. CASE QaInsert(r) \/ FixInsert(r)
    BY <1>0, <1>7
    DEF QaInsert, FixInsert, InsertStep, Goto, Holding, InPhase, Loop, PhaseOf
<1>8. CASE QaWork(r) \/ FixWork(r)
    BY <1>0, <1>8
    DEF QaWork, FixWork, Goto, Holding, InPhase, Loop, PhaseOf
<1>9. CASE QaRead(r) \/ QaFailed(r)
    <2>1. \E st \in Statuses \ {"running"} : FinishAttempt(Qa, sub[r], st)
        BY <1>9 DEF QaRead, QaFailed, StepFailed, Statuses
    <2>2. /\ pc[r] \in {"qa_read", "qa_failed"} /\ UNCHANGED <<at, num, sub>>
          /\ pc'[r] \in {"fix_count", "history", "row_failed"}
        BY <1>0, <1>9 DEF QaRead, QaFailed, StepFailed, Goto
    <2> QED  BY <1>0, <2>1, <2>2 DEF Holding, InPhase, Loop, PhaseOf
<1>10. CASE FixRead(r) \/ FixFailed(r)
    <2>1. \E st \in Statuses \ {"running"} : FinishAttempt(Repair, sub[r], st)
        BY <1>10 DEF FixRead, FixFailed, StepFailed, Statuses
    <2>2. /\ pc[r] \in {"fix_read", "fix_failed"} /\ UNCHANGED <<at, num, sub>>
          /\ pc'[r] \in {"qa_count", "history", "row_failed"}
        BY <1>0, <1>10 DEF FixRead, FixFailed, StepFailed, Goto
    <2> QED  BY <1>0, <2>1, <2>2 DEF Holding, InPhase, Loop, PhaseOf
<1>11. CASE InputMissing(r) \/ Raises(r)
    <2>1. /\ UNCHANGED <<attempts, at, num, sub>>
          /\ pc[r] \in {"work", "after"} \cup (Loop \ {"qa_failed", "fix_failed"})
          /\ pc'[r] = HandlerOf(pc[r])
        BY <1>0, <1>11
        DEF InputMissing, Impossible, Raises, Goto, Loop
    <2> QED  BY <2>1 DEF HandlerOf, Holding, InPhase, Loop, PhaseOf
<1>12. CASE BookkeepingRaises(r)
    BY <1>0, <1>12 DEF BookkeepingRaises
<1>13. CASE Dies(r)
    BY <1>0, <1>13 DEF Dies, Goto
<1> QED  BY <1>1, <1>2, <1>3, <1>4, <1>5, <1>6, <1>7, <1>8, <1>9, <1>10,
            <1>11, <1>12, <1>13
         DEF StepOf, RunStep, Fault

\* The same without the condition, as far as other runs see it.
LEMMA NoInsert ==
    ASSUME TypeInv, NEW r \in Runs, StepOf(r),
           ~(Insert(r) \/ QaInsert(r) \/ FixInsert(r))
    PROVE  \/ UNCHANGED attempts
           \/ \E p \in Phases, n \in Nat, st \in Statuses \ {"running"} :
                 FinishAttempt(p, n, st)
<1> USE DEF stores, locals, observers
<1>0. /\ num \in [Runs -> Nat] /\ sub \in [Runs -> Nat]
      /\ PhaseOf(r) \in Phases /\ {Qa, Repair} \subseteq Phases
    BY PlanNames DEF PhaseOf, TypeInv, TypeOK
<1>1. CASE \/ Submit(r) \/ Start(r) \/ Upsert(r) \/ Verdict(r)
           \/ Begin(r) \/ Gate(r)
           \/ Work(r) \/ WriteHistory(r) \/ QaCount(r) \/ FixCount(r)
           \/ QaWork(r) \/ FixWork(r) \/ InputMissing(r) \/ Fault(r)
    BY <1>1
    DEF Submit, Start, Upsert, Verdict, Begin, Gate, Work, WriteHistory,
        QaCount,
        FixCount, QaWork, FixWork, InputMissing, Fault, Raises,
        BookkeepingRaises, Dies
<1>2. CASE StartRow(r) \/ After(r) \/ RowFailed(r)
    BY <1>2 DEF StartRow, After, RowFailed, WriteRow
<1>3. CASE ClosePassed(r) \/ CloseFailed(r) \/ CloseCancelled(r)
    BY <1>0, <1>3 DEF ClosePassed, CloseFailed, CloseCancelled, Statuses
<1>4. CASE QaRead(r) \/ QaFailed(r) \/ FixRead(r) \/ FixFailed(r)
    BY <1>0, <1>4
    DEF QaRead, QaFailed, FixRead, FixFailed, StepFailed, Statuses
<1> QED  BY <1>1, <1>2, <1>3, <1>4 DEF StepOf, RunStep, Fault

LEMMA RunningChange ==
    ASSUME TypeInv, NEW r \in Runs, StepOf(r)
    PROVE  \/ UNCHANGED attempts
           \/ \E p \in Phases, n \in Nat, st \in Statuses \ {"running"} :
                 FinishAttempt(p, n, st)
           \/ \E p \in Phases, n \in Nat : InsertAttempt(r, p, n)
<1>1. /\ num[r] \in Nat /\ sub[r] \in Nat
      /\ PhaseOf(r) \in Phases /\ {Qa, Repair} \subseteq Phases
    BY PlanNames DEF PhaseOf, TypeInv, TypeOK
<1>2. CASE Insert(r) \/ QaInsert(r) \/ FixInsert(r)
    BY <1>1, <1>2 DEF Insert, QaInsert, FixInsert, InsertStep
<1> QED  BY <1>2, NoInsert

\* A lost run takes no step.
LEMMA LostStays ==
    ASSUME TypeInv, NEW r \in Runs, StepOf(r)
    PROVE  pc[r] # "lost"
<1>1. CASE Start(r)
    BY <1>1 DEF Start
<1>2. CASE ~Start(r)
    <2>1. pc[r] \in Active \/ Submit(r)
        BY <1>2, ActiveOrSubmit
    <2> QED  BY <2>1 DEF Submit, Active, Outer, Loop
<1> QED  BY <1>1, <1>2

\* No step of a run takes the row away, and only Begin looks for it.
LEMMA RowMoves ==
    ASSUME TypeInv, NEW r \in Runs, StepOf(r)
    PROVE  /\ job' = job \/ job' # "absent"
           /\ rec'[r] /\ pc'[r] \in InPhase \cup {"insert"} =>
                 \/ job # "absent"
                 \/ rec[r] /\ pc[r] \in InPhase \cup {"insert"}
<1> USE DEF stores, locals, observers, InPhase, Loop
<1>0. /\ pc \in [Runs -> Places] /\ rec \in [Runs -> BOOLEAN]
      /\ outcome \in [Runs -> {"none", "succeeded", "failed", "cancelled"}]
    BY DEF TypeInv, TypeOK
<1>1. CASE Submit(r) \/ Start(r) \/ Upsert(r) \/ Verdict(r)
           \/ Begin(r) \/ Gate(r)
    BY <1>0, <1>1 DEF Submit, Start, Upsert, Verdict, Begin, Gate, Goto, End
<1>2. CASE Insert(r) \/ Work(r) \/ StartRow(r) \/ After(r) \/ RowFailed(r)
    BY <1>0, <1>2
    DEF Insert, Work, StartRow, After, RowFailed, WriteRow, Goto, End
<1>3. CASE ClosePassed(r) \/ CloseFailed(r) \/ CloseCancelled(r)
    BY <1>0, <1>3 DEF ClosePassed, CloseFailed, CloseCancelled, Goto, End
<1>4. CASE QaCount(r) \/ QaInsert(r) \/ QaWork(r) \/ QaFailed(r) \/ QaRead(r)
    BY <1>0, <1>4
    DEF QaCount, QaInsert, QaWork, QaFailed, QaRead, InsertStep, StepFailed,
        Goto
<1>5. CASE \/ FixCount(r) \/ FixInsert(r) \/ FixWork(r) \/ FixFailed(r)
           \/ FixRead(r) \/ WriteHistory(r)
    BY <1>0, <1>5
    DEF FixCount, FixInsert, FixWork, FixFailed, FixRead, WriteHistory,
        InsertStep, StepFailed, Goto
<1>6. CASE InputMissing(r) \/ Raises(r) \/ Dies(r) \/ BookkeepingRaises(r)
    BY <1>0, <1>6
    DEF InputMissing, Impossible, Raises, Dies, BookkeepingRaises, Goto, End
<1> QED  BY <1>1, <1>2, <1>3, <1>4, <1>5, <1>6 DEF StepOf, RunStep, Fault

LEMMA OpenStep ==
    TypeInv /\ OpenInv /\ [Next]_vars => OpenInv'
<1> SUFFICES ASSUME TypeInv, OpenInv, [Next]_vars PROVE OpenInv'
    OBVIOUS
<1>1. ASSUME NEW r \in Runs, StepOf(r) PROVE OpenInv'
    <2>1. disturbed \subseteq disturbed' /\ \A q \in Runs \ {r} : Alike(q)
        BY <1>1, StepOfOneRun
    <2>2. RowThere'
        BY <1>1, <2>1, RowMoves DEF OpenInv, RowThere, Alike
    <2>3. \A q \in Runs \ {r} : \A p, n : Holding(q, p, n) => Holding(q, p, n)'
        BY <2>1 DEF Holding, Alike, PhaseOf
    <2>4. \A a \in attempts : a.run \in Runs
        BY DEF TypeInv, TypeOK
    <2>5. ASSUME NEW b \in attempts', b.status = "running",
                 b.run \notin disturbed'
          PROVE  pc'[b.run] = "lost" \/ Holding(b.run, b.phase, b.n)'
        <3>1. CASE b \in attempts /\ b.run # r
            <4>1. b.run \in Runs \ {r} /\ b.run \notin disturbed
                BY <2>1, <2>4, <2>5, <3>1
            <4>2. pc[b.run] = "lost" \/ Holding(b.run, b.phase, b.n)
                BY <2>5, <3>1, <4>1 DEF OpenInv, RunningIsHeld
            <4>3. pc'[b.run] = pc[b.run]
                BY <2>1, <4>1 DEF Alike
            <4> QED  BY <2>3, <4>1, <4>2, <4>3
        <3>2. CASE b \in attempts /\ b.run = r
            <4>1. r \notin disturbed /\ r \notin disturbed'
                BY <2>1, <2>5, <3>2
            <4>2. Holding(r, b.phase, b.n)
                BY <1>1, <2>5, <3>2, <4>1, LostStays
                DEF OpenInv, RunningIsHeld
            <4>3. \A p \in Phases, n \in Nat, st \in Statuses \ {"running"} :
                     FinishAttempt(p, n, st) => ~(b.phase = p /\ b.n = n)
                BY <2>5, FinishEffect
            <4>4. pc'[r] = "lost" \/ Holding(r, b.phase, b.n)'
                BY <1>1, <4>1, <4>2, <4>3, HeldMoves DEF OpenInv
            <4> QED  BY <3>2, <4>4
        <3>3. CASE b \notin attempts
            <4>1. \A p \in Phases, n \in Nat, st \in Statuses \ {"running"} :
                     ~FinishAttempt(p, n, st)
                BY <2>5, <3>3, FinishEffect
            <4>2. \A p \in Phases, n \in Nat :
                     InsertAttempt(r, p, n) =>
                        b.run = r /\ b.phase = p /\ b.n = n
                BY <2>5, <3>3 DEF InsertAttempt
            <4>3. b.run = r
                BY <1>1, <2>5, <3>3, <4>1, <4>2, RunningChange
            <4>4. PICK p \in Phases, n \in Nat :
                     InsertAttempt(r, p, n) /\ Holding(r, p, n)'
                BY <1>1, <2>5, <3>3, <4>1, <4>3, HeldMoves DEF OpenInv
            <4> QED  BY <4>2, <4>3, <4>4
        <3> QED  BY <3>1, <3>2, <3>3
    <2> QED  BY <2>2, <2>5 DEF OpenInv, RunningIsHeld
<1>2. CASE CancelJob \/ UNCHANGED vars
    BY <1>2
    DEF CancelJob, vars, locals, OpenInv, RowThere, RunningIsHeld, Holding,
        PhaseOf
<1>3. ASSUME NEW purge \in BOOLEAN, DeleteJob(purge) PROVE OpenInv'
    <2>1. RowThere'
        BY <1>3
        DEF DeleteJob, locals, RowThere, InPhase, Active, Outer, Loop
    <2>2. RunningIsHeld'
        BY <1>3
        DEF DeleteJob, locals, OpenInv, RunningIsHeld, Holding, PhaseOf
    <2> QED  BY <2>1, <2>2 DEF OpenInv
<1> QED  BY <1>1, <1>2, <1>3, NextCases

\* No attempt of a run that ended is left "running", unless its row was
\* deleted or the database failed.
THEOREM NoneLeftOpen == Spec => []NoAttemptLeftOpen
<1>1. Init => OpenInv
    BY DEF Init, OpenInv, RowThere, RunningIsHeld, InPhase, Loop
<1>2. OpenInv => NoAttemptLeftOpen
    BY DEF OpenInv, RunningIsHeld, NoAttemptLeftOpen, Holding, InPhase, Loop
<1> QED  BY <1>1, <1>2, OpenStep, TypeAlways, PTL DEF Spec

-----------------------------------------------------------------------------
(* The rounds of the repair loop: none before the loop, and a run that is  *)
(* about to refactor is not in the last one, or is past it.                *)

QaPlaces  == {"qa_count", "qa_insert", "qa_work", "qa_read", "qa_failed"}
FixPlaces == {"fix_count", "fix_insert", "fix_work", "fix_read", "fix_failed"}
Early     == {"idle", "queued", "upsert", "begin", "insert", "row"}

RoundsOf(r) ==
    /\ pc[r] \in {"idle", "queued", "upsert"} => at[r] = 1
    /\ at[r] < LoopAt \/ (at[r] = LoopAt /\ pc[r] \in Early) => round[r] = 0
    /\ pc[r] \in QaPlaces => round[r] <= MaxRepair
    /\ pc[r] \in FixPlaces => round[r] # MaxRepair

RoundsInv == \A r \in Runs : RoundsOf(r)

LEMMA RoundsMove ==
    ASSUME TypeInv, RoundsInv, NEW r \in Runs, StepOf(r)
    PROVE  RoundsOf(r)'
<1> USE DEF stores, locals, observers, QaPlaces, FixPlaces, Early, Goto, End
<1>0. /\ pc \in [Runs -> Places] /\ at \in [Runs -> 1..Len(Plan)]
      /\ round \in [Runs -> 0..MaxRepair + 1] /\ MaxRepair \in Nat
      /\ LoopAt \in Nat /\ Len(Plan) \in Nat /\ RoundsOf(r)
      /\ pc[r] \in Loop => at[r] = LoopAt
      /\ PhaseOf(r) = Repair => at[r] = LoopAt
    BY PlanShape, PlanNames, PipelineAssumption
    DEF TypeInv, TypeOK, RoundsInv, LoopAt, Placed, PhaseOf
<1>1. CASE \/ Submit(r) \/ Start(r) \/ Upsert(r) \/ Verdict(r)
           \/ Begin(r) \/ Insert(r)
           \/ Work(r) \/ CloseFailed(r) \/ CloseCancelled(r)
    <2>1. CASE Submit(r) \/ Start(r) \/ Upsert(r)
        BY <1>0, <2>1 DEF Submit, Start, Upsert, RoundsOf
    <2>2. CASE Verdict(r) \/ Begin(r) \/ Insert(r) \/ Work(r)
        BY <1>0, <2>2 DEF Verdict, Begin, Insert, Work, RoundsOf
    <2>3. CASE CloseFailed(r) \/ CloseCancelled(r)
        BY <1>0, <2>3 DEF CloseFailed, CloseCancelled, RoundsOf
    <2> QED  BY <1>1, <2>1, <2>2, <2>3
<1>2. CASE StartRow(r) \/ After(r) \/ RowFailed(r)
    BY <1>0, <1>2 DEF StartRow, After, RowFailed, WriteRow, RoundsOf
<1>3. CASE ClosePassed(r) \/ Gate(r)
    <2>1. \/ UNCHANGED <<at, round>> /\ pc'[r] \in {"gate", "verdict"}
          \/ /\ at'[r] = at[r] + 1 /\ UNCHANGED round /\ pc'[r] = "begin"
             /\ pc[r] \in {"close_passed", "gate"}
        BY <1>0, <1>3 DEF ClosePassed, Gate
    <2> QED  BY <1>0, <2>1 DEF RoundsOf
<1>4. CASE QaCount(r) \/ QaInsert(r) \/ QaWork(r) \/ QaFailed(r)
    BY <1>0, <1>4
    DEF QaCount, QaInsert, QaWork, QaFailed, InsertStep, StepFailed,
        RoundsOf, Loop
<1>5. CASE FixCount(r) \/ FixInsert(r) \/ FixWork(r) \/ FixFailed(r)
    BY <1>0, <1>5
    DEF FixCount, FixInsert, FixWork, FixFailed, InsertStep, StepFailed,
        RoundsOf, Loop
<1>6. CASE QaRead(r) \/ FixRead(r) \/ WriteHistory(r)
    BY <1>0, <1>6
    DEF QaRead, EndRounds, FixRead, WriteHistory, RoundsOf, Loop
<1>7. CASE InputMissing(r) \/ Raises(r) \/ Dies(r) \/ BookkeepingRaises(r)
    BY <1>0, <1>7
    DEF InputMissing, Impossible, Raises, Dies, BookkeepingRaises, HandlerOf,
        RoundsOf, Loop
<1> QED  BY <1>1, <1>2, <1>3, <1>4, <1>5, <1>6, <1>7
         DEF StepOf, RunStep, Fault

LEMMA RoundsStep == TypeInv /\ RoundsInv /\ [Next]_vars => RoundsInv'
<1> SUFFICES ASSUME TypeInv, RoundsInv, [Next]_vars PROVE RoundsInv'
    OBVIOUS
<1>1. ASSUME NEW r \in Runs, StepOf(r) PROVE RoundsInv'
    <2>1. \A q \in Runs \ {r} : RoundsOf(q)'
        BY <1>1, StepOfOneRun DEF Alike, RoundsInv, RoundsOf
    <2> QED  BY <1>1, <2>1, RoundsMove DEF RoundsInv
<1>2. CASE UNCHANGED <<pc, at, round>>
    BY <1>2 DEF RoundsInv, RoundsOf
<1> QED  BY <1>1, <1>2, NextCases, RequestsOnly

LEMMA RoundsAlways == Spec => []RoundsInv
<1>1. Init => RoundsInv
    BY DEF Init, RoundsInv, RoundsOf, QaPlaces, FixPlaces
<1> QED  BY <1>1, RoundsStep, TypeAlways, PTL DEF Spec

-----------------------------------------------------------------------------
(* Stop requests.  What a run has begun since the request is known from    *)
(* where it is: nothing, as long as it has a look at the request before    *)
(* its next attempt; one attempt in a phase; two more for every round of   *)
(* the repair loop.                                                        *)

Last(r) == IF round[r] <= MaxRepair THEN round[r] ELSE MaxRepair

Allowed(r) ==
    IF pc[r] \in {"idle", "queued", "upsert", "begin", "insert",
                  "close_passed", "gate"}
    THEN 0
    ELSE IF pc[r] \in {"row", "work"} THEN 1
    ELSE IF pc[r] \in {"qa_count", "qa_insert"} THEN 1 + 2 * round[r]
    ELSE IF pc[r] \in {"qa_work", "qa_read", "qa_failed"}
    THEN 2 + 2 * round[r]
    ELSE IF pc[r] \in {"fix_count", "fix_insert"} THEN 2 + 2 * Last(r)
    ELSE IF pc[r] \in {"fix_work", "fix_read", "fix_failed"}
    THEN 3 + 2 * Last(r)
    ELSE 3 + 2 * MaxRepair

LateOf(r) ==
    /\ late[r] > 0 => IsCancelRequested
    /\ late[r] <= Allowed(r)

LateInv == \A r \in Runs : LateOf(r)

LEMMA ObserveCounts ==
    ASSUME TypeInv, LateInv, NEW S, Observe(S), NEW q \in Runs
    PROVE  /\ late'[q] \in Nat
           /\ late'[q] > 0 => IsCancelRequested'
           /\ late'[q] <= late[q] + 1
           /\ q \notin S => late'[q] <= late[q]
BY DEF Observe, IsCancelRequested, TypeInv, TypeOK

\* Every step either leaves the request and the counts alone or observes.
LEMMA LateChange ==
    ASSUME TypeInv, NEW r \in Runs, StepOf(r)
    PROVE  \/ UNCHANGED <<job, late>>
           \/ Observe({})
           \/ /\ Observe({r}) /\ UNCHANGED job
              /\ Insert(r) \/ QaInsert(r) \/ FixInsert(r)
<1> USE DEF stores, locals, observers
<1>1. CASE \/ Submit(r) \/ Start(r) \/ Upsert(r) \/ Verdict(r)
    BY <1>1 DEF Submit, Start, Upsert, Verdict
<1>2. CASE Insert(r) \/ QaInsert(r) \/ FixInsert(r)
    BY <1>2 DEF Insert, QaInsert, FixInsert, InsertStep
<1>3. CASE Begin(r) \/ Work(r) \/ Gate(r) \/ WriteHistory(r)
    BY <1>3 DEF Begin, Work, Gate, WriteHistory
<1>4. CASE StartRow(r) \/ After(r) \/ RowFailed(r)
    BY <1>4 DEF StartRow, After, RowFailed, WriteRow
<1>5. CASE ClosePassed(r) \/ CloseFailed(r) \/ CloseCancelled(r)
    BY <1>5 DEF ClosePassed, CloseFailed, CloseCancelled
<1>6. CASE QaCount(r) \/ QaWork(r) \/ QaRead(r) \/ QaFailed(r)
    BY <1>6 DEF QaCount, QaWork, QaRead, QaFailed, StepFailed
<1>7. CASE FixCount(r) \/ FixWork(r) \/ FixRead(r) \/ FixFailed(r)
    BY <1>7 DEF FixCount, FixWork, FixRead, FixFailed, StepFailed
<1>8. CASE InputMissing(r) \/ Fault(r)
    BY <1>8 DEF InputMissing, Fault, Raises, BookkeepingRaises, Dies
<1> QED  BY <1>1, <1>2, <1>3, <1>4, <1>5, <1>6, <1>7, <1>8
         DEF StepOf, RunStep

\* What a run may have begun does not shrink, unless it looks at the request;
\* and an attempt it begins is allowed for.
LEMMA AllowedMoves ==
    ASSUME TypeInv, RoundsInv, NEW r \in Runs, StepOf(r)
    PROVE  /\ Allowed(r) \in Nat /\ Allowed(r)' \in Nat
           /\ Allowed(r)' >= Allowed(r) \/ ~IsCancelRequested
           /\ Insert(r) \/ QaInsert(r) \/ FixInsert(r) =>
                Allowed(r)' >= Allowed(r) + 1
<1> USE DEF stores, locals, observers, Goto, End
<1>0. /\ pc \in [Runs -> Places] /\ at \in [Runs -> 1..Len(Plan)]
      /\ round \in [Runs -> 0..MaxRepair + 1] /\ MaxRepair \in Nat
      /\ round[r] \in Nat /\ RoundsOf(r)
      /\ pc[r] \in Loop => at[r] = LoopAt
      /\ PhaseOf(r) = Repair => at[r] = LoopAt
    BY PlanShape, PlanNames, PipelineAssumption, SMTT(30)
    DEF TypeInv, TypeOK, RoundsInv, LoopAt, Placed, PhaseOf
<1>1. Allowed(r) \in Nat /\ Allowed(r) <= 3 + 2 * MaxRepair
    BY <1>0, SMTT(30) DEF Allowed, Last, RoundsOf, QaPlaces, FixPlaces
<1>2. CASE /\ pc'[r] \in {"verdict", "done", "lost", "after", "history",
                          "row_failed", "close_failed", "close_cancelled"}
           /\ ~(Insert(r) \/ QaInsert(r) \/ FixInsert(r))
    BY <1>0, <1>1, <1>2 DEF Allowed
<1>3. CASE Submit(r) \/ Start(r) \/ Upsert(r) \/ Begin(r) \/ Insert(r)
    <2>1. CASE Submit(r) \/ Start(r) \/ Upsert(r)
        BY <1>0, <2>1
        DEF Submit, Start, Upsert, Insert, QaInsert, FixInsert, InsertStep,
            Allowed
    <2>2. CASE Begin(r)
        BY <1>0, <2>2
        DEF Begin, Insert, QaInsert, FixInsert, InsertStep, Allowed
    <2>3. CASE Insert(r)
        BY <1>0, <2>3 DEF Insert, Allowed
    <2> QED  BY <1>3, <2>1, <2>2, <2>3
<1>4. CASE StartRow(r)
    <2>1. \/ pc'[r] = "verdict"
          \/ pc'[r] = "work"
          \/ pc'[r] = "qa_count" /\ round'[r] = round[r]
        BY <1>0, <1>4 DEF StartRow, WriteRow
    <2>2. pc[r] = "row"
        BY <1>4 DEF StartRow
    <2> QED  BY <1>0, <2>1, <2>2 DEF Allowed, Insert, QaInsert, FixInsert,
             InsertStep
<1>5. CASE After(r)
    <2>1. \/ pc'[r] \in {"verdict", "close_cancelled"}
          \/ pc'[r] = "close_passed" /\ ~IsCancelRequested
        BY <1>0, <1>5 DEF After, WriteRow
    <2>2. pc[r] = "after"
        BY <1>5 DEF After
    <2> QED  BY <1>0, <2>1, <2>2 DEF Allowed, Insert, QaInsert, FixInsert,
             InsertStep
<1>6. CASE ClosePassed(r) \/ Gate(r)
    <2>1. /\ pc[r] \in {"close_passed", "gate"}
          /\ pc'[r] \in {"gate", "verdict", "begin"}
        BY <1>0, <1>6 DEF ClosePassed, Gate
    <2> QED  BY <1>0, <2>1 DEF Allowed, Insert, QaInsert, FixInsert, InsertStep
<1>7. CASE \/ QaCount(r) \/ QaInsert(r) \/ QaWork(r)
           \/ FixCount(r) \/ FixInsert(r) \/ FixWork(r)
    <2>1. /\ UNCHANGED round
          /\ \/ pc[r] = "qa_count" /\ pc'[r] = "qa_insert"
             \/ pc[r] = "qa_insert" /\ pc'[r] = "qa_work"
             \/ pc[r] = "qa_work" /\ pc'[r] = "qa_read"
             \/ pc[r] = "fix_count" /\ pc'[r] = "fix_insert"
             \/ pc[r] = "fix_insert" /\ pc'[r] = "fix_work"
             \/ pc[r] = "fix_work" /\ pc'[r] = "fix_read"
        BY <1>0, <1>7
        DEF QaCount, QaInsert, QaWork, FixCount, FixInsert, FixWork,
            InsertStep
    <2>2. Insert(r) \/ QaInsert(r) \/ FixInsert(r) =>
             pc[r] \in {"insert", "qa_insert", "fix_insert"}
        BY DEF Insert, QaInsert, FixInsert, InsertStep
    <2>3. Last(r) \in Nat /\ Last(r)' = Last(r)
        BY <1>0, <2>1 DEF Last
    <2>4. CASE pc[r] \in {"qa_insert", "fix_insert"}
        <3>1. Allowed(r)' = Allowed(r) + 1 /\ Allowed(r) \in Nat
            BY <1>0, <2>1, <2>3, <2>4, SMTT(30) DEF Allowed
        <3> QED  BY <3>1
    <2>5. CASE pc[r] \notin {"qa_insert", "fix_insert"}
        <3>3. \/ pc[r] = "qa_count" /\ pc'[r] = "qa_insert"
              \/ pc[r] = "qa_work" /\ pc'[r] = "qa_read"
              \/ pc[r] = "fix_count" /\ pc'[r] = "fix_insert"
              \/ pc[r] = "fix_work" /\ pc'[r] = "fix_read"
            BY <2>1, <2>5
        <3>4. round'[r] = round[r]
            BY <2>1
        <3> HIDE <2>1, <2>5, <1>7
        <3>5. Allowed(r)' = Allowed(r)
            BY <2>3, <3>3, <3>4 DEF Allowed
        <3>1. Allowed(r)' >= Allowed(r) /\ Allowed(r)' \in Nat
            BY <1>1, <3>5
        <3>2. ~(Insert(r) \/ QaInsert(r) \/ FixInsert(r))
            BY <2>1, <2>2, <2>5
        <3> QED  BY <1>1, <3>1, <3>2
    <2> QED  BY <2>4, <2>5
<1>8. CASE QaRead(r)
    <2>1. /\ pc[r] = "qa_read"
          /\ \/ pc'[r] = "history"
             \/ /\ pc'[r] = "fix_count" /\ round[r] < MaxRepair
                /\ round'[r] = round[r]
             \/ pc'[r] = "fix_count" /\ round'[r] = MaxRepair + 1
        BY <1>0, <1>8 DEF QaRead, EndRounds
    <2>2. ~(Insert(r) \/ QaInsert(r) \/ FixInsert(r))
        BY <2>1 DEF Insert, QaInsert, FixInsert, InsertStep
    <2>3. Allowed(r) = 2 + 2 * round[r] /\ round[r] <= MaxRepair
        BY <1>0, <2>1 DEF Allowed, RoundsOf, QaPlaces
    <2>4. \/ Allowed(r)' = 3 + 2 * MaxRepair
          \/ Allowed(r)' = 2 + 2 * round[r]
          \/ Allowed(r)' = 2 + 2 * MaxRepair
        BY <1>0, <2>1 DEF Allowed, Last
    <2> QED  BY <1>0, <2>2, <2>3, <2>4
<1>9. CASE FixRead(r)
    <2>1. /\ pc[r] = "fix_read"
          /\ \/ pc'[r] = "history"
             \/ /\ pc'[r] = "qa_count" /\ round[r] <= MaxRepair
                /\ round'[r] = round[r] + 1
        BY <1>0, <1>9 DEF FixRead
    <2>2. ~(Insert(r) \/ QaInsert(r) \/ FixInsert(r))
        BY <2>1 DEF Insert, QaInsert, FixInsert, InsertStep
    <2>3. Allowed(r) = 3 + 2 * Last(r) /\ Last(r) \in 0..MaxRepair
        BY <1>0, <2>1 DEF Allowed, Last
    <2>4. \/ Allowed(r)' = 3 + 2 * MaxRepair
          \/ /\ round[r] <= MaxRepair
             /\ Allowed(r)' = 1 + 2 * (round[r] + 1)
        BY <1>0, <2>1 DEF Allowed
    <2> QED  BY <1>0, <2>2, <2>3, <2>4 DEF Last
<1>10. CASE InputMissing(r) \/ Raises(r)
    <2>1. /\ UNCHANGED round
          /\ \/ pc[r] \in {"qa_work", "qa_read"} /\ pc'[r] = "qa_failed"
             \/ pc[r] \in {"fix_work", "fix_read"} /\ pc'[r] = "fix_failed"
             \/ pc'[r] = "row_failed"
        <3>1. UNCHANGED round /\ Goto(r, HandlerOf(pc[r]))
            BY <1>10 DEF InputMissing, Raises
        <3>2. \/ pc[r] \in {"qa_work", "qa_read"}
                    /\ HandlerOf(pc[r]) = "qa_failed"
              \/ pc[r] \in {"fix_work", "fix_read"}
                    /\ HandlerOf(pc[r]) = "fix_failed"
              \/ HandlerOf(pc[r]) = "row_failed"
            BY DEF HandlerOf
        <3> QED  BY <1>0, <3>1, <3>2
    <2>2. ~(Insert(r) \/ QaInsert(r) \/ FixInsert(r))
        BY <1>0, <2>1 DEF Insert, QaInsert, FixInsert, InsertStep
    <2>3. Last(r)' = Last(r) /\ Last(r) \in Nat
        BY <1>0, <2>1 DEF Last
    <2>4. Allowed(r)' \in Nat /\ Allowed(r)' >= Allowed(r)
        <3>1. CASE pc'[r] = "row_failed"
            <4>1. Allowed(r)' = 3 + 2 * MaxRepair
                BY <3>1 DEF Allowed
            <4> QED  BY <1>0, <1>1, <4>1
        <3>2. CASE pc[r] \in {"qa_work", "qa_read"} /\ pc'[r] = "qa_failed"
            <4>1. Allowed(r)' = Allowed(r)
                BY <1>0, <2>1, <3>2 DEF Allowed
            <4> QED  BY <1>1, <4>1
        <3>3. CASE pc[r] \in {"fix_work", "fix_read"} /\ pc'[r] = "fix_failed"
            <4>1. Allowed(r)' = Allowed(r)
                BY <1>0, <2>1, <2>3, <3>3 DEF Allowed
            <4> QED  BY <1>1, <4>1
        <3> QED  BY <2>1, <3>1, <3>2, <3>3
    <2> QED  BY <1>1, <2>2, <2>4
<1>11. CASE Work(r) \/ WriteHistory(r)
    BY <1>0, <1>1, <1>11
    DEF Work, WriteHistory, Insert, QaInsert, FixInsert, InsertStep, Allowed
<1>12. CASE Verdict(r) \/ RowFailed(r) \/ CloseFailed(r) \/ CloseCancelled(r)
            \/ QaFailed(r) \/ FixFailed(r) \/ BookkeepingRaises(r) \/ Dies(r)
    <2>1. pc'[r] \in {"verdict", "done", "lost", "row_failed",
                      "close_failed"}
        BY <1>0, <1>12
        DEF Verdict, RowFailed, WriteRow, CloseFailed, CloseCancelled,
            QaFailed, FixFailed, StepFailed, BookkeepingRaises, Dies
    <2>2. ~(Insert(r) \/ QaInsert(r) \/ FixInsert(r))
        BY <1>0, <2>1 DEF Insert, QaInsert, FixInsert, InsertStep
    <2> QED  BY <1>2, <2>1, <2>2
<1> QED  BY <1>3, <1>4, <1>5, <1>6, <1>7, <1>8, <1>9, <1>10, <1>11, <1>12
         DEF StepOf, RunStep, Fault

LEMMA LateStep == TypeInv /\ RoundsInv /\ LateInv /\ [Next]_vars => LateInv'
<1> SUFFICES ASSUME TypeInv, RoundsInv, LateInv, [Next]_vars PROVE LateInv'
    OBVIOUS
<1>0. /\ \A q \in Runs : late[q] \in Nat /\ round[q] \in 0..MaxRepair + 1
      /\ MaxRepair \in Nat
    BY PipelineAssumption DEF TypeInv, TypeOK
<1>1. ASSUME NEW r \in Runs, StepOf(r) PROVE LateInv'
    <2>1. ASSUME NEW q \in Runs \ {r} PROVE LateOf(q)'
        <3>1. Allowed(q)' = Allowed(q)
            BY <1>1, StepOfOneRun DEF Alike, Allowed, Last
        <3>2. Allowed(q) \in Nat
            BY <1>0 DEF Allowed, Last
        <3>3. CASE UNCHANGED <<job, late>>
            BY <3>1, <3>3 DEF LateInv, LateOf, IsCancelRequested
        <3>4. CASE Observe({}) \/ Observe({r})
            BY <1>0, <3>1, <3>2, <3>4, ObserveCounts DEF LateInv, LateOf
        <3> QED  BY <1>1, <3>3, <3>4, LateChange
    <2>2. LateOf(r)'
        <3>0. /\ late[r] \in Nat /\ late[r] <= Allowed(r)
              /\ late[r] > 0 => IsCancelRequested
            BY <1>0 DEF LateInv, LateOf
        <3>1. CASE UNCHANGED <<job, late>>
            BY <1>1, <3>0, <3>1, AllowedMoves DEF LateOf, IsCancelRequested
        <3>2. CASE Observe({})
            BY <1>1, <3>0, <3>2, AllowedMoves, ObserveCounts DEF LateOf
        <3>3. CASE /\ Observe({r})
                   /\ Insert(r) \/ QaInsert(r) \/ FixInsert(r)
            BY <1>1, <3>0, <3>3, AllowedMoves, ObserveCounts DEF LateOf
        <3> QED  BY <1>1, <3>1, <3>2, <3>3, LateChange
    <2> QED  BY <2>1, <2>2 DEF LateInv
<1>2. CASE CancelJob \/ \E purge \in BOOLEAN : DeleteJob(purge)
    <2>1. Observe({}) /\ UNCHANGED <<pc, round>>
        BY <1>2 DEF CancelJob, DeleteJob, locals
    <2>2. ASSUME NEW q \in Runs PROVE LateOf(q)'
        <3>1. Allowed(q)' = Allowed(q) /\ Allowed(q) \in Nat
            BY <1>0, <2>1 DEF Allowed, Last
        <3> QED  BY <1>0, <2>1, <3>1, ObserveCounts DEF LateInv, LateOf
    <2> QED  BY <2>2 DEF LateInv
<1>3. CASE UNCHANGED vars
    BY <1>3 DEF vars, LateInv, LateOf, IsCancelRequested, Allowed, Last
<1> QED  BY <1>1, <1>2, <1>3, NextCases

\* After a stop request a run begins at most one more phase, and within the
\* repair loop its tests and refactorings.
THEOREM StopHeard == Spec => []StopIsHeard
<1>1. Init => LateInv
    BY PipelineAssumption
    DEF Init, LateInv, LateOf, Allowed
<1>2. TypeInv /\ RoundsInv /\ LateInv => StopIsHeard
    <2> SUFFICES ASSUME TypeInv, RoundsInv, LateInv, NEW r \in Runs
                 PROVE  late[r] <= 1 + 2 * (MaxRepair + 1)
        BY DEF StopIsHeard
    <2>1. /\ late[r] \in Nat /\ round[r] \in 0..MaxRepair + 1
          /\ MaxRepair \in Nat /\ LateOf(r) /\ RoundsOf(r)
        BY PipelineAssumption DEF TypeInv, TypeOK, LateInv, RoundsInv
    <2> QED  BY <2>1 DEF LateOf, RoundsOf, Allowed, Last, QaPlaces, FixPlaces
<1> QED  BY <1>1, <1>2, LateStep, RoundsAlways, TypeAlways, PTL DEF Spec

-----------------------------------------------------------------------------
(* The report files.  Each but the refactor report is written when the     *)
(* pipeline passes one place of the plan for the last time.                *)

Slot(name) ==
    IF name = "repair" THEN LoopAt
    ELSE IF name \in {"test", "bugs", "production"} THEN LoopAt + 1
    ELSE IF name = "runtime" THEN LoopAt + 2
    ELSE IF name = "security" THEN LoopAt + 3
    ELSE ReviewAt

Done(r, i) ==
    /\ pc[r] \in Active
    /\ \/ at[r] > i
       \/ at[r] = i /\ pc[r] \in {"after", "close_passed", "gate"}

Owned(r, name) == reports[name].by = r /\ reports[name].fresh

FreshOf(r) ==
    r \notin overlapped \cup disturbed =>
        \A name \in ReportNames \ {"refactor"} :
            Done(r, Slot(name)) => Owned(r, name)

FreshInv == \A r \in Runs : FreshOf(r)

\* There is a refactor report from the first refactoring of a run on.
NeedsRefactor(r) ==
    \/ pc[r] \in {"fix_read", "history"}
    \/ pc[r] \in QaPlaces /\ round[r] >= 1
    \/ Done(r, LoopAt)

RefactorKept ==
    \A r \in Runs \ disturbed :
        NeedsRefactor(r) => reports["refactor"].status # "MISSING"

LEMMA SlotRange ==
    /\ LoopAt \in Nat /\ LoopAt >= 3 /\ ReviewAt = LoopAt + 4
    /\ \A name \in ReportNames : Slot(name) \in LoopAt..ReviewAt
BY PlanShape DEF Slot, LoopAt, ReviewAt

\* What writing some reports does to each.
LEMMA WritesEffect ==
    ASSUME TypeInv, NEW r \in Runs, NEW written, Writes(r, written),
           NEW name \in ReportNames
    PROVE  IF name \in DOMAIN written THEN Owned(r, name)'
                                      ELSE reports'[name] = reports[name]
BY DEF Writes, Report, Owned

LEMMA QaChecksEffect ==
    ASSUME TypeInv, NEW r \in Runs, NEW release, RunQaChecks(r, release),
           NEW name \in ReportNames
    PROVE  IF name \in {"test", "bugs", "production"}
           THEN Owned(r, name)' ELSE reports'[name] = reports[name]
<1> DEFINE written(f) == [test       |-> TestVerdict(f, release),
                          bugs       |-> NoBugs(f, release),
                          production |-> ProductionVerdict(f, release)]
<1>1. PICK f \in Facts : Writes(r, written(f))
    BY DEF RunQaChecks
<1>2. DOMAIN written(f) = {"test", "bugs", "production"}
    OBVIOUS
<1> HIDE DEF written
<1> QED  BY <1>1, <1>2, WritesEffect

\* A phase after the repair loop writes the reports of its place and no
\* other.
LEMMA LaterWork ==
    ASSUME TypeInv, NEW r \in Runs, Work(r), at[r] > LoopAt,
           NEW name \in ReportNames
    PROVE  IF name # "refactor" /\ Slot(name) = at[r]
           THEN Owned(r, name)' ELSE reports'[name] = reports[name]
<1>0. /\ at[r] \in 1..Len(Plan) /\ Len(Design) \in Nat
      /\ Len(Plan) = LoopAt + 5 /\ ReviewAt = LoopAt + 4
      /\ LoopAt = Len(Design) + 3 /\ Operation(r)
    BY PlanShape DEF TypeInv, TypeOK, LoopAt, ReviewAt, Work
<1>1. /\ PhaseOf(r) # "06_flutter_dev" /\ ~(at[r] <= Len(Design))
      /\ PhaseOf(r) = Qa <=> at[r] = LoopAt + 1
      /\ PhaseOf(r) = "09_runtime_test" <=> at[r] = LoopAt + 2
      /\ PhaseOf(r) = "10_security_audit" <=> at[r] = LoopAt + 3
      /\ PhaseOf(r) = Review <=> at[r] = ReviewAt
    <2>1. at[r] \in {LoopAt + 1, LoopAt + 2, LoopAt + 3, LoopAt + 4,
                     LoopAt + 5}
        BY <1>0
    <2>2. /\ Plan[LoopAt + 1] = Qa /\ Plan[LoopAt + 2] = "09_runtime_test"
          /\ Plan[LoopAt + 3] = "10_security_audit"
          /\ Plan[LoopAt + 4] = Review
          /\ Plan[LoopAt + 5] = "12_export_package"
        BY <1>0, PlanShape
    <2> QED  BY <1>0, <2>1, <2>2 DEF PhaseOf, Qa, Review
<1>2. CASE at[r] = LoopAt + 1
    <2>1. \E release : RunQaChecks(r, release)
        BY <1>0, <1>1, <1>2 DEF Operation, Qa, Review
    <2>2. name # "refactor" /\ Slot(name) = at[r] <=>
             name \in {"test", "bugs", "production"}
        BY <1>0, <1>2 DEF Slot, ReportNames
    <2> QED  BY <2>1, <2>2, QaChecksEffect
<1>3. CASE at[r] = LoopAt + 2
    <2> DEFINE written(f) == [runtime |-> RuntimeVerdict(f)]
    <2>1. PICK f \in Facts : Writes(r, written(f))
        BY <1>0, <1>1, <1>3 DEF Operation, RunRuntimeVerification, Qa, Review
    <2>2. DOMAIN written(f) = {"runtime"}
        OBVIOUS
    <2>3. name # "refactor" /\ Slot(name) = at[r] <=> name = "runtime"
        BY <1>0, <1>3 DEF Slot, ReportNames
    <2> HIDE DEF written
    <2> QED  BY <2>1, <2>2, <2>3, WritesEffect
<1>4. CASE at[r] = LoopAt + 3
    <2> DEFINE written(f) == [security |-> SecurityVerdict(f)]
    <2>1. PICK f \in Facts : Writes(r, written(f))
        BY <1>0, <1>1, <1>4 DEF Operation, WriteSecurityDocuments, Qa, Review
    <2>2. DOMAIN written(f) = {"security"}
        OBVIOUS
    <2>3. name # "refactor" /\ Slot(name) = at[r] <=> name = "security"
        BY <1>0, <1>4 DEF Slot, ReportNames
    <2> HIDE DEF written
    <2> QED  BY <2>1, <2>2, <2>3, WritesEffect
<1>5. CASE at[r] = LoopAt + 4
    <2> DEFINE written == [review |-> ReviewVerdict]
    <2>1. Writes(r, written)
        BY <1>0, <1>1, <1>5 DEF Operation, WriteReviewDocuments, Qa, Review
    <2>2. DOMAIN written = {"review"}
        OBVIOUS
    <2>3. name # "refactor" /\ Slot(name) = at[r] <=> name = "review"
        BY <1>0, <1>5 DEF Slot, ReportNames
    <2> HIDE DEF written
    <2> QED  BY <2>1, <2>2, <2>3, WritesEffect
<1>6. CASE at[r] = LoopAt + 5
    <2>1. reports' = reports
        BY <1>0, <1>1, <1>6 DEF Operation, ExportSourceArchive, Qa, Review
    <2>2. Slot(name) # at[r]
        BY <1>0, <1>6, SlotRange
    <2> QED  BY <2>1, <2>2
<1> QED  BY <1>0, <1>2, <1>3, <1>4, <1>5, <1>6

\* A phase before the loop keeps every status that there is.
LEMMA EarlierWork ==
    ASSUME TypeInv, NEW r \in Runs, Work(r), at[r] < LoopAt
    PROVE  reports'["refactor"].status = reports["refactor"].status
<1>0. /\ at[r] \in 1..Len(Plan) /\ Len(Design) \in Nat
      /\ LoopAt = Len(Design) + 3 /\ Operation(r) /\ "refactor" \in ReportNames
    BY PlanShape DEF TypeInv, TypeOK, LoopAt, Work, ReportNames
<1>1. CASE WriteDesign
    BY <1>1 DEF WriteDesign
<1>2. CASE WriteSource
    BY <1>0, <1>2 DEF WriteSource, Outdated, TypeInv, TypeOK
<1>3. CASE \E release : RunQaChecks(r, release)
    BY <1>0, <1>3, QaChecksEffect
<1>4. CASE at[r] > Len(Design) + 1 /\ ~\E release : RunQaChecks(r, release)
    <2>1. at[r] = LoopAt - 1
        BY <1>0, <1>4
    <2>2. PhaseOf(r) = Qa
        BY <1>0, <2>1, PlanShape DEF PhaseOf
    <2> QED  BY <1>0, <1>4, <2>2 DEF Operation, Qa, Review
<1>5. CASE at[r] = Len(Design) + 1
    <2>1. PhaseOf(r) = "06_flutter_dev"
        BY <1>5, PlanShape DEF PhaseOf
    <2> QED  BY <1>0, <1>2, <1>5, <2>1 DEF Operation, Qa, Review
<1>6. CASE at[r] <= Len(Design)
    <2>1. PhaseOf(r) \in {"02_business_analysis", "03_backend_design",
                          "04_architecture_design", "05_uiux_design"}
        BY <1>0, <1>6, PlanShape, PipelineAssumption DEF PhaseOf
    <2> QED  BY <1>0, <1>1, <2>1 DEF Operation, Qa, Review
<1> QED  BY <1>0, <1>3, <1>4, <1>5, <1>6

\* Only four steps write reports.
LEMMA ReportsChange ==
    ASSUME TypeInv, NEW r \in Runs, StepOf(r)
    PROVE  \/ UNCHANGED reports
           \/ Work(r) \/ QaWork(r) \/ FixWork(r) \/ WriteHistory(r)
<1> USE DEF stores
<1>1. CASE Submit(r) \/ Start(r) \/ Upsert(r) \/ Verdict(r)
    BY <1>1 DEF Submit, Start, Upsert, Verdict
<1>2. CASE Begin(r) \/ Insert(r) \/ Gate(r)
    BY <1>2 DEF Begin, Insert, Gate
<1>3. CASE StartRow(r) \/ After(r) \/ RowFailed(r)
    BY <1>3 DEF StartRow, After, RowFailed, WriteRow
<1>4. CASE ClosePassed(r) \/ CloseFailed(r) \/ CloseCancelled(r)
    BY <1>4 DEF ClosePassed, CloseFailed, CloseCancelled
<1>5. CASE QaCount(r) \/ QaInsert(r) \/ QaRead(r) \/ QaFailed(r)
    BY <1>5 DEF QaCount, QaInsert, InsertStep, QaRead, QaFailed, StepFailed
<1>6. CASE FixCount(r) \/ FixInsert(r) \/ FixRead(r) \/ FixFailed(r)
    BY <1>6
    DEF FixCount, FixInsert, InsertStep, FixRead, FixFailed, StepFailed
<1>7. CASE InputMissing(r) \/ Fault(r)
    BY <1>7 DEF InputMissing, Fault, Raises, BookkeepingRaises, Dies
<1> QED  BY <1>1, <1>2, <1>3, <1>4, <1>5, <1>6, <1>7 DEF StepOf, RunStep

\* No step of a run takes the refactor report away, and a refactoring
\* writes it.
LEMMA RefactorStays ==
    ASSUME TypeInv, NEW r \in Runs, StepOf(r)
    PROVE  \/ reports'["refactor"].status = reports["refactor"].status
           \/ reports'["refactor"].status # "MISSING"
<1>0. /\ "refactor" \in ReportNames
      /\ LoopAt \in Nat /\ at[r] \in Nat
      /\ pc[r] = "work" => at[r] # LoopAt
    BY SlotRange, SMTT(30) DEF ReportNames, TypeInv, TypeOK, Placed
<1>1. CASE Work(r)
    <2>1. at[r] > LoopAt \/ at[r] < LoopAt
        BY <1>0, <1>1 DEF Work
    <2> QED  BY <1>0, <1>1, <2>1, LaterWork, EarlierWork
<1>2. CASE QaWork(r)
    BY <1>0, <1>2, QaChecksEffect DEF QaWork
<1>3. CASE FixWork(r)
    BY <1>0, <1>3 DEF FixWork, RunRefactor, Outdated, Report
<1>4. CASE WriteHistory(r)
    <2>1. reports'["refactor"] = reports["refactor"]
        BY <1>0, <1>4 DEF WriteHistory, Writes
    <2> QED  BY <2>1
<1> QED  BY <1>1, <1>2, <1>3, <1>4, ReportsChange

\* How a run passes a place of the plan.
LEMMA DoneMoves ==
    ASSUME TypeInv, RoundsInv, NEW r \in Runs, StepOf(r),
           NEW i \in LoopAt..ReviewAt, Done(r, i)'
    PROVE  \/ Done(r, i)
           \/ Work(r) /\ at[r] = i
           \/ WriteHistory(r) /\ i = LoopAt
<1> USE DEF stores, locals, observers, Goto, End
<1>0. /\ pc \in [Runs -> Places] /\ at \in [Runs -> 1..Len(Plan)]
      /\ at[r] \in Nat /\ Len(Plan) \in Nat
      /\ i \in Nat /\ i > 1 /\ i <= ReviewAt /\ ReviewAt \in Nat
      /\ pc[r] \in Loop => at[r] = LoopAt
      /\ pc[r] = "gate" => at[r] = ReviewAt
      /\ pc[r] \in {"idle", "queued", "upsert"} => at[r] = 1
    BY SlotRange, PlanShape, SMTT(30)
    DEF TypeInv, TypeOK, Placed, RoundsInv, RoundsOf, LoopAt, ReviewAt
<1>1. CASE Submit(r) \/ Start(r) \/ Upsert(r)
    <2>1. /\ pc[r] \in {"idle", "queued", "upsert"} /\ at'[r] = at[r]
          /\ pc'[r] \in {"queued", "verdict", "upsert", "begin"}
        BY <1>0, <1>1 DEF Submit, Start, Upsert
    <2> QED  BY <1>0, <2>1 DEF Done
<1>2. CASE ClosePassed(r) \/ Gate(r)
    <2>1. /\ pc[r] \in {"close_passed", "gate"}
          /\ \/ at'[r] = at[r] /\ pc'[r] \in {"gate", "verdict"}
             \/ at'[r] = at[r] + 1 /\ pc'[r] = "begin"
        BY <1>0, <1>2 DEF ClosePassed, Gate
    <2>2. pc[r] \in Active
        BY <2>1 DEF Active, Outer
    <2> QED  BY <1>0, <2>1, <2>2 DEF Done
<1>3. CASE Work(r)
    <2>1. /\ pc[r] = "work" /\ pc[r] \in Active /\ at'[r] = at[r]
        BY <1>3 DEF Work, Active
    <2> QED  BY <1>0, <1>3, <2>1 DEF Done
<1>4. CASE WriteHistory(r)
    <2>1. /\ pc[r] = "history" /\ pc[r] \in Active /\ at'[r] = at[r]
          /\ at[r] = LoopAt
        BY <1>0, <1>4 DEF WriteHistory, Active, Loop
    <2> QED  BY <1>0, <1>4, <2>1 DEF Done
<1>5. CASE After(r)
    <2>1. /\ pc[r] = "after" /\ pc[r] \in Active /\ at'[r] = at[r]
        BY <1>5 DEF After, WriteRow, Active
    <2> QED  BY <1>0, <2>1 DEF Done
<1>6. CASE /\ at'[r] = at[r]
           /\ pc'[r] \notin {"after", "close_passed", "gate"}
           /\ pc[r] \in Active
    BY <1>0, <1>6 DEF Done
<1>7. CASE StartRow(r) \/ RowFailed(r)
    <2>1. /\ at'[r] = at[r] /\ pc[r] \in Active
          /\ pc'[r] \notin {"after", "close_passed", "gate"}
        BY <1>0, <1>7 DEF StartRow, RowFailed, WriteRow, Active, Outer
    <2> QED  BY <1>6, <2>1
<1>8. CASE \/ Verdict(r) \/ Begin(r) \/ Insert(r) \/ CloseFailed(r)
           \/ CloseCancelled(r)
    <2>1. /\ at'[r] = at[r] /\ pc[r] \in Active
          /\ pc'[r] \notin {"after", "close_passed", "gate"}
        BY <1>0, <1>8
        DEF Verdict, Begin, Insert, CloseFailed, CloseCancelled, Active, Outer
    <2> QED  BY <1>6, <2>1
<1>9. CASE \/ QaCount(r) \/ QaInsert(r) \/ QaWork(r) \/ QaRead(r)
           \/ QaFailed(r)
    <2>1. /\ at'[r] = at[r] /\ pc[r] \in Active
          /\ pc'[r] \notin {"after", "close_passed", "gate"}
        BY <1>0, <1>9
        DEF QaCount, QaInsert, InsertStep, QaWork, QaRead, QaFailed,
            StepFailed, Active, Loop
    <2> QED  BY <1>6, <2>1
<1>10. CASE \/ FixCount(r) \/ FixInsert(r) \/ FixWork(r) \/ FixRead(r)
            \/ FixFailed(r)
    <2>1. /\ at'[r] = at[r] /\ pc[r] \in Active
          /\ pc'[r] \notin {"after", "close_passed", "gate"}
        BY <1>0, <1>10
        DEF FixCount, FixInsert, InsertStep, FixWork, FixRead, FixFailed,
            StepFailed, Active, Loop
    <2> QED  BY <1>6, <2>1
<1>11. CASE InputMissing(r) \/ Fault(r)
    <2>1. at'[r] = at[r] /\ pc[r] \in Active
        BY <1>11
        DEF InputMissing, Impossible, Fault, Raises, BookkeepingRaises, Dies,
            Active, Loop
    <2>2. pc'[r] \in {HandlerOf(pc[r]), "verdict", "lost"}
        BY <1>0, <1>11
        DEF InputMissing, Fault, Raises, BookkeepingRaises, Dies
    <2>3. HandlerOf(pc[r]) \notin {"after", "close_passed", "gate"}
        BY DEF HandlerOf
    <2> QED  BY <1>6, <2>1, <2>2, <2>3
<1> QED  BY <1>1, <1>2, <1>3, <1>4, <1>5, <1>7, <1>8, <1>9, <1>10, <1>11
         DEF StepOf, RunStep

\* When a run comes to need a refactor report.
LEMMA NeedMoves ==
    ASSUME TypeInv, RoundsInv, NEW r \in Runs, StepOf(r), NeedsRefactor(r)'
    PROVE  \/ NeedsRefactor(r)
           \/ FixWork(r)
           \/ QaRead(r) /\ reports["refactor"].status # "MISSING"
<1> USE DEF stores, locals, observers, Goto, End
<1>0. /\ pc \in [Runs -> Places] /\ round \in [Runs -> 0..MaxRepair + 1]
      /\ pc[r] \in Loop => at[r] = LoopAt
      /\ LoopAt \in LoopAt..ReviewAt /\ MaxRepair \in Nat
      /\ at[r] = LoopAt /\ pc[r] = "row" => round[r] = 0
      /\ PhaseOf(r) = Repair => at[r] = LoopAt
      /\ pc[r] = "work" => at[r] # LoopAt
    BY SlotRange, PlanNames, PipelineAssumption
    DEF TypeInv, TypeOK, Placed, RoundsInv, RoundsOf, Early, PhaseOf
<1>1. CASE Done(r, LoopAt)'
    BY <1>0, <1>1, DoneMoves DEF NeedsRefactor, Work, WriteHistory
<1>2. CASE pc'[r] \in {"fix_read", "history"} \/
           (pc'[r] \in QaPlaces /\ round'[r] >= 1)
    <2>1. CASE QaRead(r)
        BY <1>0, <1>2, <2>1 DEF QaRead, QaPlaces
    <2>2. CASE FixRead(r)
        BY <2>2 DEF FixRead, NeedsRefactor
    <2>3. CASE StartRow(r)
        BY <1>0, <1>2, <2>3 DEF StartRow, WriteRow, QaPlaces
    <2>4. CASE QaCount(r) \/ QaInsert(r) \/ QaWork(r)
        BY <1>0, <1>2, <2>4
        DEF QaCount, QaInsert, InsertStep, QaWork, QaPlaces, NeedsRefactor
    <2>5. CASE InputMissing(r) \/ Raises(r)
        <3>1. /\ round'[r] = round[r]
              /\ pc'[r] = HandlerOf(pc[r])
            BY <1>0, <2>5 DEF InputMissing, Raises
        <3>2. pc'[r] = "qa_failed" /\ pc[r] \in {"qa_work", "qa_read"}
            BY <1>2, <3>1 DEF HandlerOf, QaPlaces
        <3> QED  BY <1>2, <3>1, <3>2 DEF NeedsRefactor, QaPlaces
    <2>6. CASE \/ Submit(r) \/ Start(r) \/ Upsert(r) \/ Verdict(r)
               \/ Begin(r) \/ Insert(r)
               \/ Gate(r) \/ ClosePassed(r) \/ CloseFailed(r)
               \/ CloseCancelled(r) \/ Work(r)
        BY <1>0, <1>2, <2>6
        DEF Submit, Start, Upsert, Verdict, Begin, Insert, Gate, ClosePassed,
            CloseFailed, CloseCancelled, Work, QaPlaces
    <2>7. CASE After(r) \/ RowFailed(r) \/ QaFailed(r) \/ FixFailed(r)
               \/ FixCount(r) \/ FixInsert(r) \/ WriteHistory(r)
        BY <1>0, <1>2, <2>7
        DEF After, RowFailed, WriteRow, QaFailed, FixFailed, StepFailed,
            FixCount, FixInsert, InsertStep, WriteHistory, QaPlaces
    <2>8. CASE BookkeepingRaises(r) \/ Dies(r)
        BY <1>0, <1>2, <2>8 DEF BookkeepingRaises, Dies, QaPlaces
    <2> QED  BY <2>1, <2>2, <2>3, <2>4, <2>5, <2>6, <2>7, <2>8
             DEF StepOf, RunStep, Fault
<1> QED  BY <1>1, <1>2 DEF NeedsRefactor

LEMMA RefactorStep ==
    TypeInv /\ RoundsInv /\ RefactorKept /\ [Next]_vars => RefactorKept'
<1> SUFFICES ASSUME TypeInv, RoundsInv, RefactorKept, [Next]_vars
             PROVE  RefactorKept'
    OBVIOUS
<1>1. ASSUME NEW r \in Runs, StepOf(r) PROVE RefactorKept'
    <2> SUFFICES ASSUME NEW q \in Runs \ disturbed', NeedsRefactor(q)'
                 PROVE  reports'["refactor"].status # "MISSING"
        BY DEF RefactorKept
    <2>1. q \in Runs \ disturbed
        BY <1>1, StepOfOneRun
    <2>2. CASE NeedsRefactor(q)
        BY <1>1, <2>1, <2>2, RefactorStays DEF RefactorKept
    <2>3. CASE q # r
        <3>1. NeedsRefactor(q)
            BY <1>1, <2>3, StepOfOneRun DEF Alike, NeedsRefactor, Done
        <3> QED  BY <2>2, <3>1
    <2>4. CASE q = r /\ FixWork(r)
        BY <2>4
        DEF FixWork, RunRefactor, Outdated, Report, ReportNames
    <2>5. CASE q = r /\ QaRead(r) /\ reports["refactor"].status # "MISSING"
        BY <2>5 DEF QaRead
    <2> QED  BY <1>1, <2>2, <2>3, <2>4, <2>5, NeedMoves
<1>2. ASSUME NEW purge \in BOOLEAN, DeleteJob(purge) PROVE RefactorKept'
    <2> SUFFICES ASSUME NEW q \in Runs \ disturbed', NeedsRefactor(q)'
                 PROVE  FALSE
        BY DEF RefactorKept
    <2>1. pc[q] \notin Active /\ pc'[q] = pc[q]
        BY <1>2 DEF DeleteJob
    <2> QED  BY <2>1 DEF NeedsRefactor, Done, QaPlaces, Active, Loop
<1>3. CASE CancelJob \/ UNCHANGED vars
    BY <1>3
    DEF CancelJob, vars, locals, RefactorKept, NeedsRefactor, Done
<1> QED  BY <1>1, <1>2, <1>3, NextCases

LEMMA RefactorAlways == Spec => []RefactorKept
<1>1. Init => RefactorKept
    BY DEF Init, RefactorKept, NeedsRefactor, Done, QaPlaces, Active, Outer,
           Loop
<1> QED  BY <1>1, RefactorStep, RoundsAlways, TypeAlways, PTL DEF Spec

LEMMA FreshStep ==
    TypeInv /\ RoundsInv /\ Aware /\ FreshInv /\ [Next]_vars => FreshInv'
<1> SUFFICES ASSUME TypeInv, RoundsInv, Aware, FreshInv, [Next]_vars
             PROVE  FreshInv'
    OBVIOUS
<1>0. /\ LoopAt \in Nat /\ \A q \in Runs : at[q] \in Nat
      /\ \A name \in ReportNames : Slot(name) \in LoopAt..ReviewAt
    BY SlotRange DEF TypeInv, TypeOK
<1>1. ASSUME NEW r \in Runs, StepOf(r) PROVE FreshInv'
    <2> SUFFICES ASSUME NEW q \in Runs, q \notin (overlapped \cup disturbed)',
                        NEW name \in ReportNames \ {"refactor"},
                        Done(q, Slot(name))'
                 PROVE  Owned(q, name)'
        BY DEF FreshInv, FreshOf, Slot
    <2>1. q \notin overlapped \cup disturbed
        BY <1>1, StepOfOneRun
    <2>2. CASE q # r
        <3>1. Done(q, Slot(name)) /\ pc[q] \in Active
            BY <1>1, <2>2, StepOfOneRun DEF Alike, Done
        <3>2. Owned(q, name)
            BY <2>1, <3>1 DEF FreshInv, FreshOf
        <3>3. pc[r] \notin Active
            BY <2>1, <2>2, <3>1 DEF Aware
        <3>4. ~Start(r)
            BY <2>2, <3>1 DEF Start, NoteOverlap
        <3>5. Submit(r)
            BY <1>1, <3>3, <3>4, ActiveOrSubmit
        <3> QED  BY <3>2, <3>5 DEF Submit, Owned
    <2>3. CASE q = r /\ UNCHANGED reports
        <3>1. ~Work(r) \/ at[r] < LoopAt \/ Slot(name) # at[r]
              \/ Owned(r, name)'
            BY <1>0, <2>3, LaterWork DEF TypeInv, Placed, Work
        <3>2. ~WriteHistory(r) \/ Slot(name) # LoopAt \/ Owned(r, name)'
            BY <2>3, SlotRange, WritesEffect
            DEF WriteHistory, Slot, ReportNames
        <3>3. Done(r, Slot(name)) \/ Owned(r, name)'
            BY <1>0, <1>1, <2>3, <3>1, <3>2, DoneMoves
        <3> QED  BY <2>1, <2>3, <3>3 DEF FreshInv, FreshOf, Owned
    <2>4. CASE q = r /\ Work(r)
        <3>1. /\ pc[r] = "work" /\ at'[r] = at[r] /\ at[r] # LoopAt
            BY <2>4 DEF Work, locals, TypeInv, Placed
        <3>2. at[r] > LoopAt
            BY <1>0, <2>4, <3>1 DEF Done
        <3>3. CASE Slot(name) = at[r]
            BY <2>4, <3>2, <3>3, LaterWork
        <3>4. CASE Slot(name) # at[r]
            <4>1. reports'[name] = reports[name]
                BY <2>4, <3>2, <3>4, LaterWork
            <4>2. Done(r, Slot(name))
                BY <1>0, <1>1, <2>4, <3>1, <3>4, DoneMoves DEF WriteHistory
            <4> QED  BY <2>1, <2>4, <4>1, <4>2 DEF FreshInv, FreshOf, Owned
        <3> QED  BY <3>3, <3>4
    <2>5. CASE q = r /\ WriteHistory(r)
        <3> DEFINE written == [repair |-> \A i \in 1..Len(events[r]) :
                                             events[r][i] # "FAIL"]
        <3>1. Writes(r, written)
            BY <2>5 DEF WriteHistory
        <3>2. DOMAIN written = {"repair"}
            OBVIOUS
        <3> HIDE DEF written
        <3>3. /\ pc[r] = "history" /\ at'[r] = LoopAt
            BY <2>5 DEF WriteHistory, locals, TypeInv, Placed, Loop
        <3>4. Slot(name) = LoopAt
            BY <1>0, <2>5, <3>3 DEF Done
        <3>5. name = "repair"
            BY <3>4, SlotRange DEF Slot
        <3> QED  BY <2>5, <3>1, <3>2, <3>5, WritesEffect
    <2>6. CASE q = r /\ (QaWork(r) \/ FixWork(r))
        <3>1. /\ pc'[r] \in {"qa_read", "fix_read"} /\ at'[r] = LoopAt
            BY <2>6 DEF QaWork, FixWork, locals, TypeInv, TypeOK, Placed, Loop,
               Goto
        <3> QED  BY <1>0, <2>6, <3>1 DEF Done
    <2> QED  BY <1>1, <2>2, <2>3, <2>4, <2>5, <2>6, ReportsChange
<1>2. ASSUME NEW purge \in BOOLEAN, DeleteJob(purge) PROVE FreshInv'
    <2>1. \A q \in Runs : q \notin disturbed' => pc[q] \notin Active
        BY <1>2 DEF DeleteJob
    <2>2. pc' = pc
        BY <1>2 DEF DeleteJob
    <2> QED  BY <2>1, <2>2 DEF FreshInv, FreshOf, Done
<1>3. CASE CancelJob \/ UNCHANGED vars
    BY <1>3
    DEF CancelJob, vars, locals, FreshInv, FreshOf, Done, Owned, Slot
<1> QED  BY <1>1, <1>2, <1>3, NextCases

\* A run that had the slug to itself, and kept its row, is judged by its own
\* reports about the source that would be exported.
THEOREM GateFresh == Spec => []GateIsFresh
<1>1. Init => FreshInv
    BY DEF Init, FreshInv, FreshOf, Done, Active, Outer, Loop
<1>2. TypeInv /\ FreshInv /\ RefactorKept => GateIsFresh
    <2> SUFFICES ASSUME TypeInv, FreshInv, RefactorKept, NEW r \in Runs,
                        pc[r] = "gate", r \notin overlapped \cup disturbed
                 PROVE  /\ \A name \in ReportNames \ {"refactor"} :
                              reports[name].by = r /\ reports[name].fresh
                        /\ reports["refactor"].status # "MISSING"
        BY DEF GateIsFresh
    <2>1. /\ at[r] = ReviewAt /\ pc[r] \in Active
          /\ LoopAt \in Nat /\ ReviewAt = LoopAt + 4
        BY SlotRange DEF TypeInv, Placed, Active
    <2>2. Done(r, LoopAt) /\ \A name \in ReportNames : Done(r, Slot(name))
        BY <2>1, SlotRange DEF Done
    <2> QED  BY <2>2 DEF FreshInv, FreshOf, Owned, RefactorKept, NeedsRefactor
<1> QED  BY <1>1, <1>2, FreshStep, RefactorAlways, AwareAlways, RoundsAlways,
            TypeAlways, PTL DEF Spec

-----------------------------------------------------------------------------
(* The repair budget.  How many attempts of phases 07 and 08 a run has     *)
(* made is known from where it is.                                         *)

Own(r, p) == {a \in attempts : a.run = r /\ a.phase = p}

Begins(r, p) ==
    \/ Insert(r) /\ PhaseOf(r) = p
    \/ QaInsert(r) /\ p = Qa
    \/ FixInsert(r) /\ p = Repair

\* The UPDATE adds no row.
LEMMA FinishCounts ==
    ASSUME TypeInv, NEW p, NEW n, NEW st \in Statuses,
           FinishAttempt(p, n, st), IsFiniteSet(attempts)
    PROVE  /\ IsFiniteSet(attempts')
           /\ \A r, q : /\ IsFiniteSet(Own(r, q)')
                        /\ Cardinality(Own(r, q)') <= Cardinality(Own(r, q))
<1> DEFINE New(a) == IF a.phase = p /\ a.n = n
                     THEN [a EXCEPT !.status = st] ELSE a
<1>1. attempts' = {New(a) : a \in attempts}
    BY DEF FinishAttempt
<1>2. \A a \in attempts : New(a).phase = a.phase /\ New(a).run = a.run
    BY DEF TypeInv, TypeOK
<1> HIDE DEF New
<1>3. IsFiniteSet(attempts')
    <2> DEFINE f == [a \in attempts |-> New(a)]
    <2>1. f \in Surjection(attempts, attempts')
        BY <1>1 DEF Surjection
    <2> QED  BY <2>1, FS_Surjection
<1>4. ASSUME NEW r, NEW q
      PROVE  /\ IsFiniteSet(Own(r, q)')
             /\ Cardinality(Own(r, q)') <= Cardinality(Own(r, q))
    <2> DEFINE f == [a \in Own(r, q) |-> New(a)]
    <2>1. IsFiniteSet(Own(r, q))
        BY FS_Subset DEF Own
    <2>2. Own(r, q)' = {New(a) : a \in Own(r, q)}
        BY <1>1, <1>2 DEF Own
    <2>3. f \in Surjection(Own(r, q), Own(r, q)')
        BY <2>2 DEF Surjection
    <2> QED  BY <2>1, <2>3, FS_Surjection
<1> QED  BY <1>3, <1>4

\* The INSERT adds one row, of one run and phase.
LEMMA InsertCounts ==
    ASSUME TypeInv, NEW r \in Runs, NEW p \in Phases, NEW n,
           InsertAttempt(r, p, n), IsFiniteSet(attempts)
    PROVE  /\ IsFiniteSet(attempts')
           /\ \A s, q :
                 /\ IsFiniteSet(Own(s, q)')
                 /\ ~(s = r /\ q = p) => Own(s, q)' = Own(s, q)
           /\ Cardinality(Own(r, p)') <= Cardinality(Own(r, p)) + 1
<1> DEFINE new == [phase |-> p, n |-> n, run |-> r, status |-> "running"]
<1>1. attempts' = attempts \cup {new} /\ new.run = r /\ new.phase = p
    BY DEF InsertAttempt
<1> HIDE DEF new
<1>2. IsFiniteSet(attempts')
    BY <1>1, FS_AddElement
<1>3. \A s, q : IsFiniteSet(Own(s, q)) /\ IsFiniteSet(Own(s, q)')
    BY <1>2, FS_Subset DEF Own
<1>4. \A s, q : ~(s = r /\ q = p) => Own(s, q)' = Own(s, q)
    BY <1>1 DEF Own
<1>5. Own(r, p)' = Own(r, p) \cup {new}
    BY <1>1 DEF Own
<1>6. Cardinality(Own(r, p)') <= Cardinality(Own(r, p)) + 1
    <2>1. IsFiniteSet(Own(r, p)) /\ Cardinality(Own(r, p)) \in Nat
        BY <1>3, FS_CardinalityType
    <2>2. Cardinality(Own(r, p) \cup {new}) =
             IF new \in Own(r, p) THEN Cardinality(Own(r, p))
                                  ELSE Cardinality(Own(r, p)) + 1
        BY <2>1, FS_AddElement
    <2> QED  BY <1>5, <2>1, <2>2
<1> QED  BY <1>2, <1>3, <1>4, <1>6

\* A step adds at most the attempt it begins.
LEMMA StepCounts ==
    ASSUME TypeInv, NEW r \in Runs, StepOf(r), IsFiniteSet(attempts)
    PROVE  /\ IsFiniteSet(attempts')
           /\ \A s \in Runs, p \in Phases :
                 /\ Cardinality(Own(s, p)) \in Nat
                 /\ Cardinality(Own(s, p)') \in Nat
                 /\ \/ Cardinality(Own(s, p)') <= Cardinality(Own(s, p))
                    \/ /\ s = r /\ Begins(r, p)
                       /\ Cardinality(Own(s, p)') <=
                             Cardinality(Own(s, p)) + 1
<1>0. \A s, p : IsFiniteSet(Own(s, p)) /\ Cardinality(Own(s, p)) \in Nat
    <2>1. \A s, p : IsFiniteSet(Own(s, p))
        BY FS_Subset DEF Own
    <2> QED  BY <2>1, FS_CardinalityType
<1>1. CASE UNCHANGED attempts
    <2>1. \A s, p : Own(s, p)' = Own(s, p)
        BY <1>1 DEF Own
    <2> QED  BY <1>0, <1>1, <2>1
<1>2. ASSUME NEW p \in Phases, NEW n \in Nat, NEW st \in Statuses,
             FinishAttempt(p, n, st)
      PROVE  /\ IsFiniteSet(attempts')
             /\ \A s, q : /\ Cardinality(Own(s, q)') \in Nat
                          /\ Cardinality(Own(s, q)') <= Cardinality(Own(s, q))
    <2>1. /\ IsFiniteSet(attempts')
          /\ \A s, q : /\ IsFiniteSet(Own(s, q)')
                       /\ Cardinality(Own(s, q)') <= Cardinality(Own(s, q))
        BY <1>2, FinishCounts
    <2> QED  BY <2>1, FS_CardinalityType
<1>3. ASSUME NEW p \in Phases, NEW n, InsertAttempt(r, p, n), Begins(r, p)
      PROVE  /\ IsFiniteSet(attempts')
             /\ \A s \in Runs, q \in Phases :
                 /\ Cardinality(Own(s, q)') \in Nat
                 /\ \/ Cardinality(Own(s, q)') <= Cardinality(Own(s, q))
                    \/ /\ s = r /\ Begins(r, q)
                       /\ Cardinality(Own(s, q)') <=
                             Cardinality(Own(s, q)) + 1
    <2>1. /\ IsFiniteSet(attempts')
          /\ \A s, q :
                /\ IsFiniteSet(Own(s, q)')
                /\ ~(s = r /\ q = p) => Own(s, q)' = Own(s, q)
          /\ Cardinality(Own(r, p)') <= Cardinality(Own(r, p)) + 1
        BY <1>3, InsertCounts
    <2>2. \A s, q : Cardinality(Own(s, q)') \in Nat
        BY <2>1, FS_CardinalityType
    <2> SUFFICES ASSUME NEW s \in Runs, NEW q \in Phases
                 PROVE  \/ Cardinality(Own(s, q)') <= Cardinality(Own(s, q))
                        \/ /\ s = r /\ Begins(r, q)
                           /\ Cardinality(Own(s, q)') <=
                                 Cardinality(Own(s, q)) + 1
        BY <2>1, <2>2
    <2>3. CASE s = r /\ q = p
        BY <1>3, <2>1, <2>3
    <2>4. CASE ~(s = r /\ q = p)
        <3>1. Own(s, q)' = Own(s, q)
            BY <2>1, <2>4
        <3> QED  BY <1>0, <3>1
    <2> QED  BY <2>3, <2>4
<1>4. CASE Insert(r) \/ QaInsert(r) \/ FixInsert(r)
    <2>1. \E p \in Phases : \E n : InsertAttempt(r, p, n) /\ Begins(r, p)
        <3>1. PhaseOf(r) \in Phases /\ {Qa, Repair} \subseteq Phases
            BY PlanNames DEF PhaseOf, TypeInv, TypeOK
        <3> QED  BY <1>4, <3>1
                 DEF Insert, QaInsert, FixInsert, InsertStep, Begins
    <2> QED  BY <1>0, <1>3, <2>1
<1>5. CASE ~(Insert(r) \/ QaInsert(r) \/ FixInsert(r))
    <2>1. \/ UNCHANGED attempts
          \/ \E p \in Phases, n \in Nat, st \in Statuses \ {"running"} :
                FinishAttempt(p, n, st)
        BY <1>5, NoInsert
    <2> QED  BY <1>0, <1>1, <1>2, <2>1
<1> QED  BY <1>4, <1>5

Waiting == {"idle", "queued", "upsert", "begin", "insert"}
Settled == {"after", "row_failed", "close_passed", "close_failed",
            "close_cancelled", "gate", "verdict", "done", "lost", "history"}

\* A step within the loop, with the rounds it counts.
LoopMove(r) ==
    /\ at[r] = LoopAt /\ at'[r] = at[r]
    /\ \/ /\ round'[r] = round[r]
          /\ \/ pc[r] = "qa_count" /\ pc'[r] = "qa_insert"
             \/ pc[r] = "qa_insert" /\ pc'[r] = "qa_work"
             \/ /\ pc[r] \in {"qa_work", "qa_read"}
                /\ pc'[r] \in {"qa_read", "qa_failed"}
             \/ pc[r] = "fix_count" /\ pc'[r] = "fix_insert"
             \/ pc[r] = "fix_insert" /\ pc'[r] = "fix_work"
             \/ /\ pc[r] \in {"fix_work", "fix_read"}
                /\ pc'[r] \in {"fix_read", "fix_failed"}
             \/ /\ pc[r] = "qa_read" /\ pc'[r] = "fix_count"
                /\ round[r] < MaxRepair
       \/ /\ pc[r] = "qa_read" /\ pc'[r] = "fix_count"
          /\ round[r] = 0 /\ round'[r] = MaxRepair + 1
       \/ /\ pc[r] = "fix_read" /\ pc'[r] = "qa_count"
          /\ round[r] < MaxRepair /\ round'[r] = round[r] + 1

OuterMove(r) ==
    /\ round'[r] = round[r]
    /\ \/ /\ at'[r] = at[r]
          /\ \/ pc[r] \in Waiting /\ pc'[r] \in Waiting
             \/ pc[r] = "insert" /\ pc'[r] = "row"
             \/ pc[r] = "row" /\ pc'[r] = "work" /\ at[r] # LoopAt
             \/ /\ pc[r] = "row" /\ pc'[r] = "qa_count" /\ at[r] = LoopAt
                /\ round[r] = 0
             \/ pc'[r] \in Settled
       \/ /\ at'[r] = at[r] + 1
          /\ pc[r] \in {"close_passed", "gate"} /\ pc'[r] = "begin"

LEMMA Moves ==
    ASSUME TypeInv, RoundsInv, RefactorKept, NEW r \in Runs \ disturbed,
           StepOf(r)
    PROVE  OuterMove(r) \/ LoopMove(r)
<1> USE DEF stores, locals, observers, Goto, End, Waiting, Settled
<1>0. /\ pc \in [Runs -> Places] /\ round \in [Runs -> 0..MaxRepair + 1]
      /\ at \in [Runs -> 1..Len(Plan)] /\ MaxRepair \in Nat
      /\ round[r] \in 0..MaxRepair + 1
      /\ pc[r] \in Loop => at[r] = LoopAt
      /\ at[r] = LoopAt /\ pc[r] = "row" => round[r] = 0
      /\ PhaseOf(r) = Repair <=> at[r] = LoopAt
      /\ pc[r] \in FixPlaces => round[r] # MaxRepair
      /\ pc[r] \in QaPlaces => round[r] <= MaxRepair
    BY PlanNames, PipelineAssumption
    DEF TypeInv, TypeOK, Placed, RoundsInv, RoundsOf, Early, PhaseOf
<1>1. CASE Submit(r) \/ Start(r) \/ Upsert(r) \/ Verdict(r)
           \/ Begin(r) \/ Insert(r)
    BY <1>0, <1>1 DEF Submit, Start, Upsert, Verdict, Begin, Insert, OuterMove
<1>2. CASE StartRow(r) \/ After(r) \/ RowFailed(r)
    BY <1>0, <1>2 DEF StartRow, After, RowFailed, WriteRow, OuterMove
<1>3. CASE \/ ClosePassed(r) \/ CloseFailed(r) \/ CloseCancelled(r)
           \/ Gate(r) \/ Work(r)
    BY <1>0, <1>3
    DEF ClosePassed, CloseFailed, CloseCancelled, Gate, Work, OuterMove
<1>4. CASE \/ QaCount(r) \/ QaInsert(r) \/ QaWork(r)
           \/ FixCount(r) \/ FixInsert(r) \/ FixWork(r)
    BY <1>0, <1>4
    DEF QaCount, QaInsert, QaWork, FixCount, FixInsert, FixWork, InsertStep,
        LoopMove, Loop
<1>5. CASE QaFailed(r) \/ FixFailed(r) \/ WriteHistory(r)
    BY <1>0, <1>5
    DEF QaFailed, FixFailed, StepFailed, WriteHistory, OuterMove
<1>6. CASE QaRead(r)
    <2>1. reports["refactor"].status = "MISSING" => round[r] = 0
        <3>1. pc[r] = "qa_read"
            BY <1>6 DEF QaRead
        <3>2. round[r] >= 1 => NeedsRefactor(r)
            BY <3>1 DEF NeedsRefactor, QaPlaces
        <3> QED  BY <1>0, <3>2 DEF RefactorKept
    <2> QED  BY <1>0, <1>6, <2>1
             DEF QaRead, EndRounds, OuterMove, LoopMove, Loop
<1>7. CASE FixRead(r)
    <2>1. /\ pc[r] = "fix_read" /\ at[r] = LoopAt /\ at'[r] = at[r]
          /\ \/ pc'[r] = "history" /\ round'[r] = round[r]
             \/ /\ pc'[r] = "qa_count" /\ round[r] <= MaxRepair
                /\ round'[r] = round[r] + 1
        BY <1>0, <1>7 DEF FixRead, Loop
    <2>2. round[r] <= MaxRepair => round[r] < MaxRepair
        BY <1>0, <2>1 DEF FixPlaces
    <2> QED  BY <2>1, <2>2 DEF OuterMove, LoopMove
<1>8. CASE InputMissing(r) \/ Raises(r)
    <2>1. /\ UNCHANGED <<at, round>> /\ pc'[r] = HandlerOf(pc[r])
        BY <1>0, <1>8 DEF InputMissing, Raises
    <2>2. \/ pc[r] \in {"qa_work", "qa_read"} /\ HandlerOf(pc[r]) = "qa_failed"
          \/ /\ pc[r] \in {"fix_work", "fix_read"}
             /\ HandlerOf(pc[r]) = "fix_failed"
          \/ HandlerOf(pc[r]) = "row_failed"
        BY DEF HandlerOf
    <2> QED  BY <1>0, <2>1, <2>2 DEF OuterMove, LoopMove, Loop
<1>9. CASE BookkeepingRaises(r) \/ Dies(r)
    BY <1>0, <1>9 DEF BookkeepingRaises, Dies, OuterMove
<1> QED  BY <1>1, <1>2, <1>3, <1>4, <1>5, <1>6, <1>7, <1>8, <1>9
         DEF StepOf, RunStep, Fault

\* An attempt begins at one of three places.
LEMMA BeginsAt ==
    ASSUME TypeInv, NEW r \in Runs, NEW p, Begins(r, p)
    PROVE  /\ at'[r] = at[r] /\ round'[r] = round[r]
           /\ \/ pc[r] = "insert" /\ pc'[r] = "row" /\ p = PhaseOf(r)
              \/ pc[r] = "qa_insert" /\ pc'[r] = "qa_work" /\ p = Qa
              \/ pc[r] = "fix_insert" /\ pc'[r] = "fix_work" /\ p = Repair
BY DEF Begins, Insert, QaInsert, FixInsert, InsertStep, Goto, locals,
       TypeInv, TypeOK

-----------------------------------------------------------------------------
(* The tests and the refactorings a run may have begun.                    *)

QaAllowed(r) ==
    IF at[r] < LoopAt - 1 \/ (at[r] = LoopAt - 1 /\ pc[r] \in Waiting) THEN 0
    ELSE IF at[r] = LoopAt - 1 THEN 1
    ELSE IF at[r] = LoopAt
    THEN IF pc[r] \in Waiting \cup {"row"} THEN 1
         ELSE IF pc[r] \in {"qa_count", "qa_insert"} THEN 1 + round[r]
         ELSE IF pc[r] \in QaPlaces THEN 2 + round[r]
         ELSE IF pc[r] \in FixPlaces THEN 2 + Last(r)
         ELSE MaxRepair + 2
    ELSE IF at[r] = LoopAt + 1 /\ pc[r] \in Waiting THEN MaxRepair + 2
    ELSE MaxRepair + 3

FixMax == 1 + (IF MaxRepair = 0 THEN 1 ELSE MaxRepair)

\* Past the last round, in round MaxRepair + 1, there was no other.
Before(r) == IF round[r] <= MaxRepair THEN round[r] ELSE 0

FixAllowed(r) ==
    IF at[r] < LoopAt \/ (at[r] = LoopAt /\ pc[r] \in Waiting) THEN 0
    ELSE IF at[r] = LoopAt /\ pc[r] = "row" THEN 1
    ELSE IF pc[r] \in QaPlaces THEN 1 + round[r]
    ELSE IF pc[r] \in {"fix_count", "fix_insert"} THEN 1 + Before(r)
    ELSE IF pc[r] \in FixPlaces THEN 2 + Before(r)
    ELSE FixMax

LEMMA QaAllowedMoves ==
    ASSUME TypeInv, RoundsInv, RefactorKept, NEW r \in Runs \ disturbed,
           StepOf(r)
    PROVE  /\ QaAllowed(r) \in Nat /\ QaAllowed(r)' \in Nat
           /\ QaAllowed(r)' >= QaAllowed(r)
           /\ Begins(r, Qa) => QaAllowed(r)' >= QaAllowed(r) + 1
<1>0. /\ round[r] \in 0..MaxRepair + 1 /\ MaxRepair \in Nat /\ at[r] \in Nat
      /\ LoopAt \in Nat /\ LoopAt >= 3
      /\ at[r] # LoopAt => pc[r] \notin Loop
      /\ pc[r] \in QaPlaces => round[r] <= MaxRepair
      /\ OuterMove(r) \/ LoopMove(r)
      /\ pc[r] = "gate" => at[r] = LoopAt + 4
    <2>1. OuterMove(r) \/ LoopMove(r)
        BY Moves
    <2>2. /\ round[r] \in 0..MaxRepair + 1 /\ MaxRepair \in Nat
          /\ at[r] \in Nat
        BY PlanShape, PipelineAssumption DEF TypeInv, TypeOK
    <2> QED  BY <2>1, <2>2, SlotRange DEF TypeInv, Placed, RoundsInv, RoundsOf
<1>1. CASE LoopMove(r)
    <2>1. Last(r) \in 0..MaxRepair /\ Last(r)' \in 0..MaxRepair
        BY <1>0, <1>1 DEF Last, LoopMove
    <2>2. ASSUME Begins(r, Qa) PROVE pc[r] = "qa_insert" /\ pc'[r] = "qa_work"
        BY <1>1, <2>2, BeginsAt DEF LoopMove, Qa, Repair
    <2>3. CASE pc[r] \in QaPlaces /\ pc'[r] \in QaPlaces
        <3>1. round'[r] = round[r]
            BY <1>1, <2>3 DEF LoopMove, QaPlaces
        <3> QED  BY <1>0, <1>1, <2>2, <2>3, <3>1
                 DEF LoopMove, QaAllowed, QaPlaces, Waiting
    <2>4. CASE pc[r] \in FixPlaces /\ pc'[r] \in FixPlaces
        <3>1. round'[r] = round[r] /\ Last(r)' = Last(r)
            BY <1>1, <2>4 DEF LoopMove, FixPlaces, Last
        <3>2. QaAllowed(r) = 2 + Last(r) /\ QaAllowed(r)' = 2 + Last(r)'
            BY <1>0, <1>1, <2>4
            DEF LoopMove, QaAllowed, QaPlaces, FixPlaces, Waiting
        <3> QED  BY <2>1, <2>2, <2>4, <3>1, <3>2 DEF FixPlaces
    <2>5. CASE pc[r] \in QaPlaces /\ pc'[r] \in FixPlaces
        <3>1. /\ QaAllowed(r) = 2 + round[r] /\ QaAllowed(r)' = 2 + Last(r)'
              /\ pc[r] = "qa_read"
            BY <1>0, <1>1, <2>5
            DEF LoopMove, QaAllowed, QaPlaces, FixPlaces, Waiting
        <3>2. round[r] <= Last(r)'
            BY <1>0, <1>1, <2>5, <3>1 DEF LoopMove, Last, FixPlaces
        <3> QED  BY <1>0, <2>1, <2>2, <3>1, <3>2
    <2>6. CASE pc[r] \in FixPlaces /\ pc'[r] \in QaPlaces
        <3>1. /\ pc[r] = "fix_read" /\ pc'[r] = "qa_count"
              /\ round[r] < MaxRepair /\ round'[r] = round[r] + 1
            BY <1>1, <2>6 DEF LoopMove, QaPlaces, FixPlaces
        <3>2. /\ QaAllowed(r) = 2 + round[r]
              /\ QaAllowed(r)' = 1 + (round[r] + 1)
            BY <1>0, <1>1, <3>1
            DEF LoopMove, QaAllowed, QaPlaces, FixPlaces, Waiting, Last
        <3> QED  BY <1>0, <2>2, <3>1, <3>2
    <2> QED  BY <1>1, <2>3, <2>4, <2>5, <2>6 DEF LoopMove, QaPlaces, FixPlaces
<1>2. CASE OuterMove(r) /\ at'[r] = at[r] /\ pc'[r] \notin Settled
    <2>1. \/ pc[r] \in Waiting /\ pc'[r] \in Waiting
          \/ pc[r] = "insert" /\ pc'[r] = "row"
          \/ pc[r] = "row" /\ pc'[r] = "work" /\ at[r] # LoopAt
          \/ pc[r] = "row" /\ pc'[r] = "qa_count" /\ at[r] = LoopAt
             /\ round[r] = 0 /\ round'[r] = 0
        BY <1>0, <1>2 DEF OuterMove
    <2>2. ASSUME Begins(r, Qa)
          PROVE  /\ pc[r] = "insert" /\ pc'[r] = "row"
                 /\ at[r] \in {LoopAt - 1, LoopAt + 1}
        <3>1. pc[r] = "insert" /\ pc'[r] = "row" /\ Qa = PhaseOf(r)
            BY <2>1, <2>2, BeginsAt DEF Waiting
        <3> QED  BY <3>1, PlanNames DEF PhaseOf, TypeInv, TypeOK
    <2>3. CASE at[r] < LoopAt - 1 \/ at[r] > LoopAt + 1
        BY <1>0, <1>2, <2>2, <2>3 DEF QaAllowed
    <2>4. CASE at[r] \in {LoopAt - 1, LoopAt + 1}
        BY <1>0, <1>2, <2>1, <2>2, <2>4 DEF QaAllowed, Waiting
    <2>5. CASE at[r] = LoopAt
        BY <1>0, <1>2, <2>1, <2>2, <2>5
        DEF QaAllowed, QaPlaces, FixPlaces, Waiting
    <2> QED  BY <1>0, <2>3, <2>4, <2>5
<1>3. CASE OuterMove(r) /\ at'[r] = at[r] /\ pc'[r] \in Settled
    <2>1. ~Begins(r, Qa)
        BY <1>3, BeginsAt DEF Settled
    <2>2. CASE at[r] < LoopAt - 1 \/ at[r] > LoopAt + 1
        BY <1>0, <1>3, <2>1, <2>2 DEF QaAllowed
    <2>3. CASE at[r] \in {LoopAt - 1, LoopAt + 1}
        BY <1>0, <1>3, <2>1, <2>3 DEF QaAllowed, Waiting, Settled
    <2>4. CASE at[r] = LoopAt
        <3>1. QaAllowed(r)' = MaxRepair + 2
            BY <1>0, <1>3, <2>4
            DEF QaAllowed, Waiting, Settled, QaPlaces, FixPlaces
        <3>2. QaAllowed(r) \in Nat /\ QaAllowed(r) <= MaxRepair + 2
            BY <1>0, <2>4 DEF QaAllowed, QaPlaces, Last
        <3> QED  BY <1>0, <2>1, <3>1, <3>2
    <2> QED  BY <1>0, <2>2, <2>3, <2>4
<1>4. CASE OuterMove(r) /\ at'[r] # at[r]
    <2>1. /\ at'[r] = at[r] + 1 /\ pc[r] \in {"close_passed", "gate"}
          /\ pc'[r] = "begin"
        BY <1>4 DEF OuterMove
    <2>2. ~Begins(r, Qa)
        BY <2>1, BeginsAt
    <2>3. CASE at[r] = LoopAt
        BY <1>0, <2>1, <2>2, <2>3 DEF QaAllowed, Waiting, QaPlaces, FixPlaces
    <2>4. CASE at[r] # LoopAt
        BY <1>0, <2>1, <2>2, <2>4 DEF QaAllowed, Waiting
    <2> QED  BY <2>3, <2>4
<1> QED  BY <1>0, <1>1, <1>2, <1>3, <1>4

LEMMA FixAllowedMoves ==
    ASSUME TypeInv, RoundsInv, RefactorKept, NEW r \in Runs \ disturbed,
           StepOf(r)
    PROVE  /\ FixAllowed(r) \in Nat /\ FixAllowed(r)' \in Nat
           /\ FixAllowed(r)' >= FixAllowed(r)
           /\ Begins(r, Repair) => FixAllowed(r)' >= FixAllowed(r) + 1
<1>0. /\ round[r] \in 0..MaxRepair + 1 /\ MaxRepair \in Nat /\ at[r] \in Nat
      /\ LoopAt \in Nat /\ LoopAt >= 3 /\ FixMax \in Nat
      /\ FixMax >= 1 + MaxRepair /\ FixMax >= 2
      /\ at[r] # LoopAt => pc[r] \notin Loop
      /\ pc[r] \in QaPlaces => round[r] <= MaxRepair
      /\ pc[r] \in FixPlaces => round[r] # MaxRepair
      /\ OuterMove(r) \/ LoopMove(r)
      /\ pc[r] = "gate" => at[r] = LoopAt + 4
    BY Moves, SlotRange, PipelineAssumption, SMTT(30)
    DEF TypeInv, TypeOK, Placed, RoundsInv, RoundsOf, FixMax
<1>1. CASE LoopMove(r)
    <2>1. Before(r) \in Nat
        BY <1>0 DEF Before
    <2>2. ASSUME Begins(r, Repair)
          PROVE  pc[r] = "fix_insert" /\ pc'[r] = "fix_work"
        BY <1>1, <2>2, BeginsAt DEF LoopMove, Qa, Repair
    <2>3. CASE pc[r] \in QaPlaces /\ pc'[r] \in QaPlaces
        <3>1. round'[r] = round[r]
            BY <1>1, <2>3 DEF LoopMove, QaPlaces
        <3> QED  BY <1>0, <1>1, <2>2, <2>3, <3>1
                 DEF LoopMove, FixAllowed, QaPlaces, Waiting
    <2>4. CASE pc[r] \in FixPlaces /\ pc'[r] \in FixPlaces
        <3>1. round'[r] = round[r] /\ Before(r)' = Before(r)
            BY <1>1, <2>4 DEF LoopMove, FixPlaces, Before
        <3>2. /\ at[r] = LoopAt /\ at'[r] = LoopAt
              /\ pc[r] \notin QaPlaces \cup Waiting \cup {"row"}
              /\ pc'[r] \notin QaPlaces \cup Waiting \cup {"row"}
            BY <1>1, <2>4 DEF LoopMove, FixPlaces, QaPlaces, Waiting
        <3>3. CASE pc'[r] \in {"fix_count", "fix_insert"}
            <4>1. /\ FixAllowed(r) = 1 + Before(r)
                  /\ FixAllowed(r)' = 1 + Before(r)
                BY <1>0, <1>1, <2>4, <3>1, <3>2, <3>3
                DEF LoopMove, FixAllowed, FixPlaces
            <4> QED  BY <2>1, <2>2, <3>3, <4>1
        <3>4. CASE pc[r] = "fix_insert"
            <4>1. /\ FixAllowed(r) = 1 + Before(r)
                  /\ FixAllowed(r)' = 2 + Before(r)
                BY <1>0, <1>1, <2>4, <3>1, <3>2, <3>4
                DEF LoopMove, FixAllowed, FixPlaces
            <4> QED  BY <2>1, <4>1
        <3>5. CASE pc[r] \notin {"fix_count", "fix_insert"}
            <4>1. /\ FixAllowed(r) = 2 + Before(r)
                  /\ FixAllowed(r)' = 2 + Before(r)
                BY <1>0, <1>1, <2>4, <3>1, <3>2, <3>5
                DEF LoopMove, FixAllowed, FixPlaces
            <4> QED  BY <2>1, <2>2, <3>5, <4>1
        <3> QED  BY <1>1, <2>4, <3>3, <3>4, <3>5 DEF LoopMove, FixPlaces
    <2>5. CASE pc[r] \in QaPlaces /\ pc'[r] \in FixPlaces
        <3>1. /\ pc[r] = "qa_read" /\ pc'[r] = "fix_count"
              /\ \/ round'[r] = round[r] /\ round[r] < MaxRepair
                 \/ round[r] = 0 /\ round'[r] = MaxRepair + 1
            BY <1>1, <2>5 DEF LoopMove, QaPlaces, FixPlaces
        <3>2. /\ FixAllowed(r) = 1 + round[r]
              /\ FixAllowed(r)' = 1 + Before(r)'
            BY <1>0, <1>1, <3>1
            DEF LoopMove, FixAllowed, QaPlaces, FixPlaces, Waiting
        <3>3. Before(r)' = round[r]
            BY <1>0, <3>1 DEF Before
        <3> QED  BY <1>0, <2>2, <3>1, <3>2, <3>3
    <2>6. CASE pc[r] \in FixPlaces /\ pc'[r] \in QaPlaces
        <3>1. /\ pc[r] = "fix_read" /\ pc'[r] = "qa_count"
              /\ round[r] < MaxRepair /\ round'[r] = round[r] + 1
            BY <1>1, <2>6 DEF LoopMove, QaPlaces, FixPlaces
        <3>2. Before(r) = round[r]
            BY <1>0, <3>1 DEF Before
        <3>3. /\ FixAllowed(r) = 2 + round[r]
              /\ FixAllowed(r)' = 1 + (round[r] + 1)
            BY <1>0, <1>1, <3>1, <3>2
            DEF LoopMove, FixAllowed, QaPlaces, FixPlaces, Waiting
        <3> QED  BY <1>0, <2>2, <3>1, <3>3
    <2> QED  BY <1>1, <2>3, <2>4, <2>5, <2>6 DEF LoopMove, QaPlaces, FixPlaces
<1>2. CASE OuterMove(r) /\ at'[r] = at[r] /\ pc'[r] \notin Settled
    <2>1. \/ pc[r] \in Waiting /\ pc'[r] \in Waiting
          \/ pc[r] = "insert" /\ pc'[r] = "row"
          \/ pc[r] = "row" /\ pc'[r] = "work" /\ at[r] # LoopAt
          \/ pc[r] = "row" /\ pc'[r] = "qa_count" /\ at[r] = LoopAt
             /\ round[r] = 0 /\ round'[r] = 0
        BY <1>0, <1>2 DEF OuterMove
    <2>2. ASSUME Begins(r, Repair)
          PROVE  pc[r] = "insert" /\ pc'[r] = "row" /\ at[r] = LoopAt
        <3>1. pc[r] = "insert" /\ pc'[r] = "row" /\ Repair = PhaseOf(r)
            BY <2>1, <2>2, BeginsAt DEF Waiting
        <3> QED  BY <3>1, PlanNames DEF PhaseOf, TypeInv, TypeOK
    <2>3. CASE at[r] < LoopAt
        BY <1>0, <1>2, <2>2, <2>3 DEF FixAllowed
    <2>4. CASE at[r] > LoopAt
        <3>1. FixAllowed(r) = FixMax /\ FixAllowed(r)' = FixMax
            BY <1>0, <1>2, <2>1, <2>4
            DEF FixAllowed, Waiting, QaPlaces, FixPlaces
        <3> QED  BY <1>0, <2>2, <2>4, <3>1
    <2>5. CASE at[r] = LoopAt
        BY <1>0, <1>2, <2>1, <2>2, <2>5
        DEF FixAllowed, QaPlaces, FixPlaces, Waiting
    <2> QED  BY <1>0, <2>3, <2>4, <2>5
<1>3. CASE OuterMove(r) /\ at'[r] = at[r] /\ pc'[r] \in Settled
    <2>1. ~Begins(r, Repair)
        BY <1>3, BeginsAt DEF Settled
    <2>2. CASE at[r] < LoopAt
        BY <1>0, <1>3, <2>1, <2>2 DEF FixAllowed
    <2>3. CASE at[r] >= LoopAt
        <3>1. FixAllowed(r)' = FixMax
            BY <1>0, <1>3, <2>3
            DEF FixAllowed, Waiting, Settled, QaPlaces, FixPlaces
        <3>2. Before(r) \in Nat /\ Before(r) <= MaxRepair
            BY <1>0 DEF Before
        <3>3. CASE pc[r] \in FixPlaces
            <4>1. Before(r) < MaxRepair \/ Before(r) = 0
                BY <1>0, <3>3 DEF Before
            <4>2. FixAllowed(r) \in {0, 1 + Before(r), 2 + Before(r)}
                BY <3>3 DEF FixAllowed, QaPlaces, FixPlaces
            <4> QED  BY <1>0, <2>1, <3>1, <3>2, <4>1, <4>2
        <3>4. CASE pc[r] \in QaPlaces
            <4>1. FixAllowed(r) \in {0, 1 + round[r]}
                BY <3>4 DEF FixAllowed, QaPlaces
            <4> QED  BY <1>0, <2>1, <3>1, <3>4, <4>1
        <3>5. CASE pc[r] \notin QaPlaces \cup FixPlaces
            <4>1. FixAllowed(r) \in {0, 1, FixMax}
                BY <3>5 DEF FixAllowed, FixPlaces
            <4> QED  BY <1>0, <2>1, <3>1, <4>1
        <3> QED  BY <3>3, <3>4, <3>5
    <2> QED  BY <1>0, <2>2, <2>3
<1>4. CASE OuterMove(r) /\ at'[r] # at[r]
    <2>1. /\ at'[r] = at[r] + 1 /\ pc[r] \in {"close_passed", "gate"}
          /\ pc'[r] = "begin"
        BY <1>4 DEF OuterMove
    <2>2. ~Begins(r, Repair)
        BY <2>1, BeginsAt
    <2>3. CASE at[r] < LoopAt
        BY <1>0, <2>1, <2>2, <2>3 DEF FixAllowed, Waiting
    <2>4. CASE at[r] >= LoopAt
        <3>1. FixAllowed(r) = FixMax /\ FixAllowed(r)' = FixMax
            BY <1>0, <2>1, <2>4
            DEF FixAllowed, Waiting, QaPlaces, FixPlaces
        <3> QED  BY <1>0, <2>2, <3>1
    <2> QED  BY <1>0, <2>3, <2>4
<1> QED  BY <1>0, <1>1, <1>2, <1>3, <1>4

BudgetInv ==
    /\ IsFiniteSet(attempts)
    /\ \A r \in Runs \ disturbed :
          /\ Cardinality(Own(r, Qa)) <= QaAllowed(r)
          /\ Cardinality(Own(r, Repair)) <= FixAllowed(r)

LEMMA BudgetStep ==
    TypeInv /\ RoundsInv /\ RefactorKept /\ BudgetInv /\ [Next]_vars
        => BudgetInv'
<1> SUFFICES ASSUME TypeInv, RoundsInv, RefactorKept, BudgetInv, [Next]_vars
             PROVE  BudgetInv'
    OBVIOUS
<1>1. ASSUME NEW r \in Runs, StepOf(r) PROVE BudgetInv'
    <2>1. /\ IsFiniteSet(attempts')
          /\ \A s \in Runs, p \in {Qa, Repair} :
                 /\ Cardinality(Own(s, p)) \in Nat
                 /\ Cardinality(Own(s, p)') \in Nat
                 /\ \/ Cardinality(Own(s, p)') <= Cardinality(Own(s, p))
                    \/ /\ s = r /\ Begins(r, p)
                       /\ Cardinality(Own(s, p)') <=
                             Cardinality(Own(s, p)) + 1
        <3>1. {Qa, Repair} \subseteq Phases /\ IsFiniteSet(attempts)
            BY PlanNames DEF BudgetInv
        <3> QED  BY <1>1, <3>1, StepCounts
    <2>2. ASSUME NEW s \in Runs, s \notin disturbed'
          PROVE  /\ Cardinality(Own(s, Qa)') <= QaAllowed(s)'
                 /\ Cardinality(Own(s, Repair)') <= FixAllowed(s)'
        <3>0. /\ s \notin disturbed
              /\ Cardinality(Own(s, Qa)) <= QaAllowed(s)
              /\ Cardinality(Own(s, Repair)) <= FixAllowed(s)
            <4>1. s \notin disturbed
                BY <1>1, <2>2, StepOfOneRun
            <4> QED  BY <4>1 DEF BudgetInv
        <3>1. CASE s # r
            <4>1. QaAllowed(s)' = QaAllowed(s) /\ FixAllowed(s)' = FixAllowed(s)
                BY <1>1, <3>1, StepOfOneRun
                DEF Alike, QaAllowed, FixAllowed, Last, Before
            <4>2. /\ Cardinality(Own(s, Qa)') <= Cardinality(Own(s, Qa))
                  /\ Cardinality(Own(s, Repair)') <= Cardinality(Own(s, Repair))
                BY <2>1, <3>1
            <4>3. QaAllowed(s) \in Nat /\ FixAllowed(s) \in Nat
                <5>1. round[s] \in 0..MaxRepair + 1 /\ MaxRepair \in Nat
                    BY PipelineAssumption DEF TypeInv, TypeOK
                <5>2. Last(s) \in Nat /\ Before(s) \in Nat /\ FixMax \in Nat
                    BY <5>1 DEF Last, Before, FixMax
                <5> QED  BY <5>1, <5>2 DEF QaAllowed, FixAllowed
            <4> QED  BY <2>1, <3>0, <4>1, <4>2, <4>3
        <3>2. CASE s = r
            <4>1. /\ QaAllowed(r) \in Nat /\ QaAllowed(r)' \in Nat
                  /\ QaAllowed(r)' >= QaAllowed(r)
                  /\ Begins(r, Qa) => QaAllowed(r)' >= QaAllowed(r) + 1
                BY <1>1, <3>0, <3>2, QaAllowedMoves
            <4>2. /\ FixAllowed(r) \in Nat /\ FixAllowed(r)' \in Nat
                  /\ FixAllowed(r)' >= FixAllowed(r)
                  /\ Begins(r, Repair) =>
                        FixAllowed(r)' >= FixAllowed(r) + 1
                BY <1>1, <3>0, <3>2, FixAllowedMoves
            <4>3. Cardinality(Own(r, Qa)') <= QaAllowed(r)'
                BY <2>1, <3>0, <3>2, <4>1
            <4>4. Cardinality(Own(r, Repair)') <= FixAllowed(r)'
                BY <2>1, <3>0, <3>2, <4>2
            <4> QED  BY <3>2, <4>3, <4>4
        <3> QED  BY <3>1, <3>2
    <2> QED  BY <2>1, <2>2 DEF BudgetInv
<1>2. CASE \/ CancelJob \/ \E purge \in BOOLEAN : DeleteJob(purge)
           \/ UNCHANGED vars
    <2>1. /\ UNCHANGED <<attempts, pc, at, round>>
          /\ disturbed \subseteq disturbed'
        BY <1>2, RequestsOnly
    <2>2. \A s, p : Own(s, p)' = Own(s, p)
        BY <2>1 DEF Own
    <2>3. \A s : QaAllowed(s)' = QaAllowed(s) /\ FixAllowed(s)' = FixAllowed(s)
        BY <2>1 DEF QaAllowed, FixAllowed, Last, Before
    <2> QED  BY <2>1, <2>2, <2>3 DEF BudgetInv
<1> QED  BY <1>1, <1>2, NextCases

\* The repair loop keeps its budget, whatever fails and whoever else is at
\* work on the slug.
THEOREM BudgetKept == Spec => []RepairBudget
<1>1. Init => BudgetInv
    <2> SUFFICES ASSUME Init PROVE BudgetInv
        OBVIOUS
    <2>1. IsFiniteSet(attempts) /\ \A r, p : Own(r, p) = {}
        BY FS_EmptySet DEF Init, Own
    <2>2. \A r \in Runs : QaAllowed(r) = 0 /\ FixAllowed(r) = 0
        BY SlotRange DEF Init, QaAllowed, FixAllowed
    <2> QED  BY <2>1, <2>2, FS_EmptySet DEF BudgetInv
<1>2. TypeInv /\ RoundsInv /\ BudgetInv => RepairBudget
    <2> SUFFICES ASSUME TypeInv, RoundsInv, BudgetInv,
                        NEW r \in Runs \ disturbed
                 PROVE  /\ Cardinality(Own(r, Qa)) <= MaxRepair + 3
                        /\ Cardinality(Own(r, Repair)) <= FixMax
        BY DEF RepairBudget, Own, FixMax
    <2>1. /\ round[r] \in 0..MaxRepair + 1 /\ MaxRepair \in Nat
          /\ pc[r] \in QaPlaces => round[r] <= MaxRepair
          /\ pc[r] \in FixPlaces => round[r] # MaxRepair
          /\ Last(r) \in 0..MaxRepair
        BY PipelineAssumption
        DEF TypeInv, TypeOK, RoundsInv, RoundsOf, Last
    <2>2. \A p : Cardinality(Own(r, p)) \in Nat
        <3>1. \A p : IsFiniteSet(Own(r, p))
            BY FS_Subset DEF BudgetInv, Own
        <3> QED  BY <3>1, FS_CardinalityType
    <2>3. QaAllowed(r) \in Nat /\ QaAllowed(r) <= MaxRepair + 3
        BY <2>1 DEF QaAllowed, QaPlaces
    <2>4. FixAllowed(r) \in Nat /\ FixAllowed(r) <= FixMax /\ FixMax \in Nat
        <3>1. FixMax \in Nat /\ FixMax >= 1 + MaxRepair /\ FixMax >= 2
            BY <2>1 DEF FixMax
        <3>2. /\ Before(r) \in Nat
              /\ pc[r] \in FixPlaces => Before(r) < MaxRepair \/ Before(r) = 0
            BY <2>1 DEF Before
        <3>3. \/ FixAllowed(r) \in {0, 1, FixMax}
              \/ pc[r] \in QaPlaces /\ FixAllowed(r) = 1 + round[r]
              \/ /\ pc[r] \in FixPlaces
                 /\ FixAllowed(r) \in {1 + Before(r), 2 + Before(r)}
            BY DEF FixAllowed, FixPlaces
        <3> QED  BY <2>1, <3>1, <3>2, <3>3
    <2> QED  BY <2>1, <2>2, <2>3, <2>4 DEF BudgetInv
<1> QED  BY <1>1, <1>2, BudgetStep, RefactorAlways, RoundsAlways, TypeAlways,
            PTL DEF Spec

-----------------------------------------------------------------------------
(* The verdict on a run that has the slug to itself.  From a check of the  *)
(* loop the FAIL goes through the events and the repair history to the     *)
(* gate.                                                                   *)

EndsInFail(r) == events[r] # <<>> /\ events[r][Len(events[r])] = "FAIL"
HoldsFail(r)  == \E i \in 1..Len(events[r]) : events[r][i] = "FAIL"

RefusedOf(r) ==
    r \notin overlapped =>
        /\ pc[r] = "qa_read" => ~Pass("production")
        /\ pc[r] \in {"fix_count", "fix_insert", "fix_work", "fix_read"}
              => EndsInFail(r)
        /\ pc[r] = "history" => HoldsFail(r)
        /\ Done(r, LoopAt) => ~Pass("repair")

RefusedInv == \A r \in Runs : RefusedOf(r)

\* One event more: it is the last, and the last so far is still there.
LEMMA LogEventEnds ==
    ASSUME TypeInv, NEW r \in Runs, NEW st \in {"PASS", "FAIL", "MISSING"},
           LogEvent(r, st)
    PROVE  /\ st = "FAIL" => EndsInFail(r)' /\ HoldsFail(r)'
           /\ EndsInFail(r) => HoldsFail(r)'
<1> DEFINE old == events[r]
           all == Append(old, st)
           new == IF Len(all) > 3 THEN Tail(all) ELSE all
<1>1. /\ events'[r] = new /\ old \in Seq({"PASS", "FAIL", "MISSING"})
    BY DEF LogEvent, TypeInv, TypeOK
<1>2. /\ Len(all) = Len(old) + 1 /\ Len(old) \in Nat
      /\ all \in Seq({"PASS", "FAIL", "MISSING"})
      /\ all[Len(all)] = st
      /\ old # <<>> => Len(old) > 0 /\ all[Len(old)] = old[Len(old)]
    BY <1>1
<1>3. CASE Len(all) > 3
    <2>1. /\ new = Tail(all) /\ Len(new) = Len(old)
          /\ \A i \in 1..Len(old) : new[i] = all[i + 1]
        BY <1>2, <1>3
    <2>2. new # <<>> /\ new[Len(new)] = st /\ new[Len(old) - 1] = all[Len(old)]
        BY <1>2, <1>3, <2>1, SMTT(30)
    <2>3. Len(new) \in 1..Len(new) /\ Len(old) - 1 \in 1..Len(new)
        BY <1>2, <1>3, <2>1
    <2>4. old # <<>> => new[Len(old) - 1] = old[Len(old)]
        BY <1>2, <2>2
    <2> HIDE DEF new, all
    <2>5. st = "FAIL" => EndsInFail(r)' /\ HoldsFail(r)'
        BY <1>1, <2>2, <2>3 DEF EndsInFail, HoldsFail
    <2>6. EndsInFail(r) => HoldsFail(r)'
        BY <1>1, <2>3, <2>4 DEF EndsInFail, HoldsFail
    <2> QED  BY <2>5, <2>6
<1>4. CASE ~(Len(all) > 3)
    <2>1. new = all
        BY <1>4
    <2>2. Len(all) \in 1..Len(all) /\ (old # <<>> => Len(old) \in 1..Len(all))
        BY <1>2
    <2>3. all # <<>>
        BY <1>2
    <2> HIDE DEF new, all
    <2> QED  BY <1>1, <1>2, <2>1, <2>2, <2>3 DEF EndsInFail, HoldsFail
<1> QED  BY <1>3, <1>4

\* Without a release build the production report cannot pass.
LEMMA LoopChecksFail ==
    ASSUME TypeInv, NEW r \in Runs, RunQaChecks(r, FALSE)
    PROVE  ~Pass("production")'
<1> DEFINE written(f) == [test       |-> TestVerdict(f, FALSE),
                          bugs       |-> NoBugs(f, FALSE),
                          production |-> ProductionVerdict(f, FALSE)]
<1>1. PICK f \in Facts : Writes(r, written(f))
    BY DEF RunQaChecks
<1>2. /\ "production" \in DOMAIN written(f)
      /\ written(f)["production"] = ProductionVerdict(f, FALSE)
    OBVIOUS
<1> HIDE DEF written
<1>3. ~ProductionVerdict(f, FALSE)
    BY DEF ProductionVerdict
<1>4. reports'["production"].status = "FAIL"
    BY <1>1, <1>2, <1>3 DEF Writes, Report, ReportNames
<1> QED  BY <1>4 DEF Pass

\* What a step of the run itself does to its part of the invariant.
LEMMA RefusedMoves ==
    ASSUME TypeInv, RoundsInv, NEW r \in Runs, StepOf(r), RefusedOf(r),
           r \notin overlapped
    PROVE  /\ pc'[r] = "qa_read" => ~Pass("production")'
           /\ pc'[r] \in {"fix_count", "fix_insert", "fix_work", "fix_read"}
                 => EndsInFail(r)'
           /\ pc'[r] = "history" => HoldsFail(r)'
<1> USE DEF Goto, End, stores, locals
<1>0. /\ pc \in [Runs -> Places]
      /\ pc[r] = "qa_read" => ~Pass("production")
      /\ pc[r] \in {"fix_count", "fix_insert", "fix_work", "fix_read"}
            => EndsInFail(r)
      /\ pc[r] = "history" => HoldsFail(r)
    BY DEF TypeInv, TypeOK, RefusedOf
<1>1. CASE QaWork(r)
    BY <1>0, <1>1, LoopChecksFail DEF QaWork
<1>2. CASE QaRead(r)
    <2>1. /\ pc[r] = "qa_read" /\ LogEvent(r, "FAIL")
          /\ pc'[r] \in {"fix_count", "history"}
        BY <1>0, <1>2 DEF QaRead
    <2> QED  BY <2>1, LogEventEnds
<1>3. CASE FixRead(r)
    <2>1. /\ pc[r] = "fix_read" /\ LogEvent(r, reports["refactor"].status)
          /\ pc'[r] \in {"history", "qa_count"}
        BY <1>0, <1>3 DEF FixRead
    <2>2. reports["refactor"].status \in {"PASS", "FAIL", "MISSING"}
        BY DEF TypeInv, TypeOK, ReportNames
    <2> QED  BY <1>0, <2>1, <2>2, LogEventEnds
<1>4. CASE FixCount(r) \/ FixInsert(r) \/ FixWork(r)
    <2>1. /\ pc[r] \in {"fix_count", "fix_insert", "fix_work"}
          /\ pc'[r] \in {"fix_insert", "fix_work", "fix_read"}
          /\ UNCHANGED events
        BY <1>0, <1>4 DEF FixCount, FixInsert, InsertStep, FixWork
    <2> QED  BY <1>0, <2>1 DEF EndsInFail
<1>5. CASE ~(QaWork(r) \/ QaRead(r) \/ FixRead(r) \/ FixCount(r)
             \/ FixInsert(r) \/ FixWork(r))
    <2>1. CASE Submit(r) \/ Start(r) \/ Upsert(r) \/ Verdict(r)
               \/ Begin(r) \/ Insert(r)
               \/ Work(r) \/ Gate(r)
        BY <1>0, <2>1 DEF Submit, Start, Upsert, Verdict, Begin, Insert, Work,
                          Gate
    <2>2. CASE StartRow(r) \/ After(r) \/ RowFailed(r)
        BY <1>0, <2>2 DEF StartRow, After, RowFailed, WriteRow
    <2>3. CASE ClosePassed(r) \/ CloseFailed(r) \/ CloseCancelled(r)
        BY <1>0, <2>3 DEF ClosePassed, CloseFailed, CloseCancelled
    <2>4. CASE QaCount(r) \/ QaInsert(r) \/ QaFailed(r) \/ FixFailed(r)
               \/ WriteHistory(r)
        BY <1>0, <2>4
        DEF QaCount, QaInsert, InsertStep, QaFailed, FixFailed, StepFailed,
            WriteHistory
    <2>5. CASE InputMissing(r) \/ Raises(r)
        BY <1>0, <2>5 DEF InputMissing, Raises, HandlerOf
    <2>6. CASE BookkeepingRaises(r) \/ Dies(r)
        BY <1>0, <2>6 DEF BookkeepingRaises, Dies
    <2> QED  BY <1>5, <2>1, <2>2, <2>3, <2>4, <2>5, <2>6
             DEF StepOf, RunStep, Fault
<1> QED  BY <1>1, <1>2, <1>3, <1>4, <1>5

\* The repair history that a run has behind it stays as it is.
LEMMA HistoryStays ==
    ASSUME TypeInv, RoundsInv, NEW r \in Runs, StepOf(r), RefusedOf(r),
           r \notin overlapped, Done(r, LoopAt)'
    PROVE  ~Pass("repair")'
<1>0. /\ LoopAt \in LoopAt..ReviewAt /\ LoopAt \in Nat /\ at[r] \in Nat
      /\ "repair" \in ReportNames /\ Slot("repair") = LoopAt
      /\ pc[r] = "work" => at[r] # LoopAt
      /\ pc[r] \in Loop => at[r] = LoopAt
    BY SlotRange DEF Slot, ReportNames, TypeInv, TypeOK, Placed
<1>1. CASE WriteHistory(r)
    <2> DEFINE written == [repair |-> \A i \in 1..Len(events[r]) :
                                         events[r][i] # "FAIL"]
    <2>1. Writes(r, written) /\ HoldsFail(r)
        BY <1>1 DEF WriteHistory, RefusedOf
    <2>2. "repair" \in DOMAIN written /\ ~written["repair"]
        BY <2>1 DEF HoldsFail
    <2> HIDE DEF written
    <2>3. reports'["repair"].status = "FAIL"
        BY <1>0, <2>1, <2>2 DEF Writes, Report
    <2> QED  BY <2>3 DEF Pass
<1>2. CASE ~WriteHistory(r)
    <2>1. Done(r, LoopAt)
        BY <1>0, <1>2, DoneMoves DEF Work
    <2>2. ~Pass("repair") /\ pc[r] \in Active
        BY <2>1 DEF RefusedOf, Done
    <2>3. CASE UNCHANGED reports
        BY <2>2, <2>3 DEF Pass
    <2>4. CASE Work(r)
        <3>1. at[r] > LoopAt
            BY <1>0, <2>1, <2>4 DEF Done, Work
        <3>2. reports'["repair"] = reports["repair"]
            BY <1>0, <2>4, <3>1, LaterWork
        <3> QED  BY <2>2, <3>2 DEF Pass
    <2>5. ~(QaWork(r) \/ FixWork(r))
        <3>1. pc[r] \notin Loop
            BY <1>0, <2>1 DEF Done, Loop
        <3> QED  BY <3>1 DEF QaWork, FixWork, Loop
    <2> QED  BY <1>2, <2>3, <2>4, <2>5, ReportsChange
<1> QED  BY <1>1, <1>2

LEMMA RefusedStep ==
    TypeInv /\ RoundsInv /\ Aware /\ RefusedInv /\ [Next]_vars => RefusedInv'
<1> SUFFICES ASSUME TypeInv, RoundsInv, Aware, RefusedInv, [Next]_vars
             PROVE  RefusedInv'
    OBVIOUS
<1>1. ASSUME NEW r \in Runs, StepOf(r) PROVE RefusedInv'
    <2> SUFFICES ASSUME NEW q \in Runs, q \notin overlapped'
                 PROVE  RefusedOf(q)'
        BY DEF RefusedInv, RefusedOf
    <2>1. q \notin overlapped /\ RefusedOf(q)
        BY <1>1, StepOfOneRun DEF RefusedInv
    <2>2. CASE q = r
        BY <1>1, <2>1, <2>2, RefusedMoves, HistoryStays DEF RefusedOf
    <2>3. CASE q # r /\ pc[q] \in Active
        <3>1. pc[r] \notin Active
            BY <2>1, <2>3 DEF Aware
        <3>2. ~Start(r)
            BY <2>3 DEF Start, NoteOverlap
        <3>3. Submit(r)
            BY <1>1, <3>1, <3>2, ActiveOrSubmit
        <3>4. UNCHANGED <<reports, events, at>> /\ pc'[q] = pc[q]
            BY <2>3, <3>3 DEF Submit, Goto, locals, TypeInv, TypeOK
        <3> QED  BY <2>1, <3>4
                 DEF RefusedOf, EndsInFail, HoldsFail, Pass, Done
    <2>4. CASE q # r /\ pc[q] \notin Active
        <3>1. pc'[q] = pc[q]
            BY <1>1, <2>4, StepOfOneRun DEF Alike
        <3> QED  BY <2>4, <3>1 DEF RefusedOf, Done, Active, Loop
    <2> QED  BY <2>2, <2>3, <2>4
<1>2. ASSUME NEW purge \in BOOLEAN, DeleteJob(purge) PROVE RefusedInv'
    <2>1. /\ UNCHANGED <<pc, at, events, overlapped>>
          /\ \A name \in {"production", "repair"} : Pass(name)' => Pass(name)
        BY <1>2 DEF DeleteJob, locals, Pass, Missing, ReportNames
    <2> QED  BY <2>1
             DEF RefusedInv, RefusedOf, EndsInFail, HoldsFail, Done
<1>3. CASE CancelJob \/ UNCHANGED vars
    BY <1>3
    DEF CancelJob, vars, locals, RefusedInv, RefusedOf, EndsInFail, HoldsFail,
        Done, Pass
<1> QED  BY <1>1, <1>2, <1>3, NextCases

\* The gate refuses every run that has the slug to itself: the checks of the
\* repair loop are made without the release build that they are judged by.
THEOREM AloneRefused == Spec => []AloneIsRefused
<1>1. Init => RefusedInv
    BY DEF Init, RefusedInv, RefusedOf, Done, Active, Outer, Loop
<1>2. TypeInv /\ RefusedInv => AloneIsRefused
    <2> SUFFICES ASSUME TypeInv, RefusedInv, NEW r \in Runs,
                        pc[r] = "gate", r \notin overlapped
                 PROVE  ~GatePasses
        BY DEF AloneIsRefused
    <2>1. Done(r, LoopAt)
        BY SlotRange DEF TypeInv, Placed, Active, Done
    <2>2. ~Pass("repair")
        BY <2>1 DEF RefusedInv, RefusedOf
    <2> QED  BY <2>2 DEF GatePasses, ReportNames
<1> QED  BY <1>1, <1>2, RefusedStep, AwareAlways, RoundsAlways, TypeAlways,
            PTL DEF Spec

-----------------------------------------------------------------------------
(* The refinement: FlutterPipeline implements the safety part of           *)
(* JobPromise.                                                             *)

Owed == {r \in Runs : pc[r] \in Active \cup {"queued"}}
Lost == {r \in Runs : pc[r] = "lost"}

\* A run at work stays at work, and leaves the status of the row alone, in
\* every step but its verdict and the loss of its process.
LEMMA StaysAtWork ==
    ASSUME TypeInv, NEW r \in Runs, StepOf(r),
           ~(Submit(r) \/ Start(r) \/ Upsert(r) \/ Verdict(r) \/ Dies(r))
    PROVE  /\ pc[r] \in Active /\ job' = job
           /\ \E place \in Active : pc' = [pc EXCEPT ![r] = place]
<1> USE DEF Goto, End, stores, locals, Active, Outer, Loop
<1>1. CASE Begin(r) \/ Insert(r) \/ Work(r) \/ Gate(r)
    BY <1>1 DEF Begin, Insert, Work, Gate
<1>2. CASE StartRow(r) \/ After(r) \/ RowFailed(r)
    BY <1>2 DEF StartRow, After, RowFailed, WriteRow
<1>3. CASE ClosePassed(r) \/ CloseFailed(r) \/ CloseCancelled(r)
    BY <1>3 DEF ClosePassed, CloseFailed, CloseCancelled
<1>4. CASE QaCount(r) \/ QaInsert(r) \/ QaWork(r) \/ QaFailed(r)
    BY <1>4 DEF QaCount, QaInsert, QaWork, QaFailed, InsertStep, StepFailed
<1>5. CASE FixCount(r) \/ FixInsert(r) \/ FixWork(r) \/ FixFailed(r)
    BY <1>5 DEF FixCount, FixInsert, FixWork, FixFailed, InsertStep, StepFailed
<1>6. CASE QaRead(r) \/ FixRead(r) \/ WriteHistory(r)
    BY <1>6 DEF QaRead, FixRead, WriteHistory
<1>7. CASE InputMissing(r) \/ Raises(r)
    BY <1>7 DEF InputMissing, Impossible, Raises, HandlerOf
<1>8. CASE BookkeepingRaises(r)
    BY <1>8 DEF BookkeepingRaises
<1> QED  BY <1>1, <1>2, <1>3, <1>4, <1>5, <1>6, <1>7, <1>8
         DEF StepOf, RunStep, Fault

PromiseStep == Promise!PromiseNext \/ UNCHANGED <<job, Owed, Lost>>

LEMMA RunPromise ==
    ASSUME TypeInv, Decided, NEW r \in Runs, StepOf(r)
    PROVE  PromiseStep
<1> USE DEF Goto, End, Owed, Lost
<1>0. /\ pc \in [Runs -> Places]
      /\ outcome \in [Runs -> {"none", "succeeded", "failed", "cancelled"}]
      /\ {"idle", "queued", "done", "lost"} \cap Active = {}
      /\ {"upsert", "begin", "verdict"} \subseteq Active
    BY DEF TypeInv, TypeOK, Active, Outer, Loop
<1>1. CASE Submit(r)
    <2>1. /\ pc[r] = "idle" /\ pc' = [pc EXCEPT ![r] = "queued"]
          /\ job' = "queued"
        BY <1>1 DEF Submit
    <2>2. r \notin Owed /\ Owed' = Owed \cup {r} /\ Lost' = Lost
        BY <1>0, <2>1
    <2>3. Promise!Accept(r)
        BY <2>1, <2>2 DEF Promise!Accept
    <2> QED  BY <2>3 DEF PromiseStep, Promise!PromiseNext
<1>2. CASE Start(r)
    <2>1. /\ pc[r] = "queued"
          /\ \/ pc' = [pc EXCEPT ![r] = "verdict"] /\ job' = job
             \/ pc' = [pc EXCEPT ![r] = "upsert"] /\ job' = job
        BY <1>2 DEF Start, stores
    <2>2. Owed' = Owed /\ Lost' = Lost
        BY <1>0, <2>1
    <2> QED  BY <2>1, <2>2 DEF PromiseStep
<1>6. CASE Upsert(r)
    <2>1. /\ pc[r] = "upsert" /\ pc' = [pc EXCEPT ![r] = "begin"]
          /\ job' = "running"
        BY <1>6 DEF Upsert
    <2>2. r \in Owed /\ Owed' = Owed /\ Lost' = Lost
        BY <1>0, <2>1
    <2>3. Promise!Begin(r)
        BY <2>1, <2>2 DEF Promise!Begin
    <2> QED  BY <2>2, <2>3 DEF PromiseStep, Promise!PromiseNext
<1>3. CASE Verdict(r)
    <2>1. /\ pc[r] = "verdict" /\ pc' = [pc EXCEPT ![r] = "done"]
          /\ job' \in {"succeeded", "failed", "cancelled"}
        BY <1>0, <1>3 DEF Verdict, Decided
    <2>2. r \in Owed /\ Owed' = Owed \ {r} /\ Lost' = Lost
        BY <1>0, <2>1
    <2>3. Promise!Settle(r)
        BY <2>1, <2>2 DEF Promise!Settle, Promise!Terminal
    <2> QED  BY <2>3 DEF PromiseStep, Promise!PromiseNext
<1>4. CASE Dies(r)
    <2>1. /\ pc[r] \in Active /\ pc' = [pc EXCEPT ![r] = "lost"]
          /\ job' = job
        BY <1>4 DEF Dies, stores
    <2>2. Owed' = Owed \ {r} /\ Lost' = Lost \cup {r}
        BY <1>0, <2>1
    <2>3. Promise!Lose({r})
        BY <2>1, <2>2 DEF Promise!Lose
    <2> QED  BY <2>3 DEF PromiseStep, Promise!PromiseNext
<1>5. CASE ~(Submit(r) \/ Start(r) \/ Upsert(r) \/ Verdict(r) \/ Dies(r))
    <2>1. PICK place \in Active : pc' = [pc EXCEPT ![r] = place]
        BY <1>5, StaysAtWork
    <2>2. pc[r] \in Active /\ job' = job
        BY <1>5, StaysAtWork
    <2>3. Owed' = Owed /\ Lost' = Lost
        BY <1>0, <2>1, <2>2
    <2> QED  BY <2>2, <2>3 DEF PromiseStep
<1> QED  BY <1>1, <1>2, <1>3, <1>4, <1>5, <1>6

LEMMA NextPromise == TypeInv /\ Decided /\ [Next]_vars => PromiseStep
<1> SUFFICES ASSUME TypeInv, Decided, [Next]_vars PROVE PromiseStep
    OBVIOUS
<1>1. ASSUME NEW r \in Runs, StepOf(r) PROVE PromiseStep
    BY <1>1, RunPromise
<1>2. CASE CancelJob
    <2>1. UNCHANGED <<Owed, Lost>>
        BY <1>2 DEF CancelJob, Owed, Lost
    <2>2. Promise!RequestStop
        BY <1>2, <2>1
        DEF CancelJob, LiveStatuses, Promise!RequestStop, Promise!Live, Owed,
            Lost
    <2> QED  BY <2>2 DEF PromiseStep, Promise!PromiseNext
<1>3. ASSUME NEW purge \in BOOLEAN, DeleteJob(purge) PROVE PromiseStep
    <2>1. UNCHANGED <<Owed, Lost>>
        BY <1>3 DEF DeleteJob, Owed, Lost
    <2>2. Promise!Discard
        BY <1>3, <2>1 DEF DeleteJob, Promise!Discard, Owed, Lost
    <2> QED  BY <2>2 DEF PromiseStep, Promise!PromiseNext
<1>4. CASE UNCHANGED vars
    BY <1>4 DEF vars, PromiseStep, Owed, Lost
<1> QED  BY <1>1, <1>2, <1>3, <1>4, NextCases

\* The full pipeline keeps the promise of the job service: the row shows only
\* work and verdicts of submissions that are owed one, and each is owed one
\* until its verdict is recorded or its process is lost, with any number of
\* runs of the slug at once.
THEOREM PromiseKept == Spec => KeepsPromise
<1>1. Init => Promise!PromiseInit
    BY DEF Init, Promise!PromiseInit, Active, Outer, Loop
<1>2. PromiseStep => [Promise!PromiseNext]_(Promise!promiseVars)
    BY DEF PromiseStep, Promise!promiseVars, Owed, Lost
<1> QED
    BY <1>1, <1>2, DecidedAlways, NextPromise, PTL
    DEF Spec, KeepsPromise, Promise!PromiseSafety

\* Nobody waits for a live row that no run will ever finish, unless a process
\* was lost: whatever fails, run_full_pipeline leaves through the wrapper that
\* records an outcome.
THEOREM LiveOwed == Spec => []LiveJobIsOwed
<1> DEFINE Named == job \in LiveStatuses => Owed # {} \/ Lost # {}
<1>1. Init => Named
    BY DEF Init, LiveStatuses
<1>2. Named /\ PromiseStep => Named'
    BY DEF PromiseStep, LiveStatuses, Owed, Lost, Promise!PromiseNext,
           Promise!Accept, Promise!Begin, Promise!RequestStop, Promise!Settle,
           Promise!SettleAgain, Promise!Discard, Promise!Lose, Promise!Live,
           Promise!Terminal
<1>3. Named => LiveJobIsOwed
    BY DEF LiveJobIsOwed, Owed, Lost
<1> QED
    BY <1>1, <1>2, <1>3, DecidedAlways, NextPromise, PTL DEF Spec

=============================================================================
